-------------------------- MODULE WebSensorProofs --------------------------
(***************************************************************************)
(* Proofs about WebSensor, for any sensors, any number of timers' threads  *)
(* and any number of pulses and kills.                                     *)
(*                                                                         *)
(* The files are a matter of _save_file() alone: what is renamed was       *)
(* closed.  The pulses are a matter of the lock: an update begins only     *)
(* when none is under way, so the flow it fills is still empty, and from   *)
(* the reading of a counter to the end of _count_passed() nobody else      *)
(* touches what was passed before.                                         *)
(***************************************************************************)
EXTENDS WebSensor, TLAPS

-----------------------------------------------------------------------------
(***************************************************************************)
(* The files                                                               *)
(***************************************************************************)

SaveStates == [file : File, step : {"open", "dump", "rename", "done"}]

\* What os.rename() moves is whole.
FileInv ==
    /\ files \in [File -> Content]
    /\ tmp_files \in [File -> Content]
    /\ save \in SaveStates \/ save = NotSaving
    /\ save.step = "rename" => tmp_files[save.file] = "whole"
    /\ FilesWhole

LEMMA FilesInitially == Init => FileInv
  BY DEF Init, FileInv, FilesWhole, File, Content, NotSaving

\* The steps that have to do with the files.
LEMMA FileSteps ==
    ASSUME [Next]_vars
    PROVE  \/ OpenTmp \/ Dump \/ Rename \/ SaveFails \/ Kill
           \/ /\ save' = NotSaving \/ \E file \in File : save' = [file |-> file, step |-> "open"]
              /\ UNCHANGED << files, tmp_files >>
           \/ UNCHANGED fileVars
<1> USE DEF timerVars, flowVars, tempVars, fileVars, historyVars, File
<1>1. CASE Load \/ CreateTimer \/ Publish \/ SavePersistent
  BY <1>1 DEF Load, CreateTimer, Publish, SavePersistent
<1>2. ASSUME NEW t \in Timer, UpdateEnds(t)
      PROVE  save' = NotSaving /\ UNCHANGED << files, tmp_files >>
  BY <1>2 DEF UpdateEnds
<1>3. CASE CreateMonitor \/ StartMonitor \/ StartTimer \/ TimerStarted \/ SetTime
  BY <1>3 DEF CreateMonitor, StartMonitor, StartTimer, TimerStarted, SetTime
<1>4. ASSUME NEW f \in Flow, ReadTally(f) \/ CountPassed(f) \/ Callback(f)
      PROVE  UNCHANGED fileVars
  BY <1>4 DEF ReadTally, CountPassed, Callback
<1>5. ASSUME NEW t \in Timer, CollectRaises(t) \/ Expire(t) \/ RunResets(t) \/ RunStarts(t)
      PROVE  UNCHANGED fileVars
  BY <1>5 DEF CollectRaises, Expire, RunResets, RunStarts
<1>6. ASSUME NEW t \in Timer, RunStarted(t) \/ UpdateTooEarly(t) \/ UpdateBegins(t)
      PROVE  UNCHANGED fileVars
  BY <1>6 DEF RunStarted, UpdateTooEarly, UpdateBegins
<1>7. ASSUME NEW n \in Temp, AppendReading(n)
      PROVE  UNCHANGED fileVars
  BY <1>7 DEF AppendReading
<1>8. CASE ReadRaises \/ Restart \/ Serve \/ UNCHANGED vars
  BY <1>8 DEF ReadRaises, Restart, Serve, vars
<1> HIDE DEF timerVars, flowVars, tempVars, fileVars, historyVars, File
<1> QED
  BY <1>1, <1>2, <1>3, <1>4, <1>5, <1>6, <1>7, <1>8
     DEF Next, SaveStep, MainThread, UpdateStep, TimerThread

LEMMA FilesInductive == FileInv /\ [Next]_vars => FileInv'
<1> SUFFICES ASSUME FileInv, [Next]_vars
             PROVE  FileInv'
  OBVIOUS
<1>0. /\ files \in [File -> Content] /\ tmp_files \in [File -> Content]
      /\ save \in SaveStates \/ save = NotSaving
      /\ save.step = "rename" => tmp_files[save.file] = "whole"
      /\ \A f \in File : files[f] # "cut"
  BY DEF FileInv, FilesWhole
<1>1. save.step \in {"open", "dump", "rename"} => save \in SaveStates /\ save.file \in File
  BY <1>0 DEF NotSaving, SaveStates
<1>2. "absent" \in Content /\ "cut" \in Content /\ "whole" \in Content
  BY DEF Content
<1>3. CASE OpenTmp
  <2>1. /\ save.file \in File /\ save \in SaveStates
        /\ tmp_files' = [tmp_files EXCEPT ![save.file] = "cut"] /\ files' = files
        /\ save' = [save EXCEPT !.step = "dump"]
    BY <1>1, <1>3 DEF OpenTmp, Opened
  <2>2. save' \in SaveStates /\ save'.step = "dump"
    BY <2>1 DEF SaveStates
  <2> QED
    BY <1>0, <1>2, <2>1, <2>2 DEF FileInv, FilesWhole
<1>4. CASE Dump
  <2>1. /\ save.file \in File /\ save \in SaveStates
        /\ tmp_files' = [tmp_files EXCEPT ![save.file] = "whole"] /\ files' = files
        /\ save' = [save EXCEPT !.step = "rename"]
    BY <1>1, <1>4 DEF Dump
  <2>2. save' \in SaveStates /\ save'.file = save.file
    BY <2>1 DEF SaveStates
  <2>3. tmp_files'[save'.file] = "whole"
    BY <1>0, <2>1, <2>2
  <2> QED
    BY <1>0, <1>2, <2>1, <2>2, <2>3 DEF FileInv, FilesWhole
<1>5. CASE Rename
  <2>1. /\ save.file \in File /\ save \in SaveStates
        /\ files' = [files EXCEPT ![save.file] = tmp_files[save.file]]
        /\ tmp_files' = [tmp_files EXCEPT ![save.file] = "absent"]
        /\ save' = [save EXCEPT !.step = "done"]
        /\ tmp_files[save.file] = "whole"
    BY <1>0, <1>1, <1>5 DEF Rename
  <2>2. save' \in SaveStates /\ save'.step = "done"
    BY <2>1 DEF SaveStates
  <2> QED
    BY <1>0, <1>2, <2>1, <2>2 DEF FileInv, FilesWhole
<1>6. CASE SaveFails
  <2>1. /\ save.file \in File /\ save \in SaveStates
        /\ tmp_files' = [tmp_files EXCEPT ![save.file] = "absent"] /\ files' = files
        /\ save' = [save EXCEPT !.step = "done"]
    BY <1>1, <1>6 DEF SaveFails
  <2>2. save' \in SaveStates /\ save'.step = "done"
    BY <2>1 DEF SaveStates
  <2> QED
    BY <1>0, <1>2, <2>1, <2>2 DEF FileInv, FilesWhole
<1>7. CASE Kill
  <2>1. save' = NotSaving /\ save'.step # "rename"
    BY <1>7 DEF Kill, NotSaving
  <2>2. /\ files' \in [File -> Content] /\ tmp_files' \in [File -> Content]
        /\ \A f \in File : files'[f] # "cut"
    BY <1>0, <1>2, <1>7 DEF Kill
  <2> QED
    BY <2>1, <2>2 DEF FileInv, FilesWhole
<1>8. ASSUME save' = NotSaving \/ \E file \in File : save' = [file |-> file, step |-> "open"],
             UNCHANGED << files, tmp_files >>
      PROVE  FileInv'
  <2>1. (save' \in SaveStates \/ save' = NotSaving) /\ save'.step # "rename"
    BY <1>8 DEF NotSaving, SaveStates
  <2> QED
    BY <1>0, <1>8, <2>1 DEF FileInv, FilesWhole
<1>9. CASE UNCHANGED fileVars
  BY <1>0, <1>9 DEF fileVars, FileInv, FilesWhole
<1> QED
  BY <1>3, <1>4, <1>5, <1>6, <1>7, <1>8, <1>9, FileSteps

\* Whoever reads one of the files never finds a part of a result, wherever the process
\* was killed and whichever write failed (_save_file).
THEOREM FilesAlwaysWhole == Spec => []FilesWhole
<1>1. FileInv => FilesWhole
  BY DEF FileInv
<1> QED
  BY <1>1, FilesInitially, FilesInductive, PTL DEF Spec

-----------------------------------------------------------------------------
(***************************************************************************)
(* The pulses                                                              *)
(***************************************************************************)

Counters == [Flow -> Nat]

UpdateStates ==
    [step : {"none", "flow", "count", "save"}, toRead : SUBSET Flow, reading : SUBSET Flow,
     tally : Nat]

PulseTypes ==
    /\ tally_counter \in Counters /\ prev_tally \in Counters /\ flow \in Counters
    /\ published \in Counters /\ lost \in Counters
    /\ update \in UpdateStates

\* The main thread holds the lock in start() and nowhere else, and an update is
\* under way only in the thread that holds it.
LockInv ==
    /\ main \in {"start_timer", "timer_started", "set_time"} <=> lock = "main"
    /\ update.step # "none" => lock \in Timer

\* Outside collect() there is no result to fill, and in it the sensors that are
\* still to be read have no part in it.  Between the reading of a counter and the
\* end of _count_passed() the tally lies between what was passed and the counter.
CollectInv ==
    /\ update.step \in {"none", "save"} => flow = Zero
    /\ update.step \in {"flow", "count"} => \A f \in update.toRead : flow[f] = 0
    /\ update.step = "count" =>
          \A f \in update.reading :
             /\ f \notin update.toRead
             /\ flow[f] = 0
             /\ prev_tally[f] <= update.tally
             /\ update.tally <= tally_counter[f]

PulseInv == PulseTypes /\ LockInv /\ CollectInv /\ PulsesAccounted

pulseVars == << main, lock, update, flowVars, historyVars >>

LEMMA PulsesInitially == Init => PulseInv
<1> SUFFICES ASSUME Init PROVE PulseInv
  OBVIOUS
<1> USE DEF Init
<1>1. Zero \in Counters /\ \A f \in Flow : Zero[f] = 0
  BY DEF Zero, Counters
<1>2. update = NoUpdate /\ NoUpdate \in UpdateStates /\ NoUpdate.step = "none"
  BY DEF NoUpdate, UpdateStates
<1>3. PulseTypes
  BY <1>1, <1>2 DEF PulseTypes
<1>4. LockInv
  BY <1>2 DEF LockInv
<1>5. CollectInv
  BY <1>2 DEF CollectInv
<1>6. PulsesAccounted
  BY <1>1 DEF PulsesAccounted
<1> QED
  BY <1>3, <1>4, <1>5, <1>6 DEF PulseInv

\* The steps that have to do with the pulses and the lock.  The others of the main
\* thread leave it where it does not hold the lock, or where it does.
LEMMA PulseSteps ==
    ASSUME [Next]_vars
    PROVE  \/ StartMonitor \/ SetTime \/ Publish \/ Kill
           \/ \E f \in Flow : ReadTally(f) \/ CountPassed(f) \/ Callback(f)
           \/ \E t \in Timer : UpdateBegins(t) \/ CollectRaises(t) \/ UpdateEnds(t)
           \/ /\ \/ Load \/ CreateTimer \/ CreateMonitor \/ StartTimer \/ TimerStarted
                 \/ Restart
              /\ UNCHANGED << lock, update, flowVars, historyVars >>
           \/ UNCHANGED pulseVars
<1> USE DEF timerVars, flowVars, tempVars, fileVars, historyVars, pulseVars
<1>1. CASE Load \/ CreateTimer \/ CreateMonitor \/ StartTimer \/ TimerStarted \/ Restart
  <2>1. UNCHANGED << lock, update, flowVars, historyVars >>
    BY <1>1 DEF Load, CreateTimer, CreateMonitor, StartTimer, TimerStarted, Restart
  <2> QED
    BY <1>1, <2>1
<1>2. CASE OpenTmp \/ Dump \/ Rename \/ SaveFails \/ SavePersistent
  BY <1>2 DEF OpenTmp, Dump, Rename, SaveFails, SavePersistent
<1>3. ASSUME NEW t \in Timer, Expire(t) \/ RunResets(t) \/ RunStarts(t)
      PROVE  UNCHANGED pulseVars
  BY <1>3 DEF Expire, RunResets, RunStarts
<1>4. ASSUME NEW t \in Timer, RunStarted(t) \/ UpdateTooEarly(t)
      PROVE  UNCHANGED pulseVars
  BY <1>4 DEF RunStarted, UpdateTooEarly
<1>5. ASSUME NEW n \in Temp, AppendReading(n)
      PROVE  UNCHANGED pulseVars
  BY <1>5 DEF AppendReading
<1>6. CASE ReadRaises \/ Serve \/ UNCHANGED vars
  BY <1>6 DEF ReadRaises, Serve, vars
<1> HIDE DEF timerVars, flowVars, tempVars, fileVars, historyVars, pulseVars
<1> QED
  BY <1>1, <1>2, <1>3, <1>4, <1>5, <1>6
     DEF Next, SaveStep, MainThread, UpdateStep, TimerThread

LEMMA PulsesInductive == PulseInv /\ [Next]_vars => PulseInv'
<1> SUFFICES ASSUME PulseInv, [Next]_vars
             PROVE  PulseInv'
  OBVIOUS
<1>a. PulseTypes /\ LockInv /\ CollectInv /\ PulsesAccounted
  BY DEF PulseInv
<1>b. /\ tally_counter \in [Flow -> Nat] /\ prev_tally \in [Flow -> Nat]
      /\ flow \in [Flow -> Nat] /\ published \in [Flow -> Nat] /\ lost \in [Flow -> Nat]
      /\ update \in UpdateStates
  BY <1>a DEF PulseTypes, Counters
<1>c. Zero \in [Flow -> Nat] /\ \A f \in Flow : Zero[f] = 0
  BY DEF Zero
<1>d. /\ update.toRead \in SUBSET Flow /\ update.reading \in SUBSET Flow /\ update.tally \in Nat
      /\ update.step \in {"none", "flow", "count", "save"}
  BY <1>b DEF UpdateStates
<1>e. NoUpdate \in UpdateStates /\ NoUpdate.step = "none"
  BY DEF NoUpdate, UpdateStates
<1>f. "main" \notin Timer /\ "nobody" \notin Timer
  BY WebSensorAssumption
<1>1. CASE StartMonitor
  <2>1. lock' = "main" /\ main' = "start_timer" /\ lock = "nobody"
        /\ UNCHANGED << update, flowVars, historyVars >>
    BY <1>1 DEF StartMonitor
  <2>2. update.step = "none"
    BY <1>a, <1>f, <2>1 DEF LockInv
  <2> QED
    BY <1>a, <2>1, <2>2 DEF flowVars, historyVars, PulseInv, PulseTypes, LockInv, CollectInv,
                            PulsesAccounted
<1>2. CASE SetTime
  <2>1. lock' = "nobody" /\ main' = "serve" /\ lock = "main"
        /\ UNCHANGED << update, flowVars, historyVars >>
    BY <1>a, <1>2 DEF SetTime, LockInv
  <2>2. update.step = "none"
    BY <1>a, <1>f, <2>1 DEF LockInv
  <2> QED
    BY <1>a, <2>1, <2>2 DEF flowVars, historyVars, PulseInv, PulseTypes, LockInv, CollectInv,
                            PulsesAccounted
<1>3. CASE Publish
  <2>1. /\ published' = [f \in Flow |-> published[f] + flow[f]]
        /\ flow' = Zero
        /\ update' = [step |-> "save", toRead |-> {}, reading |-> {}, tally |-> 0]
        /\ UNCHANGED << main, lock, tally_counter, prev_tally, lost >>
        /\ update.step = "flow"
    BY <1>3 DEF Publish, NoUpdate
  <2>2. update' \in UpdateStates /\ update'.step = "save"
    BY <2>1 DEF UpdateStates
  <2>3. \A f \in Flow : published'[f] = published[f] + flow[f] /\ published[f] + flow[f] \in Nat
    BY <1>b, <2>1
  <2>4. PulseTypes'
    BY <1>b, <1>c, <2>1, <2>2, <2>3 DEF PulseTypes, Counters
  <2>5. LockInv'
    BY <1>a, <2>1 DEF LockInv
  <2>6. CollectInv'
    BY <2>1, <2>2 DEF CollectInv
  <2>7. PulsesAccounted'
    <3> SUFFICES ASSUME NEW f \in Flow
                 PROVE  /\ published'[f] + lost'[f] + flow'[f] = prev_tally'[f]
                        /\ prev_tally'[f] <= tally_counter'[f]
      BY DEF PulsesAccounted
    <3>1. /\ published[f] + lost[f] + flow[f] = prev_tally[f]
          /\ prev_tally[f] <= tally_counter[f]
      BY <1>a DEF PulsesAccounted
    <3>2. published'[f] = published[f] + flow[f] /\ flow'[f] = 0
      BY <1>c, <2>1, <2>3
    <3>3. published[f] \in Nat /\ lost[f] \in Nat /\ flow[f] \in Nat
      BY <1>b
    <3> QED
      BY <2>1, <3>1, <3>2, <3>3
  <2> QED
    BY <2>4, <2>5, <2>6, <2>7 DEF PulseInv
<1>4. CASE Kill
  <2>1. /\ main' = "dead" /\ lock' = "nobody" /\ update' = NoUpdate
        /\ tally_counter' = Zero /\ prev_tally' = Zero /\ flow' = Zero
        /\ published' = Zero /\ lost' = Zero
    BY <1>4 DEF Kill
  <2>2. PulseTypes'
    BY <1>c, <1>e, <2>1 DEF PulseTypes, Counters
  <2>3. LockInv' /\ CollectInv'
    BY <1>e, <2>1 DEF LockInv, CollectInv
  <2>4. PulsesAccounted'
    BY <1>c, <2>1 DEF PulsesAccounted
  <2> QED
    BY <2>2, <2>3, <2>4 DEF PulseInv
<1>5. ASSUME NEW f \in Flow, ReadTally(f)
      PROVE  PulseInv'
  <2>1. /\ update.step = "flow" /\ f \in update.toRead
        /\ update' = [step |-> "count", toRead |-> update.toRead \ {f}, reading |-> {f},
                      tally |-> tally_counter[f]]
        /\ UNCHANGED << main, lock, tally_counter, prev_tally, flow, published, lost >>
    BY <1>5 DEF ReadTally, flowVars, historyVars
  <2>2. /\ update'.step = "count" /\ update'.toRead = update.toRead \ {f}
        /\ update'.reading = {f} /\ update'.tally = tally_counter[f]
    BY <2>1
  <2>3. update' \in UpdateStates
    BY <1>b, <1>d, <2>1 DEF UpdateStates
  <2>4. PulseTypes' /\ LockInv' /\ PulsesAccounted'
    BY <1>a, <2>1, <2>2, <2>3 DEF PulseTypes, LockInv, PulsesAccounted
  <2>5. flow[f] = 0 /\ prev_tally[f] <= tally_counter[f] /\ \A g \in update.toRead : flow[g] = 0
    BY <1>a, <2>1 DEF CollectInv, PulsesAccounted
  <2>6. tally_counter[f] <= tally_counter[f]
    BY <1>b
  <2>7. CollectInv'
    BY <2>1, <2>2, <2>5, <2>6 DEF CollectInv
  <2> QED
    BY <2>4, <2>7 DEF PulseInv
<1>6. ASSUME NEW f \in Flow, CountPassed(f)
      PROVE  PulseInv'
  <2>1. /\ update.step = "count" /\ f \in update.reading
        /\ flow' = [flow EXCEPT ![f] = update.tally - prev_tally[f]]
        /\ prev_tally' = [prev_tally EXCEPT ![f] = update.tally]
        /\ update' = [step |-> "flow", toRead |-> update.toRead, reading |-> {}, tally |-> 0]
        /\ UNCHANGED << main, lock, tally_counter, published, lost >>
    BY <1>6 DEF CountPassed, Passed, NoUpdate, historyVars
  <2>2. /\ f \notin update.toRead /\ flow[f] = 0
        /\ prev_tally[f] <= update.tally /\ update.tally <= tally_counter[f]
        /\ \A g \in update.toRead : flow[g] = 0
    BY <1>a, <2>1 DEF CollectInv
  <2>3. update.tally - prev_tally[f] \in Nat
    BY <1>b, <1>d, <2>2
  <2>4. update' \in UpdateStates /\ update'.step = "flow" /\ update'.toRead = update.toRead
    BY <1>d, <2>1 DEF UpdateStates
  <2>5. PulseTypes'
    BY <1>b, <1>d, <2>1, <2>3, <2>4 DEF PulseTypes, Counters
  <2>6. LockInv'
    BY <1>a, <2>1 DEF LockInv
  <2>7. CollectInv'
    BY <1>b, <1>d, <2>1, <2>2, <2>4 DEF CollectInv
  <2>8. PulsesAccounted'
    <3> SUFFICES ASSUME NEW g \in Flow
                 PROVE  /\ published'[g] + lost'[g] + flow'[g] = prev_tally'[g]
                        /\ prev_tally'[g] <= tally_counter'[g]
      BY DEF PulsesAccounted
    <3>1. /\ published[g] + lost[g] + flow[g] = prev_tally[g]
          /\ prev_tally[g] <= tally_counter[g]
      BY <1>a DEF PulsesAccounted
    <3>2. /\ published[g] \in Nat /\ lost[g] \in Nat /\ flow[g] \in Nat
          /\ prev_tally[g] \in Nat /\ tally_counter[g] \in Nat
      BY <1>b
    <3>3. CASE g = f
      <4>1. flow'[g] = update.tally - prev_tally[g] /\ prev_tally'[g] = update.tally
        BY <1>b, <2>1, <3>3
      <4> QED
        BY <1>d, <2>1, <2>2, <3>1, <3>2, <3>3, <4>1
    <3>4. CASE g # f
      <4>1. flow'[g] = flow[g] /\ prev_tally'[g] = prev_tally[g]
        BY <1>b, <2>1, <3>4
      <4> QED
        BY <2>1, <3>1, <4>1
    <3> QED
      BY <3>3, <3>4
  <2> QED
    BY <2>5, <2>6, <2>7, <2>8 DEF PulseInv
<1>7. ASSUME NEW f \in Flow, Callback(f)
      PROVE  PulseInv'
  <2>1. /\ tally_counter' = [tally_counter EXCEPT ![f] = tally_counter[f] + 1]
        /\ UNCHANGED << main, lock, update, prev_tally, flow, published, lost >>
    BY <1>7 DEF Callback, historyVars
  <2>2. tally_counter[f] + 1 \in Nat
    BY <1>b
  <2>3. PulseTypes' /\ LockInv'
    BY <1>a, <1>b, <2>1, <2>2 DEF PulseTypes, Counters, LockInv
  <2>4. ASSUME NEW g \in Flow
        PROVE  \A n \in Nat : n <= tally_counter[g] => n <= tally_counter'[g]
    BY <1>b, <2>1
  <2>5. CollectInv'
    BY <1>a, <1>d, <2>1, <2>4 DEF CollectInv
  <2>6. PulsesAccounted'
    BY <1>a, <1>b, <2>1, <2>4 DEF PulsesAccounted
  <2> QED
    BY <2>3, <2>5, <2>6 DEF PulseInv
<1>8. ASSUME NEW t \in Timer, UpdateBegins(t)
      PROVE  PulseInv'
  <2>1. /\ main = "serve" /\ lock = "nobody" /\ lock' = t
        /\ update' = [step |-> "flow", toRead |-> Flow, reading |-> {}, tally |-> 0]
        /\ UNCHANGED << main, tally_counter, prev_tally, flow, published, lost >>
    BY <1>8 DEF UpdateBegins, NoUpdate, flowVars, historyVars
  <2>2. flow = Zero
    BY <1>a, <1>f, <2>1 DEF LockInv, CollectInv
  <2>3. update' \in UpdateStates /\ update'.step = "flow" /\ update'.toRead = Flow
    BY <2>1 DEF UpdateStates
  <2>4. PulseTypes' /\ PulsesAccounted'
    BY <1>a, <2>1, <2>3 DEF PulseTypes, PulsesAccounted
  <2>5. LockInv'
    BY <1>f, <2>1, <2>3 DEF LockInv
  <2>6. CollectInv'
    BY <1>c, <2>1, <2>2, <2>3 DEF CollectInv
  <2> QED
    BY <2>4, <2>5, <2>6 DEF PulseInv
<1>9. ASSUME NEW t \in Timer, CollectRaises(t)
      PROVE  PulseInv'
  <2>1. /\ lock = t /\ lock' = "nobody"
        /\ lost' = [f \in Flow |-> lost[f] + flow[f]]
        /\ flow' = Zero
        /\ update' = NoUpdate
        /\ UNCHANGED << main, tally_counter, prev_tally, published >>
    BY <1>9 DEF CollectRaises
  <2>2. \A f \in Flow : lost'[f] = lost[f] + flow[f] /\ lost[f] + flow[f] \in Nat
    BY <1>b, <2>1
  <2>3. PulseTypes'
    BY <1>b, <1>c, <1>e, <2>1, <2>2 DEF PulseTypes, Counters
  <2>4. LockInv'
    BY <1>a, <1>e, <1>f, <2>1 DEF LockInv
  <2>5. CollectInv'
    BY <1>e, <2>1 DEF CollectInv
  <2>6. PulsesAccounted'
    <3> SUFFICES ASSUME NEW f \in Flow
                 PROVE  /\ published'[f] + lost'[f] + flow'[f] = prev_tally'[f]
                        /\ prev_tally'[f] <= tally_counter'[f]
      BY DEF PulsesAccounted
    <3>1. /\ published[f] + lost[f] + flow[f] = prev_tally[f]
          /\ prev_tally[f] <= tally_counter[f]
      BY <1>a DEF PulsesAccounted
    <3>2. lost'[f] = lost[f] + flow[f] /\ flow'[f] = 0
      BY <1>c, <2>1, <2>2
    <3>3. published[f] \in Nat /\ lost[f] \in Nat /\ flow[f] \in Nat
      BY <1>b
    <3> QED
      BY <2>1, <3>1, <3>2, <3>3
  <2> QED
    BY <2>3, <2>4, <2>5, <2>6 DEF PulseInv
<1>10. ASSUME NEW t \in Timer, UpdateEnds(t)
       PROVE  PulseInv'
  <2>1. /\ lock = t /\ lock' = "nobody" /\ update.step = "save" /\ update' = NoUpdate
        /\ UNCHANGED << main, tally_counter, prev_tally, flow, published, lost >>
    BY <1>10 DEF UpdateEnds, flowVars, historyVars
  <2>2. PulseTypes' /\ PulsesAccounted'
    BY <1>a, <1>e, <2>1 DEF PulseTypes, PulsesAccounted
  <2>3. LockInv'
    BY <1>a, <1>e, <1>f, <2>1 DEF LockInv
  <2>4. CollectInv'
    BY <1>a, <1>e, <2>1 DEF CollectInv
  <2> QED
    BY <2>2, <2>3, <2>4 DEF PulseInv
<1>11. ASSUME Load \/ CreateTimer \/ CreateMonitor \/ StartTimer \/ TimerStarted \/ Restart,
              UNCHANGED << lock, update, flowVars, historyVars >>
       PROVE  PulseInv'
  <2>1. main' \in {"start_timer", "timer_started", "set_time"}
           <=> main \in {"start_timer", "timer_started", "set_time"}
    BY <1>11 DEF Load, CreateTimer, CreateMonitor, StartTimer, TimerStarted, Restart
  <2>2. LockInv'
    BY <1>a, <1>11, <2>1 DEF LockInv
  <2>3. PulseTypes' /\ CollectInv' /\ PulsesAccounted'
    BY <1>a, <1>11 DEF flowVars, historyVars, PulseTypes, CollectInv, PulsesAccounted
  <2> QED
    BY <2>2, <2>3 DEF PulseInv
<1>12. CASE UNCHANGED pulseVars
  BY <1>a, <1>12 DEF pulseVars, flowVars, historyVars, PulseInv, PulseTypes, LockInv,
                     CollectInv, PulsesAccounted
<1> QED
  BY <1>1, <1>2, <1>3, <1>4, <1>5, <1>6, <1>7, <1>8, <1>9, <1>10, <1>11, <1>12, PulseSteps

\* Every pulse that was passed is in one update, published or lost with it, or in
\* the one that is under way, and no pulse is passed before it was counted,
\* although the callbacks count on while _count_passed() runs (collect).
THEOREM PulsesAlwaysAccounted == Spec => []PulsesAccounted
<1>1. PulseInv => PulsesAccounted
  BY DEF PulseInv
<1> QED
  BY <1>1, PulsesInitially, PulsesInductive, PTL DEF Spec

-----------------------------------------------------------------------------
(***************************************************************************)
(* The types                                                               *)
(***************************************************************************)

MainStates ==
    {"load", "first_save", "create_monitor", "start", "start_timer", "timer_started",
     "set_time", "serve", "dead"}

TimerStates == {"free", "armed", "expired", "restart", "restarted", "function", "update"}

\* What TypeOK says of the threads.
ThreadTypes ==
    /\ main \in MainStates
    /\ timers \in [Timer -> TimerStates]
    /\ lock \in {"nobody", "main"} \cup Timer
    /\ monitor \in {"none", "idle", "ended"}

LEMMA ThreadsTyped == ThreadTypes /\ [Next]_vars => ThreadTypes'
<1> SUFFICES ASSUME ThreadTypes, [Next]_vars
             PROVE  ThreadTypes'
  OBVIOUS
<1>0. /\ main \in MainStates /\ timers \in [Timer -> TimerStates]
      /\ lock \in {"nobody", "main"} \cup Timer /\ monitor \in {"none", "idle", "ended"}
  BY DEF ThreadTypes
<1>1. \A t, s : s \in TimerStates => [timers EXCEPT ![t] = s] \in [Timer -> TimerStates]
  BY <1>0
<1>2. \A t, u, r, s : r \in TimerStates /\ s \in TimerStates =>
         [timers EXCEPT ![t] = r, ![u] = s] \in [Timer -> TimerStates]
  BY <1>0
<1>3. TimerStates = {"free", "armed", "expired", "restart", "restarted", "function", "update"}
  BY DEF TimerStates
<1> USE DEF timerVars, tempVars
<1>4. CASE OpenTmp \/ Dump \/ Rename \/ SaveFails \/ SavePersistent \/ Publish
  BY <1>0, <1>4 DEF OpenTmp, Dump, Rename, SaveFails, SavePersistent, Publish, ThreadTypes
<1>5. CASE Load \/ CreateMonitor \/ StartMonitor \/ TimerStarted \/ SetTime \/ Restart
  BY <1>0, <1>5 DEF Load, CreateMonitor, StartMonitor, TimerStarted, SetTime, Restart,
                    ThreadTypes, MainStates
<1>6. CASE CreateTimer \/ StartTimer
  <2>1. timers' = timers \/ timers' = [timers EXCEPT ![NewTimer] = "armed"]
    BY <1>6 DEF CreateTimer, StartTimer
  <2>2. timers' \in [Timer -> TimerStates]
    BY <1>0, <1>1, <1>3, <2>1
  <2>3. main' \in MainStates /\ lock' = lock /\ monitor' = monitor
    BY <1>6 DEF CreateTimer, StartTimer, MainStates
  <2> QED
    BY <1>0, <2>2, <2>3 DEF ThreadTypes
<1>7. ASSUME NEW f \in Flow, ReadTally(f) \/ CountPassed(f) \/ Callback(f)
      PROVE  ThreadTypes'
  BY <1>0, <1>7 DEF ReadTally, CountPassed, Callback, ThreadTypes
<1>8. ASSUME NEW t \in Timer, CollectRaises(t) \/ UpdateEnds(t) \/ UpdateTooEarly(t)
      PROVE  ThreadTypes'
  <2>1. timers' = [timers EXCEPT ![t] = "free"] /\ main' = main /\ monitor' = monitor
        /\ (lock' = "nobody" \/ lock' = lock)
    BY <1>8 DEF CollectRaises, UpdateEnds, UpdateTooEarly
  <2> QED
    BY <1>0, <1>1, <1>3, <2>1 DEF ThreadTypes
<1>9. ASSUME NEW t \in Timer,
             Expire(t) \/ RunResets(t) \/ RunStarts(t) \/ RunStarted(t) \/ UpdateBegins(t)
      PROVE  ThreadTypes'
  <2>1. /\ main' = main /\ monitor' = monitor
        /\ lock' = lock \/ lock' = t
    BY <1>9 DEF Expire, RunResets, RunStarts, RunStarted, UpdateBegins
  <2>2. \/ \E s \in TimerStates : timers' = [timers EXCEPT ![t] = s]
        \/ timers' = [timers EXCEPT ![t] = "restarted", ![NewTimer] = "armed"]
    BY <1>3, <1>9 DEF Expire, RunResets, RunStarts, RunStarted, UpdateBegins
  <2>3. timers' \in [Timer -> TimerStates]
    BY <1>1, <1>2, <1>3, <2>2
  <2> QED
    BY <1>0, <2>1, <2>3 DEF ThreadTypes
<1>10. ASSUME NEW n \in Temp, AppendReading(n)
       PROVE  ThreadTypes'
  BY <1>0, <1>10 DEF AppendReading, ThreadTypes
<1>11. CASE ReadRaises \/ Serve \/ UNCHANGED vars
  BY <1>0, <1>11 DEF ReadRaises, Serve, vars, ThreadTypes
<1>12. CASE Kill
  BY <1>12, <1>3 DEF Kill, ThreadTypes, MainStates
<1> HIDE DEF timerVars, tempVars
<1> QED
  BY <1>4, <1>5, <1>6, <1>7, <1>8, <1>9, <1>10, <1>11, <1>12
     DEF Next, SaveStep, MainThread, UpdateStep, TimerThread

\* The threads are always at one of their places, the lock is held by one of them
\* or by nobody, and a file holds one of the contents.
THEOREM WebSensorTypeCorrect == Spec => []TypeOK
<1>1. Init => ThreadTypes
  BY DEF Init, ThreadTypes, MainStates, TimerStates
<1>2. FileInv /\ ThreadTypes => TypeOK
  BY DEF FileInv, ThreadTypes, MainStates, TimerStates, TypeOK
<1> QED
  BY <1>1, <1>2, FilesInitially, FilesInductive, ThreadsTyped, PTL DEF Spec
=============================================================================
