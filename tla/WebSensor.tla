----------------------------- MODULE WebSensor -----------------------------
(***************************************************************************)
(* devices/bin/websensor.py with devices/lib/pidev: a program that counts  *)
(* the pulses of flow meters, reads thermometers, and puts what it has     *)
(* measured into a file that a web server delivers.                        *)
(*                                                                         *)
(* Four kinds of threads: the main thread, which sets everything up and    *)
(* then serves; the threads of threading.Timer, each of which starts its   *)
(* successor and then updates the file; the thread that reads the          *)
(* thermometers; and the one that calls back for every pulse.  A step here *)
(* is what runs between two points where another thread can be seen to     *)
(* interfere.  The process may be killed at any point and started again.   *)
(*                                                                         *)
(* Left out: litres and means (a flow is its number of pulses, a           *)
(* thermometer its number of readings), calorimeters (a configuration with *)
(* one ends the program with a NameError before it starts), and stop(),    *)
(* which follows serve_forever() and is not reached.                       *)
(***************************************************************************)
EXTENDS Integers, FiniteSets

CONSTANTS
    Flow,          \* the flow sensors
    Temp,          \* the names of the thermometers
    Timer,         \* bound: the threads of timers that exist at a time
    TempMaxLen,    \* _temp_max_len
    MaxPulses,     \* bound: pulses of a flow sensor
    MaxKills       \* bound: how often the process is killed

ASSUME WebSensorAssumption ==
    /\ TempMaxLen \in Nat /\ MaxPulses \in Nat /\ MaxKills \in Nat
    /\ IsFiniteSet(Flow) /\ IsFiniteSet(Temp) /\ IsFiniteSet(Timer)
    /\ "main" \notin Timer /\ "nobody" \notin Timer

File == {"temp_file", "pers_file"}

\* What a file can hold: one that was opened for writing is "cut" until it is closed.
Content == {"absent", "cut", "whole"}

VARIABLES
    main,           \* where the main thread is
    is_running,     \* PeriodicTimer.is_running
    timers,         \* where the timers' threads are
    lock,           \* who holds PeriodicMonitor._lock
    update,         \* where its holder is in _do_update()
    monitor,        \* where the thermometer thread is
    temp_results,   \* _temp_results: the number of readings of the names it holds
    tally_counter,  \* FlowSensor._tally_counter
    prev_tally,     \* FlowSensor._prev_tally
    flow,           \* the flow measurements of the Result that collect() fills
    save,           \* where _save_file() is
    files,          \* the files and
    tmp_files,      \*   those of the same name with .tmp appended
    kills,          \* how often the process was killed
    published,      \* history: pulses in the updates that published their result
    lost            \* history: pulses in the updates that did not

timerVars   == << is_running, timers >>
flowVars    == << tally_counter, prev_tally, flow >>
tempVars    == << monitor, temp_results >>
fileVars    == << save, files, tmp_files >>
historyVars == << published, lost >>
vars == << main, timerVars, lock, update, tempVars, flowVars, fileVars, kills,
           historyVars >>

Zero == [f \in Flow |-> 0]

NotSaving == [file |-> "none", step |-> "done"]

NoUpdate == [step |-> "none", toRead |-> {}, reading |-> {}, tally |-> 0]

Init ==
    /\ main = "load"
    /\ is_running = FALSE
    /\ timers = [t \in Timer |-> "free"]
    /\ lock = "nobody"
    /\ update = NoUpdate
    /\ monitor = "none"
    /\ temp_results = [n \in Temp |-> 0]
    /\ tally_counter = Zero
    /\ prev_tally = Zero
    /\ flow = Zero
    /\ save = NotSaving
    /\ published = Zero
    /\ lost = Zero
    /\ files = [f \in File |-> "absent"]
    /\ tmp_files = [f \in File |-> "absent"]
    /\ kills = 0

-----------------------------------------------------------------------------
(***************************************************************************)
(* _save_file()                                                            *)
(***************************************************************************)

\* Mutant: the file itself is opened.
OpenedInPlace(file) ==
    /\ files' = [files EXCEPT ![file] = "cut"]
    /\ UNCHANGED tmp_files

Opened(file) ==
    /\ tmp_files' = [tmp_files EXCEPT ![file] = "cut"]
    /\ UNCHANGED files

OpenTmp ==
    /\ save.step = "open"
    /\ Opened(save.file)
    /\ save' = [save EXCEPT !.step = "dump"]
    /\ UNCHANGED << main, timerVars, lock, update, tempVars, flowVars, kills, historyVars >>

\* json.dump(), and fd is closed.
Dump ==
    /\ save.step = "dump"
    /\ tmp_files' = [tmp_files EXCEPT ![save.file] = "whole"]
    /\ save' = [save EXCEPT !.step = "rename"]
    /\ UNCHANGED << main, timerVars, lock, update, tempVars, flowVars, files, kills,
                    historyVars >>

\* os.rename(), after which unlink() finds nothing.
Rename ==
    /\ save.step = "rename"
    /\ files' = [files EXCEPT ![save.file] = tmp_files[save.file]]
    /\ tmp_files' = [tmp_files EXCEPT ![save.file] = "absent"]
    /\ save' = [save EXCEPT !.step = "done"]
    /\ UNCHANGED << main, timerVars, lock, update, tempVars, flowVars, kills, historyVars >>

\* The file cannot be opened, written or renamed: unlink() removes what there is.
SaveFails ==
    /\ save.step \in {"open", "dump", "rename"}
    /\ tmp_files' = [tmp_files EXCEPT ![save.file] = "absent"]
    /\ save' = [save EXCEPT !.step = "done"]
    /\ UNCHANGED << main, timerVars, lock, update, tempVars, flowVars, files, kills,
                    historyVars >>

-----------------------------------------------------------------------------
(***************************************************************************)
(* PeriodicTimer                                                           *)
(***************************************************************************)

Free == {t \in Timer : timers[t] = "free"}

\* The thread of a new timer: any that is not in use.
NewTimer == CHOOSE t \in Free : TRUE

\* In start(), between its test and its end.
InStart == main = "timer_started" \/ \E t \in Timer : timers[t] \in {"restart", "restarted"}

\* The threads that may yet create a timer.
Creators ==
    {t \in Timer : timers[t] \in {"expired", "restart"}} \cup
    (IF main \in {"create_monitor", "start", "start_timer"} THEN {"main"} ELSE {})

\* The interval of a timer is over.  It is longer than the few statements of
\* start().  The bound on the timers leaves room for those to be created.
Expire(t) ==
    /\ main # "dead"
    /\ timers[t] = "armed"
    /\ ~ InStart
    /\ Cardinality(Free) > Cardinality(Creators)
    /\ timers' = [timers EXCEPT ![t] = "expired"]
    /\ UNCHANGED << main, is_running, lock, update, tempVars, flowVars, fileVars, kills,
                    historyVars >>

\* Mutant: is_running stays as it is.
RunResetsNot(t) ==
    /\ timers[t] = "expired"
    /\ timers' = [timers EXCEPT ![t] = "restart"]
    /\ UNCHANGED << main, is_running, lock, update, tempVars, flowVars, fileVars, kills,
                    historyVars >>

\* _run(): self.is_running = False
RunResets(t) ==
    /\ timers[t] = "expired"
    /\ timers' = [timers EXCEPT ![t] = "restart"]
    /\ is_running' = FALSE
    /\ UNCHANGED << main, lock, update, tempVars, flowVars, fileVars, kills, historyVars >>

\* start() in _run(): the test, and the new timer.
RunStarts(t) ==
    /\ timers[t] = "restart"
    /\ IF is_running
         THEN timers' = [timers EXCEPT ![t] = "function"]
         ELSE timers' = [timers EXCEPT ![t] = "restarted", ![NewTimer] = "armed"]
    /\ UNCHANGED << main, is_running, lock, update, tempVars, flowVars, fileVars, kills,
                    historyVars >>

\* The end of start() in _run().
RunStarted(t) ==
    /\ timers[t] = "restarted"
    /\ timers' = [timers EXCEPT ![t] = "function"]
    /\ is_running' = TRUE
    /\ UNCHANGED << main, lock, update, tempVars, flowVars, fileVars, kills, historyVars >>

-----------------------------------------------------------------------------
(***************************************************************************)
(* The main thread: PeriodicMonitor.__init__() and start()                 *)
(***************************************************************************)

\* _load() reads the files and then replaces what it has read.
Load ==
    /\ main = "load"
    /\ main' = "first_save"
    /\ save' = [file |-> "temp_file", step |-> "open"]
    /\ UNCHANGED << timerVars, lock, update, tempVars, flowVars, files, tmp_files, kills,
                    historyVars >>

\* PeriodicTimer(), whose constructor starts it.
CreateTimer ==
    /\ main = "first_save"
    /\ save.step = "done"
    /\ main' = "create_monitor"
    /\ save' = NotSaving
    /\ timers' = [timers EXCEPT ![NewTimer] = "armed"]
    /\ is_running' = TRUE
    /\ UNCHANGED << lock, update, tempVars, flowVars, files, tmp_files, kills, historyVars >>

\* SensorsMonitor() and Lock(): only from here on there is a lock to take.
CreateMonitor ==
    /\ main = "create_monitor"
    /\ main' = "start"
    /\ UNCHANGED << timerVars, lock, update, tempVars, flowVars, fileVars, kills,
                    historyVars >>

\* PeriodicMonitor.start(), which starts the thermometer thread ...
StartMonitor ==
    /\ main = "start"
    /\ lock = "nobody"
    /\ main' = "start_timer"
    /\ lock' = "main"
    /\ monitor' = "idle"
    /\ UNCHANGED << timerVars, update, temp_results, flowVars, fileVars, kills, historyVars >>

\* ... and the timer, if it does not run, ...
StartTimer ==
    /\ main = "start_timer"
    /\ \/ /\ is_running
          /\ main' = "set_time"
          /\ UNCHANGED timers
       \/ /\ ~ is_running
          /\ main' = "timer_started"
          /\ timers' = [timers EXCEPT ![NewTimer] = "armed"]
    /\ UNCHANGED << is_running, lock, update, tempVars, flowVars, fileVars, kills,
                    historyVars >>

TimerStarted ==
    /\ main = "timer_started"
    /\ main' = "set_time"
    /\ is_running' = TRUE
    /\ UNCHANGED << timers, lock, update, tempVars, flowVars, fileVars, kills, historyVars >>

\* ... sets _time and _pers_time and releases the lock; then serve_forever().
SetTime ==
    /\ main = "set_time"
    /\ main' = "serve"
    /\ lock' = "nobody"
    /\ UNCHANGED << timerVars, update, tempVars, flowVars, fileVars, kills, historyVars >>

\* serve_forever() answers a request with what a file holds, and changes nothing.
Serve ==
    /\ main = "serve"
    /\ UNCHANGED vars

-----------------------------------------------------------------------------
(***************************************************************************)
(* The pulses and the thermometers                                         *)
(***************************************************************************)

\* FlowSensor._callback().  The sensors exist once the monitor does.
Callback(f) ==
    /\ main \notin {"load", "first_save", "create_monitor", "dead"}
    /\ tally_counter[f] < MaxPulses
    /\ tally_counter' = [tally_counter EXCEPT ![f] = @ + 1]
    /\ UNCHANGED << main, timerVars, lock, update, tempVars, prev_tally, flow, fileVars,
                    kills, historyVars >>

\* The file of a thermometer cannot be read: the exception ends the thread.
ReadRaises ==
    /\ monitor = "idle"
    /\ monitor' = "ended"
    /\ UNCHANGED << main, timerVars, lock, update, temp_results, flowVars, fileVars, kills,
                    historyVars >>

\* A thermometer has a value: _temp_results[name].append(), the KeyError when the
\* name is gone, and the assertion that the list has not reached its limit.  A
\* reading that gives None changes nothing.
AppendReading(n) ==
    /\ monitor = "idle"
    /\ IF n \in DOMAIN temp_results
         THEN /\ temp_results' = [temp_results EXCEPT ![n] = @ + 1]
              /\ monitor' = IF temp_results'[n] < TempMaxLen THEN monitor ELSE "ended"
         ELSE /\ monitor' = "ended"
              /\ UNCHANGED temp_results
    /\ UNCHANGED << main, timerVars, lock, update, flowVars, fileVars, kills, historyVars >>

-----------------------------------------------------------------------------
(***************************************************************************)
(* The update                                                              *)
(***************************************************************************)

\* An update that comes before the lock was created, or _time was set: the
\* AttributeError ends the timer's thread.
UpdateTooEarly(t) ==
    /\ timers[t] = "function"
    /\ main = "create_monitor" \/ (main = "start" /\ lock = "nobody")
    /\ timers' = [timers EXCEPT ![t] = "free"]
    /\ UNCHANGED << main, is_running, lock, update, tempVars, flowVars, fileVars, kills,
                    historyVars >>

\* _update() has the lock and collect() begins.
UpdateBegins(t) ==
    /\ timers[t] = "function"
    /\ main = "serve"
    /\ lock = "nobody"
    /\ lock' = t
    /\ update' = [NoUpdate EXCEPT !.step = "flow", !.toRead = Flow]
    /\ timers' = [timers EXCEPT ![t] = "update"]
    /\ UNCHANGED << main, is_running, tempVars, flowVars, fileVars, kills, historyVars >>

\* _count_passed(): tally = self._tally()
ReadTally(f) ==
    /\ update.step = "flow"
    /\ f \in update.toRead
    /\ update' = [step |-> "count", toRead |-> update.toRead \ {f}, reading |-> {f},
                  tally |-> tally_counter[f]]
    /\ UNCHANGED << main, timerVars, lock, tempVars, flowVars, fileVars, kills, historyVars >>

\* Mutant: what the counter is now is remembered.
PassedNow(f) == tally_counter[f]

\* What _prev_tally becomes.
Passed(f) == update.tally

\* The rest of _count_passed().
CountPassed(f) ==
    /\ update.step = "count"
    /\ f \in update.reading
    /\ flow' = [flow EXCEPT ![f] = update.tally - prev_tally[f]]
    /\ prev_tally' = [prev_tally EXCEPT ![f] = Passed(f)]
    /\ update' = [NoUpdate EXCEPT !.step = "flow", !.toRead = update.toRead]
    /\ UNCHANGED << main, timerVars, lock, tempVars, tally_counter, fileVars, kills,
                    historyVars >>

\* The names that have readings.
Read == {n \in DOMAIN temp_results : temp_results[n] > 0}

\* self._temp_results.clear(), for the name n
Cleared(n) == [m \in {} |-> 0]

\* The second part of collect() when there are readings: the dictionary is
\* emptied inside the loop over it, which raises a RuntimeError.  The exception
\* leaves _do_update() and ends the timer's thread.
CollectRaises(t) ==
    /\ lock = t
    /\ update.step = "flow" /\ update.toRead = {}
    /\ \E n \in Read : temp_results' = Cleared(n)
    /\ lost' = [f \in Flow |-> lost[f] + flow[f]]
    /\ flow' = Zero
    /\ lock' = "nobody"
    /\ update' = NoUpdate
    /\ timers' = [timers EXCEPT ![t] = "free"]
    /\ UNCHANGED << main, is_running, monitor, tally_counter, prev_tally, fileVars, kills,
                    published >>

\* collect() returns, _data gets the result, and _save_file() is called.
Publish ==
    /\ update.step = "flow" /\ update.toRead = {}
    /\ Read = {}
    /\ published' = [f \in Flow |-> published[f] + flow[f]]
    /\ flow' = Zero
    /\ save' = [file |-> "temp_file", step |-> "open"]
    /\ update' = [NoUpdate EXCEPT !.step = "save"]
    /\ UNCHANGED << main, timerVars, lock, tempVars, tally_counter, prev_tally, files, tmp_files,
                    kills, lost >>

\* The hour of _pers_interval is over.
SavePersistent ==
    /\ update.step = "save"
    /\ save = [file |-> "temp_file", step |-> "done"]
    /\ save' = [file |-> "pers_file", step |-> "open"]
    /\ UNCHANGED << main, timerVars, lock, update, tempVars, flowVars, files, tmp_files,
                    kills, historyVars >>

UpdateEnds(t) ==
    /\ lock = t
    /\ update.step = "save"
    /\ save.step = "done"
    /\ lock' = "nobody"
    /\ update' = NoUpdate
    /\ save' = NotSaving
    /\ timers' = [timers EXCEPT ![t] = "free"]
    /\ UNCHANGED << main, is_running, tempVars, flowVars, files, tmp_files, kills,
                    historyVars >>

-----------------------------------------------------------------------------
\* The process is killed: what it had in memory is gone, and the temporary
\* directory may be lost, too.
Kill ==
    /\ main # "dead"
    /\ kills < MaxKills
    /\ kills' = kills + 1
    /\ main' = "dead"
    /\ is_running' = FALSE
    /\ timers' = [t \in Timer |-> "free"]
    /\ lock' = "nobody"
    /\ update' = NoUpdate
    /\ monitor' = "none"
    /\ temp_results' = [n \in Temp |-> 0]
    /\ tally_counter' = Zero
    /\ prev_tally' = Zero
    /\ flow' = Zero
    /\ save' = NotSaving
    /\ published' = Zero
    /\ lost' = Zero
    /\ \/ UNCHANGED << files, tmp_files >>
       \/ /\ files' = [files EXCEPT !["temp_file"] = "absent"]
          /\ tmp_files' = [tmp_files EXCEPT !["temp_file"] = "absent"]

Restart ==
    /\ main = "dead"
    /\ main' = "load"
    /\ UNCHANGED << timerVars, lock, update, tempVars, flowVars, fileVars, kills,
                    historyVars >>

SaveStep == OpenTmp \/ Dump \/ Rename

MainThread ==
    \/ Load
    \/ CreateTimer
    \/ CreateMonitor
    \/ StartMonitor
    \/ StartTimer
    \/ TimerStarted
    \/ SetTime

UpdateStep ==
    \/ \E f \in Flow : ReadTally(f) \/ CountPassed(f)
    \/ \E t \in Timer : CollectRaises(t) \/ UpdateEnds(t)
    \/ Publish

TimerThread(t) ==
    \/ RunResets(t)
    \/ RunStarts(t)
    \/ RunStarted(t)
    \/ UpdateTooEarly(t)
    \/ UpdateBegins(t)

Next ==
    \/ SaveStep
    \/ SaveFails
    \/ MainThread
    \/ Serve
    \/ UpdateStep
    \/ SavePersistent
    \/ \E t \in Timer : Expire(t) \/ TimerThread(t)
    \/ \E f \in Flow : Callback(f)
    \/ \E n \in Temp : AppendReading(n)
    \/ ReadRaises
    \/ Kill
    \/ Restart

Spec == Init /\ [][Next]_vars

\* Every thread that can go on does, the intervals end, and a thread that waits
\* for the lock gets it in the end.
FairSpec ==
    /\ Spec
    /\ WF_vars(SaveStep)
    /\ WF_vars(MainThread)
    /\ WF_vars(UpdateStep)
    /\ \A t \in Timer : WF_vars(Expire(t)) /\ WF_vars(TimerThread(t)) /\ SF_vars(UpdateBegins(t))

-----------------------------------------------------------------------------
(***************************************************************************)
(* Properties                                                              *)
(***************************************************************************)

TypeOK ==
    /\ main \in {"load", "first_save", "create_monitor", "start", "start_timer",
                 "timer_started", "set_time", "serve", "dead"}
    /\ timers \in [Timer -> {"free", "armed", "expired", "restart", "restarted", "function",
                             "update"}]
    /\ lock \in {"nobody", "main"} \cup Timer
    /\ monitor \in {"none", "idle", "ended"}
    /\ files \in [File -> Content]
    /\ tmp_files \in [File -> Content]

\* Whoever reads one of the files finds what one update has published, or the
\* data of the start: never a part of it, also when the process was killed in the
\* middle of _save_file() and when writing fails.
FilesWhole == \A f \in File : files[f] # "cut"

\* Every pulse goes into one update, although the callbacks count on while
\* _count_passed() runs and updates may wait for each other.
PulsesAccounted ==
    \A f \in Flow :
       /\ published[f] + lost[f] + flow[f] = prev_tally[f]
       /\ prev_tally[f] <= tally_counter[f]

\* The timer goes on for ever: however updates fail, and whatever happens between
\* start() of the main thread and the timer's own, a pulse is collected.
PulsesCollected ==
    \A f \in Flow : \A n \in 1 .. MaxPulses :
       tally_counter[f] >= n ~> prev_tally[f] >= n \/ main = "dead"
=============================================================================
