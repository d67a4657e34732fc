------------------------- MODULE AcflyOdometryProofs -------------------------
(***************************************************************************)
(* Proofs about the resets that the odometry bridge asks the driver for    *)
(* through the command file, for every number of sessions, kills and steps *)
(* of the clock and without the bounds of the checked instance.            *)
(***************************************************************************)
EXTENDS AcflyOdometry, TLAPS

\* What the files can be, and what was read from one: only a driver that has
\* removed the file works on something that is in no file.
Files ==
    /\ file \in {"none", "empty", "reset", "other"}
    /\ open \in [Writers -> {"no", "file", "removed"}]
    /\ main = "read" => file # "none" /\ line \in {"reset", "old", "other"}
    /\ line \in {"reset", "old"} => main \in {"read", "removed"}

\* Once a reset is done no other is under way, and a driver that has removed a
\* reset is going to carry out the only one there is.
OneRequest ==
    /\ asked \in {"none", "pending", "done"}
    /\ asked = "done" => ~InFile /\ line \notin {"reset", "old"}
    /\ main = "removed" /\ line = "reset" => ~InFile

IInv == Files /\ OneRequest

\* What a step is to preserve, and what it is to show.
Good == IInv' /\ LeavesFor(CarriedOut \/ Overwritten \/ DiesWithIt \/ NoDevice)

\* What the command file and what was read from it depend on.
commandfile == <<file, line, open, asked, main>>

LEMMA StutterGood == IInv /\ UNCHANGED commandfile => Good
  BY DEF Good, IInv, Files, OneRequest, InFile, Held, LeavesFor, commandfile

\* A writer opens and empties the file: an operator may take a request with that.
LEMMA TruncatesGood ==
    ASSUME IInv, UNCHANGED main, NEW w \in Writers, Truncates(w)
    PROVE  Good
<1>1. Files'
  BY DEF IInv, Files, Truncates
<1>2. CASE w = "bridge"
  <2>1. open'["bridge"] = "file" /\ asked' = "pending" /\ line' # "reset"
    BY <1>2 DEF IInv, Files, Truncates, Writers
  <2> QED
    BY <1>1, <2>1 DEF Good, IInv, OneRequest, InFile, Held, LeavesFor
<1>3. CASE w = "operator"
  <2>1. /\ file' = "empty" /\ open'["bridge"] = open["bridge"] /\ line' = line /\ asked' = asked
        /\ open'["operator"] # open["operator"]
    BY <1>3 DEF IInv, Files, Truncates, Writers
  <2>2. InFile' => InFile
    BY <2>1 DEF InFile
  <2>3. Overwritten
    BY <2>1 DEF Overwritten
  <2> QED
    BY <1>1, <2>1, <2>2, <2>3 DEF Good, IInv, OneRequest, LeavesFor
<1> QED
  BY <1>2, <1>3 DEF Writers

\* The bridge writes its reset, and operators whatever else.
LEMMA BridgeWritesGood ==
    ASSUME IInv, UNCHANGED main, Writes("bridge", "reset")
    PROVE  Good
<1>1. /\ open["bridge"] # "no" /\ open'["bridge"] = "no"
      /\ open' \in [Writers -> {"no", "file", "removed"}]
      /\ file' = IF open["bridge"] = "file" THEN "reset" ELSE file
      /\ asked' = asked /\ line' = line
  BY DEF IInv, Files, Writes, Writers
<1>2. InFile' <=> InFile
  BY <1>1 DEF InFile
<1> QED
  BY <1>1, <1>2 DEF Good, IInv, Files, OneRequest, Held, LeavesFor

LEMMA OperatorWritesGood ==
    ASSUME IInv, UNCHANGED main, Writes("operator", "other")
    PROVE  Good
<1>1. /\ open'["bridge"] = open["bridge"] /\ open' \in [Writers -> {"no", "file", "removed"}]
      /\ open'["operator"] # open["operator"]
      /\ file' \in {file, "other"} /\ line' = line /\ asked' = asked
  BY DEF IInv, Files, Writes, Writers
<1>2. InFile' => InFile
  BY <1>1 DEF InFile
<1>3. Overwritten
  BY <1>1 DEF Overwritten
<1> QED
  BY <1>1, <1>2, <1>3 DEF Good, IInv, Files, OneRequest, LeavesFor

\* The driver reads, removes and carries out.
LEMMA ProcessGood ==
    ASSUME IInv, process_command_file
    PROVE  Good
<1>1. CASE ReadLine
  <2>1. InFile' <=> InFile
    BY <1>1 DEF ReadLine, InFile
  <2>2. line \notin {"reset", "old"}
    BY <1>1 DEF ReadLine, IInv, Files
  <2>3. file = "reset" => asked # "done"
    BY DEF IInv, OneRequest, InFile
  <2> QED
    BY <1>1, <2>1, <2>2, <2>3 DEF ReadLine, Good, IInv, Files, OneRequest, Held, LeavesFor
<1>2. CASE RemoveFile
  <2>1. ~InFile' /\ Files'
    BY <1>2 DEF RemoveFile, IInv, Files, InFile, Writers
  <2>2. main = "read" /\ main' = "removed" /\ line \in {"reset", "old", "other"}
    BY <1>2 DEF RemoveFile, IInv, Files
  <2>3. asked' = asked /\ line' = (IF line = "old" THEN "reset" ELSE line)
    BY <1>2 DEF RemoveFile
  <2>4. ~Held' => Overwritten
    BY <2>2, <2>3 DEF Held, Overwritten
  <2> QED
    BY <2>1, <2>2, <2>3, <2>4 DEF Good, IInv, OneRequest, LeavesFor
<1>3. CASE Execute
  <2>1. InFile' <=> InFile
    BY <1>3 DEF Execute, InFile
  <2>2. Files'
    BY <1>3 DEF Execute, IInv, Files
  <2>3. OneRequest'
    BY <1>3, <2>1 DEF Execute, IInv, OneRequest
  <2>4. line = "reset" /\ asked = "pending" => CarriedOut \/ NoDevice
    BY <1>3 DEF Execute, CarriedOut, NoDevice
  <2>5. line # "reset" /\ Held => Held'
    BY <1>3, <2>1 DEF Execute, Held
  <2> QED
    BY <2>2, <2>3, <2>4, <2>5 DEF Good, IInv, LeavesFor
<1> QED
  BY <1>1, <1>2, <1>3 DEF process_command_file

LEMMA InitIInv == DriverInit => IInv
  BY DEF DriverInit, IInv, Files, OneRequest, InFile, Writers

\* The driver is interrupted or started again, between any two of these steps:
\* what the file holds stays, and what it had only read is lost.
LEMMA DiesGood ==
    ASSUME IInv, Interrupted \/ Restarted, kills \in Nat
    PROVE  Good
<1>1. UNCHANGED <<file, open, asked>> /\ line' = "none" /\ main' \notin {"read", "removed"}
  BY DEF Interrupted, Restarted
<1>2. InFile' <=> InFile
  BY <1>1 DEF InFile
<1>3. kills' # kills \/ (Serving /\ main' = "sig_flag")
  BY DEF Interrupted, Restarted
<1>4. Held /\ ~InFile => main = "removed" \/ file \in {"empty", "other"}
  BY DEF IInv, Files, InFile, Held
<1> QED
  BY <1>1, <1>2, <1>3, <1>4 DEF Good, IInv, Files, OneRequest, Held, LeavesFor, DiesWithIt

LEMMA DriverGood ==
    ASSUME IInv, DriverNext, kills \in Nat
    PROVE  Good
<1>1. CASE process_command_file
  BY <1>1, ProcessGood
<1>2. CASE signal_handler
  <2>1. UNCHANGED commands /\ main \notin {"read", "removed"} /\ main' \notin {"read", "removed"}
    BY <1>2 DEF signal_handler
  <2>2. InFile' <=> InFile
    BY <2>1 DEF commands, InFile
  <2> QED
    BY <2>1, <2>2 DEF commands, Good, IInv, Files, OneRequest, Held, LeavesFor
<1>3. CASE Interrupted \/ Restarted
  BY <1>3, DiesGood
<1>4. CASE set_param
  BY <1>4, TruncatesGood, OperatorWritesGood DEF set_param, Writers
<1>5. CASE \/ Attach \/ start_imu_thread \/ DeviceStops \/ clear_all_queues
           \/ lidar_data_callback \/ imu_thread_routine \/ Detach \/ Plugged
  <2>1. UNCHANGED commandfile
    BY <1>5 DEF Attach, start_imu_thread, DeviceStops, clear_all_queues, lidar_data_callback,
                DataArrives, DataPushed, DataNotified, imu_thread_routine, Detach, Plugged,
                commands, commandfile
  <2> QED BY <2>1, StutterGood
<1> QED
  BY <1>1, <1>2, <1>3, <1>4, <1>5 DEF DriverNext, Threads

LEMMA NextGood ==
    ASSUME IInv, kills \in Nat, [BridgeNext]_<<drivervars, bridgevars>>
    PROVE  Good
<1>1. CASE timer_cb
  <2>1. CASE UNCHANGED drivervars
    BY <2>1, StutterGood DEF drivervars, commands, commandfile
  <2>2. CASE Truncates("bridge") /\ UNCHANGED main
    BY <2>2, TruncatesGood DEF Writers
  <2>3. CASE Writes("bridge", "reset") /\ UNCHANGED main
    BY <2>3, BridgeWritesGood
  <2> QED BY <1>1, <2>1, <2>2, <2>3 DEF timer_cb
<1>2. CASE DriverNext
  BY <1>2, DriverGood
<1>3. CASE UNCHANGED drivervars
  BY <1>3, StutterGood DEF drivervars, commands, commandfile
<1> QED
  BY <1>1, <1>2, <1>3 DEF BridgeNext, OpenFails

\* A kill is one that is counted.
LEMMA KillsNext ==
    ASSUME kills \in Nat, [BridgeNext]_<<drivervars, bridgevars>>
    PROVE  kills' \in Nat
<1>1. kills' = kills \/ kills' = kills + 1
  BY DEF BridgeNext, timer_cb, OpenFails, DriverNext, Threads, Attach, start_imu_thread,
         DeviceStops, clear_all_queues, lidar_data_callback, DataArrives, DataPushed,
         DataNotified, imu_thread_routine, process_command_file, signal_handler, Detach,
         Interrupted, Plugged, Restarted, set_param, drivervars
<1> QED
  BY <1>1

\* A reset that the bridge asked for is carried out at most once, and while it is
\* not it stays in the file or the driver's hands: it leaves them only when it is
\* carried out, with an operator's command, with a driver that dies having removed
\* or lost the file it read, or because there is no device.  For every number of
\* operators' commands, unplugged devices and killed drivers between the steps of
\* timer_cb and process_command_file.
THEOREM RequestKeptAlways == BridgeSpec => RequestKept
<1> DEFINE Inv == IInv /\ kills \in Nat
           Kept == /\ asked' # "twice"
                   /\ LeavesFor(CarriedOut \/ Overwritten \/ DiesWithIt \/ NoDevice)
<1>1. DriverInit => Inv
  BY InitIInv DEF DriverInit
<1>2. Inv /\ [BridgeNext]_<<drivervars, bridgevars>> => Inv' /\ Kept
  BY NextGood, KillsNext DEF Good, IInv, OneRequest
<1>3. Inv /\ [BridgeNext]_<<drivervars, bridgevars>> => [Kept]_<<drivervars, bridgevars>>
  BY <1>2
<1> HIDE DEF Inv, Kept
<1>4. BridgeSpec => [][Kept]_<<drivervars, bridgevars>>
  BY <1>1, <1>2, <1>3, PTL DEF BridgeSpec
<1> QED
  BY <1>4 DEF Kept, RequestKept
=============================================================================
