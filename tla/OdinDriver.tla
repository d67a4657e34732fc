----------------------------- MODULE OdinDriver -----------------------------
(***************************************************************************)
(* The driver of the Odin sensor, host_sdk_sample.cpp: the SDK's thread    *)
(* that reports the device coming and going, the SDK's thread that brings  *)
(* data, the thread that publishes IMU samples, and the main thread, which *)
(* reads /tmp/odin_command.txt and in which the handler of SIGINT runs.    *)
(* The queue of IMU samples has a mutex and a condition variable; the flag *)
(* g_imu_thread_running is changed without the mutex.                      *)
(***************************************************************************)
EXTENDS Integers, Sequences

CONSTANTS IMU_QUEUE_MAX_SIZE,
          MaxSessions,          \* bound: how often the device is plugged in
          MaxKills              \* bound: how often the program is killed and started again

VARIABLES
    plugged,    \* the device is there
    connected,  \* deviceConnected; from the first attach on deviceDisconnected is its complement
    sendimu,    \* g_sendimu, of the configuration
    running,    \* g_imu_thread_running
    queue,      \* g_imu_queue: samples, each as the session it was measured in
    mutex,      \* the thread that holds g_imu_queue_mutex across steps, or "free"
    dev, imu, data, main,           \* where the four threads are
    sample,     \* what the data callback holds, and what the IMU thread does
    sessions, kills,                \* how much of the two bounds is used
    file, line, \* the command file and the line that was read: "none", "empty" or a command:
                \* "reset", "old" (a reset, and another was asked for since) or "other"
    open,       \* what each writer has open: "no", the "file", or a file that was "removed"
    asked       \* history: the last reset the bridge asked for, "none", "pending", "done" or "twice"

threads == <<running, queue, mutex, dev, imu, data, sample>>
device == <<plugged, connected, sessions>>
commands == <<file, line, open, asked>>
drivervars == <<threads, device, sendimu, main, kills, commands>>

Writers == {"bridge", "operator"}
NoSample == [data |-> 0, imu |-> 0]
Quitting == {"sig_flag", "sig_notify", "sig_join"}
Serving == main \in {"loop", "read", "removed"}

DriverInit ==
    /\ plugged = FALSE /\ connected = FALSE /\ sendimu \in BOOLEAN
    /\ running = FALSE /\ queue = <<>> /\ mutex = "free"
    /\ dev = "idle" /\ imu = "none" /\ data = "idle" /\ main = "loop"
    /\ sample = NoSample /\ sessions = 0 /\ kills = 0
    /\ file = "none" /\ line = "none"
    /\ open = [w \in Writers |-> "no"] /\ asked = "none"

(* Whoever waits on the condition variable has to get the mutex again. *)
Notified == IF imu = "waiting" THEN "woken" ELSE imu

-----------------------------------------------------------------------------
(* The thread that calls lidar_device_callback.                            *)

Plugged ==
    /\ ~plugged /\ dev = "idle" /\ sessions < MaxSessions
    /\ plugged' = TRUE /\ sessions' = sessions + 1
    /\ UNCHANGED <<threads, connected, sendimu, main, kills, commands>>

(* every call before the last may fail, and the callback returns *)
Attach ==
    /\ plugged /\ ~connected /\ dev = "idle"
    /\ connected' = TRUE /\ dev' = "start"
    /\ UNCHANGED <<plugged, sessions, running, queue, mutex, imu, data, sample>>
    /\ UNCHANGED <<sendimu, main, kills, commands>>

start_imu_thread ==
    /\ dev = "start" /\ dev' = "idle"
    /\ ~running                            \* it was stopped when the device had gone
    /\ imu \in {"none", "ended"}           \* the last one is joined before
    /\ running' = TRUE /\ imu' = "top"
    /\ UNCHANGED <<queue, mutex, data, sample, device, sendimu, main, kills, commands>>

Detach ==
    /\ plugged /\ dev = "idle"
    /\ plugged' = FALSE /\ connected' = FALSE
    /\ dev' = IF ~connected THEN "idle" ELSE IF running THEN "stop" ELSE "clear"
    /\ UNCHANGED <<sessions, running, queue, mutex, imu, data, sample>>
    /\ UNCHANGED <<sendimu, main, kills, commands>>

(* stop_imu_thread, called when the device has gone and by the handler of SIGINT *)
StopFlag ==
    /\ running' = FALSE
    /\ UNCHANGED <<queue, mutex, imu, data, sample>>
StopNotify ==
    /\ imu' = Notified
    /\ UNCHANGED <<running, queue, mutex, data, sample>>
StopJoin ==
    /\ imu \in {"none", "ended"} /\ mutex = "free"
    /\ imu' = "none" /\ queue' = <<>>
    /\ UNCHANGED <<running, mutex, data, sample>>

DeviceStops ==
    /\ \/ dev = "stop" /\ dev' = "notify" /\ StopFlag
       \/ dev = "notify" /\ dev' = "join" /\ StopNotify
       \/ dev = "join" /\ dev' = "clear" /\ StopJoin
    /\ UNCHANGED <<device, sendimu, main, kills, commands>>

clear_all_queues ==
    /\ dev = "clear" /\ mutex = "free"
    /\ queue' = <<>> /\ dev' = "idle"
    /\ UNCHANGED <<running, mutex, imu, data, sample, device, sendimu, main, kills, commands>>

-----------------------------------------------------------------------------
(* The thread that calls lidar_data_callback, with a sample of the IMU.     *)

DataArrives ==
    /\ plugged /\ data = "idle" /\ connected /\ sendimu
    /\ data' = "passed" /\ sample' = [sample EXCEPT !.data = sessions]
    /\ UNCHANGED <<running, queue, mutex, dev, imu, device, sendimu, main, kills, commands>>

DataPushed ==
    /\ data = "passed" /\ mutex = "free"
    /\ queue' = Append(IF Len(queue) >= IMU_QUEUE_MAX_SIZE THEN Tail(queue) ELSE queue,
                       sample.data)
    /\ data' = "pushed" /\ sample' = [sample EXCEPT !.data = 0]
    /\ UNCHANGED <<running, mutex, dev, imu, device, sendimu, main, kills, commands>>

\* a mutant: the thread is not woken
DataNotNotified ==
    /\ data = "pushed" /\ data' = "idle"
    /\ UNCHANGED <<running, queue, mutex, dev, imu, sample, device, sendimu, main, kills, commands>>

DataNotified ==
    /\ data = "pushed" /\ data' = "idle" /\ imu' = Notified
    /\ UNCHANGED <<running, queue, mutex, dev, sample, device, sendimu, main, kills, commands>>

lidar_data_callback == DataArrives \/ DataPushed \/ DataNotified

-----------------------------------------------------------------------------
(* imu_thread_routine.  "checked": the predicate was false, and the thread  *)
(* is about to sleep, with the mutex; "waiting": it sleeps, without it.     *)

ImuLoops ==
    /\ imu = "top"
    /\ \/ ~running /\ imu' = "ended" /\ UNCHANGED mutex
       \/ running /\ mutex = "free" /\ mutex' = "imu" /\ imu' = "locked"
    /\ UNCHANGED <<queue, sample>>

ImuWoken ==
    /\ imu = "woken" /\ mutex = "free" /\ mutex' = "imu" /\ imu' = "locked"
    /\ UNCHANGED <<queue, sample>>

ImuSleeps ==
    /\ \/ imu = "locked" /\ queue = <<>> /\ running /\ imu' = "checked" /\ UNCHANGED mutex
       \/ imu = "checked" /\ imu' = "waiting" /\ mutex' = "free"
    /\ UNCHANGED <<queue, sample>>

ImuEnds ==
    /\ imu = "locked" /\ ~running /\ imu' = "ended" /\ mutex' = "free"
    /\ UNCHANGED <<queue, sample>>

ImuTakes ==
    /\ imu \in {"locked", "published"} /\ queue # <<>> /\ running
    /\ imu = "published" => mutex = "free"
    /\ sample' = [sample EXCEPT !.imu = Head(queue)] /\ queue' = Tail(queue)
    /\ imu' = "publish" /\ mutex' = "free"

publishImu ==
    /\ imu = "publish" /\ imu' = "published"
    /\ sample' = [sample EXCEPT !.imu = 0] /\ UNCHANGED <<queue, mutex>>

ImuBack ==
    /\ imu = "published" /\ mutex = "free" /\ (queue = <<>> \/ ~running)
    /\ imu' = "top" /\ UNCHANGED <<queue, mutex, sample>>

imu_thread_routine ==
    /\ ImuLoops \/ ImuWoken \/ ImuSleeps \/ ImuEnds \/ ImuTakes \/ publishImu \/ ImuBack
    /\ UNCHANGED <<running, dev, data, device, sendimu, main, kills, commands>>

-----------------------------------------------------------------------------
(* The command file.  The shell's `>` and std::ofstream open and empty it,  *)
(* then write, in two steps; what is written to a file that was removed in  *)
(* between is never read.                                                   *)

Truncates(w) ==
    /\ open[w] = "no" /\ open' = [open EXCEPT ![w] = "file"]
    /\ file' = "empty"
    /\ asked' = IF w = "bridge" THEN "pending" ELSE asked
    /\ line' = IF w = "bridge" /\ line = "reset" THEN "old" ELSE line

\* a mutant: the stream is not closed, and what it was given stays in its buffer
WritesNothing(w, command) == open[w] # "no" /\ UNCHANGED <<file, line, open, asked>>

Writes(w, command) ==
    /\ open[w] # "no" /\ open' = [open EXCEPT ![w] = "no"]
    /\ file' = IF open[w] = "file" THEN command ELSE file
    /\ UNCHANGED <<line, asked>>

(* set_param.sh, with any other parameter *)
set_param ==
    /\ Truncates("operator") \/ Writes("operator", "other")
    /\ UNCHANGED <<threads, device, sendimu, main, kills>>

(* The main thread: process_command_file, ten times a second. *)
\* a mutant: whether a line could be read is not looked at
ReadEmpty ==
    /\ main = "loop" /\ connected /\ file # "none"
    /\ line' = file /\ main' = "read"
    /\ UNCHANGED <<file, open, asked>>

ReadLine ==
    /\ main = "loop" /\ connected /\ file \notin {"none", "empty"}
    /\ line' = file /\ main' = "read"
    /\ UNCHANGED <<file, open, asked>>

(* whatever the file holds by now: a request that nobody has read goes with it, *)
(* and what was read stands for it when it is a reset too                       *)
RemoveFile ==
    /\ main = "read" /\ main' = "removed" /\ file' = "none"
    /\ open' = [w \in Writers |-> IF open[w] = "no" THEN "no" ELSE "removed"]
    /\ line' = IF line = "old" THEN "reset" ELSE line
    /\ UNCHANGED asked

(* a device that has gone leaves it at a warning, and the command is lost *)
Execute ==
    /\ main = "removed" /\ main' = "loop" /\ line' = "none"
    /\ asked' = IF line # "reset" \/ ~connected THEN asked
                ELSE IF asked = "done" THEN "twice" ELSE "done"
    /\ UNCHANGED <<file, open>>

process_command_file ==
    /\ ReadLine \/ RemoveFile \/ Execute
    /\ UNCHANGED <<threads, device, sendimu, kills>>

-----------------------------------------------------------------------------
(* The end of the program.                                                  *)

(* SIGINT interrupts the main thread wherever it is; what it has read goes with it *)
Interrupted ==
    /\ Serving /\ main' = "sig_flag"
    /\ line' = "none"
    /\ UNCHANGED <<threads, device, sendimu, kills, file, open, asked>>

(* stop_imu_thread, then exit *)
signal_handler ==
    /\ \/ main = "sig_flag" /\ ~running /\ main' = "exited" /\ UNCHANGED threads
       \/ main = "sig_flag" /\ running /\ main' = "sig_notify" /\ StopFlag /\ UNCHANGED dev
       \/ main = "sig_notify" /\ main' = "sig_join" /\ StopNotify /\ UNCHANGED dev
       \/ main = "sig_join" /\ main' = "exited" /\ StopJoin /\ UNCHANGED dev
    /\ UNCHANGED <<device, sendimu, kills, commands>>

(* the supervisor kills the program, or finds it ended, and starts it again *)
Restarted ==
    /\ kills < MaxKills /\ kills' = kills + 1
    /\ connected' = FALSE /\ UNCHANGED <<plugged, sessions>>
    /\ running' = FALSE /\ queue' = <<>> /\ mutex' = "free"
    /\ dev' = "idle" /\ imu' = "none" /\ data' = "idle" /\ main' = "loop"
    /\ sample' = NoSample /\ line' = "none"
    /\ UNCHANGED <<sendimu, file, open, asked>>

Threads == Attach \/ start_imu_thread \/ DeviceStops \/ clear_all_queues
           \/ lidar_data_callback \/ imu_thread_routine \/ process_command_file \/ signal_handler

DriverNext ==
    \/ main # "exited" /\ (Threads \/ Detach \/ Interrupted)
    \/ Plugged \/ Restarted \/ set_param

(* Every thread goes on, and while the device is there it measures.  The main *)
(* loop polls often enough not to meet an empty file each time.               *)
DriverFairness ==
    /\ WF_drivervars(main # "exited" /\ (start_imu_thread \/ DeviceStops \/ clear_all_queues))
    /\ WF_drivervars(main # "exited" /\ lidar_data_callback)
    /\ WF_drivervars(main # "exited" /\ imu_thread_routine)
    /\ WF_drivervars(process_command_file \/ signal_handler)
    /\ SF_drivervars(ReadLine /\ process_command_file)

-----------------------------------------------------------------------------
(* A sample in the queue of a connected driver is published: neither the mutex *)
(* nor a wake-up that came before the thread slept keeps it there.             *)
SamplesPublished ==
    queue # <<>> /\ running ~> imu = "publish" \/ ~connected \/ ~Serving

(* The program that is told to end does, if only because the next sample wakes *)
(* the thread the handler waits for; without samples nothing does.             *)
QuitHonoured == main = "sig_flag" /\ sendimu ~> main \notin Quitting \/ ~connected

(* Both: what the threads of the driver owe to those who wait for them. *)
DriverServes == SamplesPublished /\ QuitHonoured

(* The device may be unplugged and plugged in again: its callback returns. *)
UnplugEnds == dev = "join" ~> dev # "join" \/ ~Serving
=============================================================================
