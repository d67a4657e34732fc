------------------------------- MODULE MavFtp -------------------------------
(* The MAVLink file transfer client of pymavlink (mavftp.py), with the link    *)
(* and the server of a vehicle as its environment.  The client has one thread; *)
(* `c` holds the members of class MAVFTP and the position of that thread.  A   *)
(* handler is a function from the members to the members, so that one          *)
(* iteration of process_ftp_reply (a packet or none, then __idle_task) is one  *)
(* action.  Files are sets of offsets: every byte a server sends is right, what *)
(* can go wrong is which bytes of which file arrive.                           *)
EXTENDS Integers, Sequences, FiniteSets, SequencesExt

CONSTANTS
    Size,               \* remote file -> its length in bytes
    Local,              \* sizes of the local files a caller puts
    Directory,          \* the names of the directory a caller lists, in order
    ReadOffsets,        \* offsets a caller reads from with read()
    Commands,           \* the calls a caller makes
    burst_read_size, write_size, write_qsize,   \* settings of the same names
    MaxPayload,         \* MAX_Payload of the protocol
    ServerBurst,        \* packets per burst of the server
    RetryTime, ReadRetryTime, IdleTime,         \* retry_time etc. in ticks
    MaxCalls, MaxLoss, MaxLate,                \* bounds of the checked instance
    Careful             \* whether a caller cancels what an earlier call left open

(* A tick is the time after which a read is asked for again; __idle_task asserts that a call is *)
(* not taken for idle before its file is asked for again; sessions do not begin anew.           *)
FtpAssumption ==
    /\ \A f \in DOMAIN Size : Size[f] \in Nat
    /\ Local \subseteq Nat /\ ReadOffsets \subseteq Nat /\ Directory \in Seq(ToSet(Directory))
    /\ {burst_read_size, write_size, write_qsize, MaxPayload, ServerBurst, IdleTime} \subseteq Nat \ {0}
    /\ RetryTime = 1 /\ ReadRetryTime \in 1 .. IdleTime
    /\ MaxCalls \in 0 .. 63 /\ MaxLoss \in Nat /\ MaxLate \in Nat

VARIABLES
    c,                  \* the client
    server,             \* the vehicle's server: its open session, the blocks of the file "copy" ({-1}: no such file)
    up, down,           \* packets on their way to the server and to the client
    budget              \* losses and calls that are left

ftpvars == <<c, server, up, down, budget>>

None == "None"
Files == DOMAIN Size

(* ---------------------------- the client's members ------------------------ *)
Op(opcode, session, offset, size, file) ==
    [opcode |-> opcode, session |-> session, offset |-> offset, size |-> size, file |-> file]

NoOp == Op(None, 0, 0, 0, None)
NotOpen == [tell |-> -1, data |-> <<>>]

(* ages are in ticks, -1 where the code has None; a gap's time is 0 until it is asked for *)
Fresh ==
    [session |-> 0, last_op |-> NoOp, fh |-> NotOpen, filename |-> None, callback |-> FALSE,
     put_callback |-> FALSE, read_gaps |-> <<>>, read_gap_times |-> <<>>, too_fast |-> FALSE,
     read_total |-> 0, requested_offset |-> 0, requested_size |-> 0, reached_eof |-> FALSE,
     backlog |-> 0, burst_size |-> burst_read_size, last_burst_read |-> -1, op_start |-> -1,
     last_send |-> 0, open_retries |-> 0, write_list |-> {-1}, write_total |-> 0, write_idx |-> 0,
     write_recv_idx |-> -1, write_pending |-> 0, write_last_send |-> -1, write_file_size |-> 0,
     dir_offset |-> 0, list_temp_result |-> <<>>, list_result |-> <<>>, done |-> FALSE, quiet |-> 0,
     pc |-> "ready", call |-> None, ret |-> "Fail", told |-> <<>>, out |-> <<>>]

FtpError == <<"Fail", "FailErrno", "InvalidDataSize", "InvalidSession", "NoSessionsAvailable",
              "EndOfFile", "UnknownCommand", "FileExists", "FileProtected", "FileNotFound">>

(* what the error codes in the payload of a Nack mean *)
Decoded(payload) ==
    CASE payload = <<>> -> "NoErrorCodeInPayload"
      [] payload = <<0>> -> "NoErrorCodeInNack"
      [] payload = <<2>> -> "NoFilesystemErrorInPayload"
      [] Len(payload) = 1 /\ payload[1] \notin {0, 2} ->
            IF payload[1] \in DOMAIN FtpError THEN FtpError[payload[1]] ELSE "InvalidErrorCode"
      [] Len(payload) = 2 /\ payload[1] = 2 -> "FailErrno"
      [] OTHER -> "PayloadTooLarge"

__decode_ftp_ack_and_nack(r) == IF r.ack THEN "Success" ELSE Decoded(r.payload)

EndOfFile == <<6>>

NoWrites == {-1}                    \* write_list is None
Open(m) == m.fh # NotOpen

__send(m, op) == [m EXCEPT !.out = Append(@, op), !.last_op = op, !.last_send = 0]

(* what a caller is told about a transfer: its kind, the file and the bytes it got *)
Tell(m, kind, data) == [m EXCEPT !.told = <<kind, m.call, m.filename, data>>]

(* the reply to TerminateSession is waited for until the link has been idle: see Terminated *)
__terminate_session(m) ==
    LET s == __send(m, Op("TerminateSession", m.session, 0, 0, None))
        t == IF m.callback \/ m.put_callback THEN Tell(s, "failed", <<>>) ELSE s IN
    [t EXCEPT !.fh = NotOpen, !.filename = None, !.write_list = NoWrites, !.callback = FALSE,
              !.put_callback = FALSE, !.read_gaps = <<>>, !.read_gap_times = <<>>, !.read_total = 0,
              !.last_burst_read = -1, !.reached_eof = FALSE, !.backlog = 0,
              !.pc = IF m.pc = "ready" THEN "cancelling" ELSE "terminating"]

(* ------------------------------- downloads -------------------------------- *)
Covered(m) ==
  [o \in 0..(m.requested_size - 1) |-> IF o \in DOMAIN m.fh.data THEN m.fh.data[o] ELSE None]
From(data, from) == [o \in {x \in DOMAIN data : x >= from} |-> data[o]]

FinishedAtEof(m) == m.reached_eof \/ m.read_total >= m.requested_size

ReadFinished(m) == m.read_gaps = <<>> /\ (m.reached_eof \/ m.read_total >= m.requested_size)

__check_read_finished(m) ==
    IF Open(m) /\ m.op_start # -1 /\ ReadFinished(m)
    THEN LET got == Tell(m, "got",
                         From(Covered(m), IF m.callback THEN 0 ELSE m.requested_offset)) IN
         __terminate_session([got EXCEPT !.callback = FALSE, !.done = ~m.callback])
    ELSE m

ReadEnded(m) == ~Open(m) \/ m.op_start = -1 \/ ReadFinished(m)      \* what __check_read_finished returns

Merged(new, old) ==
    [x \in DOMAIN new \union DOMAIN old |-> IF x \in DOMAIN new THEN new[x] ELSE old[x]]

__write_payload(m, r) ==
    [m EXCEPT !.fh = [tell |-> r.offset + r.len,
                      data |-> Merged([o \in r.offset..(r.offset + r.len - 1) |-> r.file], @.data)],
              !.read_total = @ + r.len]

__send_gap_read(m, g) ==
    LET s == __send(m, Op("ReadFile", m.session, g[1], g[2], None)) IN
    [s EXCEPT !.read_gaps = Append(RemoveFirst(@, g), g), !.read_gap_times[g] = 1,
              !.too_fast = TRUE, !.backlog = @ + 1]

(* until the end of the file is known, every gap is asked for once, as they were found *)
SendUnasked(m, g) == IF m.read_gap_times[g] = 0 THEN __send_gap_read(m, g) ELSE m

__check_read_send(m) ==
    IF m.read_gaps = <<>> THEN m
    ELSE IF ~m.reached_eof
    THEN FoldLeft(SendUnasked, m, m.read_gaps)
    ELSE LET g == m.read_gaps[1]
             late == m.read_gap_times[g] > RetryTime
             n == IF late THEN [m EXCEPT !.backlog = IF @ > 0 THEN @ - 1 ELSE 0,
                                !.read_gap_times[g] = 0]
                  ELSE m IN
         IF n.read_gap_times[g] = 0 /\ ~n.too_fast THEN __send_gap_read(n, g) ELSE n

(* a call starts: process_ftp_reply begins with the result "Fail" *)
Started(m, call) == [m EXCEPT !.call = call,
                    !.pc = "reply", !.ret = "Fail", !.told = <<>>, !.quiet = 0]

AskOpen(m, call, file, offset, size, cb) ==
    __send([Started(m, call) EXCEPT !.filename = file, !.op_start = 0,
                     !.callback = cb, !.reached_eof = FALSE, !.burst_size = burst_read_size,
                     !.open_retries = 0, !.requested_offset = offset, !.requested_size = size],
           Op("OpenFileRO", m.session, 0, 0, file))

cmd_get(m, file, cb) == AskOpen(m, "get", file, m.requested_offset, m.requested_size, cb)

read(m, file, offset, size) ==
    AskOpen([m EXCEPT !.read_total = 0, !.done = FALSE], "read", file, offset, size, m.callback)

__handle_open_ro_reply(m, r) ==
    IF ~r.ack THEN __terminate_session([m EXCEPT !.ret = __decode_ftp_ack_and_nack(r)])
    ELSE IF m.filename = None THEN [m EXCEPT !.ret = "FileNotFound"]
    ELSE __send([m EXCEPT !.fh = [tell |-> IF m.callback THEN 0 ELSE m.requested_offset,
                                  data |-> <<>>],
                          !.requested_size = r.len, !.last_burst_read = 0, !.ret = "Success"],
                Op("BurstReadFile", m.session, 0, m.burst_size, None))

(* the gap from tell to the packet is split into reads of at most a burst packet *)
GapsBetween(from, to, step) ==
    [i \in 1..((to - from + step - 1) \div step) |->
        LET o == from + (i - 1) * step IN <<o, IF to - o <= step THEN to - o ELSE step>>]

NewGaps(m, r) ==
    LET gs == GapsBetween(m.fh.tell, r.offset, m.burst_size) IN
    [m EXCEPT !.read_gaps = @ \o gs, !.read_gap_times = Merged([g \in ToSet(gs) |-> 0], @)]

FillGap(m, r, gap) ==
    LET n == [m EXCEPT !.read_gaps = RemoveFirst(@, gap),
                       !.read_gap_times = [g \in DOMAIN @ \ {gap} |-> @[g]]] IN
    [__write_payload(n, r) EXCEPT !.fh.tell = m.fh.tell]

Successful(m) == [m EXCEPT !.ret = "Success"]

EofReached(m) ==
    LET e == [m EXCEPT !.reached_eof = TRUE] IN
    IF ReadEnded(e) THEN __check_read_finished(Successful(e)) ELSE __check_read_send(e)

BurstContinues(m, r) ==
    IF ~r.complete THEN m
    ELSE IF r.len > 0 /\ r.len < m.burst_size THEN EofReached(Successful(m))
    ELSE __send(m, [m.last_op EXCEPT !.offset = r.offset + r.len])

(* a packet that neither ends the file nor the download counts as a failure *)
__handle_burst_read(m0, r) ==
    IF ~Open(m0) \/ m0.filename = None THEN [m0 EXCEPT !.ret = "Fail"]
    ELSE
    LET m == [m0 EXCEPT !.last_burst_read = 0, !.ret = "Fail",
                        !.burst_size = IF r.len > @ THEN MaxPayload ELSE @]
        gap == <<r.offset, r.len>> IN
    IF r.ack
    THEN IF r.offset < m.fh.tell
         THEN IF ~Contains(m.read_gaps, gap) THEN m                              \* a duplicate
              ELSE LET n == FillGap(m, r, gap) IN
                   IF ReadEnded(n) THEN __check_read_finished(Successful(n))
                   ELSE BurstContinues(n, r)
         ELSE BurstContinues(__write_payload(IF r.offset > m.fh.tell THEN NewGaps(m, r) ELSE m,
                                             r), r)
    ELSE IF r.payload[1] # 6 \/ (~m.reached_eof /\ r.offset > m.fh.tell)
    THEN m
    ELSE EofReached(m)

__handle_reply_read(m0, r) ==
    IF ~Open(m0) \/ m0.filename = None THEN [m0 EXCEPT !.ret = "Fail"]
    ELSE
    LET m == [m0 EXCEPT !.backlog = IF @ > 0 THEN @ - 1 ELSE 0, !.ret = "Success"]
        gap == <<r.offset, r.len>>
        n == IF ~r.ack THEN __terminate_session(m)
             ELSE IF Contains(m.read_gaps, gap) THEN __check_read_finished(FillGap(m, r, gap))
             ELSE IF r.len < m.burst_size THEN __terminate_session(m)   \* "file size changed"
             ELSE m IN
    IF Open(n) THEN __check_read_send(n) ELSE n

(* -------------------------------- uploads --------------------------------- *)
Blocks(size) == (size + write_size - 1) \div write_size

cmd_put(m, file, size) ==
    IF m.write_list # NoWrites THEN [m EXCEPT !.ret = "PutAlreadyInProgress"]
    ELSE __send([Started(m, "put") EXCEPT !.fh = [tell |-> 0, data |-> <<>>], !.filename = file,
                    !.write_file_size = size, !.write_list = 0..(Blocks(size) - 1),
                    !.write_total = Blocks(size), !.write_idx = 0, !.write_recv_idx = -1,
                    !.write_pending = 0,
                        !.write_last_send = -1, !.put_callback = TRUE, !.op_start = 0],
                Op("CreateFile", m.session, 0, 0, file))

__put_finished(m) == [Tell(m, "put", m.write_file_size) EXCEPT !.put_callback = FALSE]

(* round robin from write_idx over the blocks that are not acknowledged *)
NextBlock(m) ==
    CHOOSE i \in m.write_list : \A j \in m.write_list :
        (i - m.write_idx + m.write_total) % m.write_total <= (j - m.write_idx + m.write_total) % m.write_total

SendBlock(m, i) ==
    LET b == NextBlock(m)
        ofs == b * write_size
        len == IF m.write_file_size - ofs < write_size THEN m.write_file_size - ofs
               ELSE write_size IN
    [__send(m, Op("WriteFile", m.session, ofs, len, None)) EXCEPT
        !.write_idx = (b + 1) % m.write_total, !.write_pending = @ + 1, !.write_last_send = 0]

__send_more_writes(m) ==
    IF m.write_list = {} THEN __terminate_session(__put_finished(m))
    ELSE LET late == m.write_last_send >= 1         \* a block of replies seems to be lost
             n == [m EXCEPT !.write_pending = IF late /\ @ > 0 THEN @ - 1 ELSE @]
             room == write_qsize - n.write_pending
             left == Cardinality(n.write_list) IN
         FoldLeft(SendBlock, n, [i \in 1..(IF room < left THEN room ELSE left) |-> i])

__handle_create_file_reply(m, r) ==
    IF ~Open(m) THEN __terminate_session([m EXCEPT !.ret = "FileNotFound"])
    ELSE IF r.ack THEN __send_more_writes([m EXCEPT !.ret = "Success"])
    ELSE __terminate_session([m EXCEPT !.ret = __decode_ftp_ack_and_nack(r)])

__handle_write_reply(m, r) ==
    IF ~Open(m) THEN __terminate_session([m EXCEPT !.ret = "FileNotFound"])
    ELSE IF ~r.ack THEN __terminate_session([m EXCEPT !.ret = "FileProtected"])
    ELSE LET idx == r.offset \div write_size
             count == (idx - m.write_recv_idx) % m.write_total IN
         __send_more_writes([m EXCEPT !.write_pending = IF @ > count THEN @ - count ELSE 0,
                                      !.write_recv_idx = idx,
                                          !.write_list = @ \ {idx}, !.ret = "Success"])

(* ------------------------ listings and single requests -------------------- *)
cmd_list(m) ==
    __send([Started(m, "list") EXCEPT !.list_result = <<>>,
            !.list_temp_result = <<>>, !.dir_offset = 0],
           Op("ListDirectory", m.session, 0, 0, None))

__handle_list_reply(m, r) ==
    IF r.ack
    THEN [__send(m, [m.last_op EXCEPT !.offset = m.dir_offset + Len(r.names)]) EXCEPT
             !.dir_offset = @ + Len(r.names), !.list_temp_result = @ \o r.names, !.ret = "Success"]
    ELSE [m EXCEPT !.list_result = IF r.payload = EndOfFile THEN m.list_temp_result ELSE @,
          !.ret = "Success"]

Simple == {"RemoveFile", "RemoveDirectory",
           "Rename", "CreateDirectory", "CalcFileCRC32", "ResetSessions"}

(* cmd_rm, cmd_rmdir, cmd_rename, cmd_mkdir, cmd_crc and the reset of the constructor *)
cmd_simple(m, opcode) == __send(Started(m, opcode), Op(opcode, m.session, 0, 0, None))

(* ------------------------- the loop of process_ftp_reply ------------------ *)
Handled(m, r) ==
    CASE r.req = "ListDirectory" -> __handle_list_reply(m, r)
      [] r.req = "OpenFileRO" -> __handle_open_ro_reply(m, r)
      [] r.req = "BurstReadFile" -> __handle_burst_read(m, r)
      [] r.req = "ReadFile" -> __handle_reply_read(m, r)
      [] r.req = "CreateFile" -> __handle_create_file_reply(m, r)
      [] r.req = "WriteFile" -> __handle_write_reply(m, r)
      [] r.req = "TerminateSession" -> [m EXCEPT !.ret = "Success"]
      [] OTHER -> [m EXCEPT !.ret = __decode_ftp_ack_and_nack(r)]

__mavlink_packet(m, r) ==
    IF r.session # m.session THEN [m EXCEPT !.ret = "InvalidSession"] ELSE Handled(m, r)

RetryOpen(m) ==
    LET late == [m EXCEPT !.op_start = 0, !.open_retries = @ + 1]
        again == __send(late, Op("TerminateSession", m.session, 0, 0, None)) IN
    IF late.open_retries > 2 THEN __terminate_session([late EXCEPT !.op_start = -1])
    ELSE __send([again EXCEPT !.session = (@ + 1) % 256],
                [m.last_op EXCEPT !.session = (m.session + 1) % 256])

RetryBurstFromStart(m) ==
    IF ~m.reached_eof /\ m.last_burst_read >= RetryTime
    THEN __send([m EXCEPT !.last_burst_read = 0],
                Op("BurstReadFile", m.session, 0, m.burst_size, None))
    ELSE m

RetryBurst(m) ==
    IF ~m.reached_eof /\ m.last_burst_read >= RetryTime
    THEN __send([m EXCEPT !.last_burst_read = 0],
                Op("BurstReadFile", m.session, m.fh.tell, m.burst_size, None))
    ELSE m

NothingPending(m) == m.read_gaps = <<>> /\ m.last_burst_read = -1 /\ m.write_list = NoWrites

__idle_task(m0) ==
    LET m == IF m0.op_start >= ReadRetryTime /\
        m0.last_op.opcode = "OpenFileRO" THEN RetryOpen(m0) ELSE m0 IN
    IF m.pc # m0.pc \/ NothingPending(m) \/ ~Open(m) THEN m
    ELSE LET n == __check_read_send(RetryBurst(m)) IN
         IF n.write_list # NoWrites THEN __send_more_writes(n) ELSE n

(* one turn of the loop that waits for the end of a call; read() has a loop of its own that *)
(* ends when the file is there or when nothing has been heard for longer than IdleTime       *)
IsIdle(m) == m.last_send >= IdleTime

LoopEnds(m) == IF m.call = "read" THEN m.done \/ m.quiet > IdleTime ELSE IsIdle(m)

Turn(m) == LET n == __idle_task(m) IN
           IF n.pc = "reply" /\ LoopEnds(n) THEN [n EXCEPT !.pc = "ready"] ELSE n

Aged(age, cap) == IF age = -1 \/ age >= cap THEN age ELSE age + 1

Later(m) ==
    [m EXCEPT !.last_send = Aged(@, IdleTime), !.op_start = Aged(@, ReadRetryTime),
              !.last_burst_read = Aged(@, RetryTime), !.write_last_send = Aged(@, 1),
              !.quiet = Aged(@, IdleTime + 1), !.too_fast = FALSE,
              !.read_gap_times = [g \in DOMAIN @ |->
                  IF @[g] = 0 THEN 0 ELSE Aged(@[g], RetryTime + 1)]]

(* ------------------------- the link and the server ------------------------ *)
Reply(op, ack, len, payload) ==
    [req |-> op.opcode, ack |-> ack, session |-> op.session, offset |-> op.offset, len |-> len,
     complete |-> FALSE, file |-> None, names |-> <<>>, payload |-> payload]

NoSession == [session |-> -1, file |-> None, size |-> 0]

Left(from, size) == IF Size[server.open.file] - from < size THEN Size[server.open.file] - from
                    ELSE size

(* packets of one burst: up to ServerBurst full ones, ended by a short one or by a Nack at the end *)
BurstPacket(op, i) ==
    LET o == op.offset + (i - 1) * op.size
        n == Left(o, op.size)
        r == [Reply(op, n > 0, IF n > 0 THEN n ELSE 0,
                    IF n > 0 THEN <<>> ELSE EndOfFile) EXCEPT !.offset = o] IN
    [r EXCEPT !.complete = n < op.size \/ i = ServerBurst, !.file = server.open.file]

Burst(op) ==
    LET last == CHOOSE i \in 1..ServerBurst : /\ BurstPacket(op, i).complete
                                             /\ \A j \in 1..(i - 1) :
                                                  ~BurstPacket(op, j).complete IN
    [i \in 1..last |-> BurstPacket(op, i)]

Nack(op, code) == <<Reply(op, FALSE, 0, <<code>>)>>
Ack(op) == <<Reply(op, TRUE, 0, <<>>)>>
InSession(op) == server.open.session = op.session

Opens(op) ==
    IF server.open # NoSession THEN <<server, Nack(op, 5)>>
    ELSE IF op.opcode = "OpenFileRO" /\ op.file \notin Files THEN <<server, Nack(op, 10)>>
    ELSE <<[server EXCEPT !.open = [session |-> op.session, file |-> op.file, size |-> 0],
                          !.written = IF op.opcode = "CreateFile" THEN {} ELSE @],
           <<Reply(op, TRUE, IF op.opcode = "OpenFileRO" THEN Size[op.file] ELSE 0, <<>>)>> >>

Reads(op) ==
    IF op.opcode = "BurstReadFile" THEN Burst(op)
    ELSE IF Left(op.offset, op.size) <= 0 THEN Nack(op, 6)
    ELSE <<[Reply(op, TRUE, Left(op.offset, op.size), <<>>) EXCEPT !.file = server.open.file]>>

Listing(op) ==
    IF op.offset >= Len(Directory) THEN Nack(op, 6)
    ELSE <<[Ack(op)[1] EXCEPT !.names = <<Directory[op.offset + 1]>>]>>

(* one request: the server's next state and its replies *)
Served(op) ==
    CASE op.opcode \in {"OpenFileRO", "CreateFile"} -> Opens(op)
      [] op.opcode \in {"TerminateSession", "ResetSessions"} ->
          <<[server EXCEPT !.open = NoSession], Ack(op)>>
      [] op.opcode = "ListDirectory" -> <<server, Listing(op)>>
      [] op.opcode \in {"BurstReadFile", "ReadFile", "WriteFile"} /\
          ~InSession(op) -> <<server, Nack(op, 4)>>
      [] op.opcode \in {"BurstReadFile", "ReadFile"} /\ InSession(op) -> <<server, Reads(op)>>
      [] op.opcode = "WriteFile" /\ InSession(op) -> <<[server EXCEPT !.written = @ \union {op.offset}], Ack(op)>>
      [] OTHER -> <<server, Ack(op)>>

ServerStep ==
    /\ up # <<>>
    /\ LET s == Served(Head(up)) IN /\ server' = s[1] /\ down' = down \o s[2]
    /\ up' = Tail(up)
    /\ UNCHANGED <<c, budget>>

LosePacket ==
    /\ budget.loss > 0
    /\ budget' = [budget EXCEPT !.loss = @ - 1]
    /\ \/ up # <<>> /\ up' = Tail(up) /\ UNCHANGED down
       \/ down # <<>> /\ down' = Tail(down) /\ UNCHANGED up
    /\ UNCHANGED <<c, server>>

(* -------------------------------- the actions ----------------------------- *)
(* the packets a handler sent go on the link *)
Becomes(m) == c' = [m EXCEPT !.out = <<>>] /\ up' = up \o m.out

Waiting == c.pc \in {"terminating", "cancelling"}

Receive ==
    /\ c.pc = "reply" /\ down # <<>>
    /\ Becomes(LET m == __mavlink_packet([c EXCEPT !.quiet = 0], Head(down)) IN
               IF m.pc = "reply" THEN Turn(m) ELSE m)
    /\ down' = Tail(down)
    /\ UNCHANGED <<server, budget>>

(* recv_match returns nothing; time may have passed.  The link holds nothing longer than IdleTime. *)
NoPacket ==
    /\ c.pc = "reply"
    /\ \E late \in BOOLEAN :
        /\ late /\ ~(up = <<>> /\ down = <<>>) => c.last_send + 1 < IdleTime /\ budget.late > 0
        /\ budget' = [budget EXCEPT !.late = IF late /\
             ~(up = <<>> /\ down = <<>>) THEN @ - 1 ELSE @]
        /\ Becomes(Turn(IF late THEN Later(c) ELSE [c EXCEPT !.too_fast = FALSE]))
    /\ UNCHANGED <<server, down>>

(* process_ftp_reply("TerminateSession"): packets are discarded until the link is idle *)
Discard ==
    /\ Waiting /\ down # <<>> /\ down' = Tail(down)
    /\ UNCHANGED <<c, server, up, budget>>

Terminated ==
    /\ Waiting /\ up = <<>> /\ down = <<>>
    /\ c' = [c EXCEPT !.session = (@ + 1) % 256, !.last_send = IdleTime, !.quiet = IdleTime,
                      !.pc = IF c.pc = "cancelling" \/ LoopEnds([c EXCEPT !.last_send = IdleTime])
                             THEN "ready" ELSE "reply"]
    /\ UNCHANGED <<server, up, down, budget>>

(* process_ftp_reply gives up with RemoteReplyTimeout, the transfer still under way *)
GivesUp ==
    /\ c.pc = "reply" /\ c.call # "read"
    /\ c' = [c EXCEPT !.pc = "ready", !.ret = "RemoteReplyTimeout"]
    /\ UNCHANGED <<server, up, down, budget>>

(* a read() without a result, or a call that timed out, leaves its session open *)
LeftOpen == c.ret = "RemoteReplyTimeout" \/ (c.call = "read" /\ ~c.done)

Call ==
    /\ c.pc = "ready" /\ budget.calls > 0 /\ (Careful => ~LeftOpen)
    /\ budget' = [budget EXCEPT !.calls = @ - 1]
    /\ \/ \E f \in Files \union {"missing"}, cb \in BOOLEAN : "get" \in Commands /\
         Becomes(cmd_get(c, f, cb))
       \/ \E f \in Files, o \in ReadOffsets : "read" \in Commands /\ Becomes(read(c, f, o, 1))
       \/ \E n \in Local : "put" \in Commands /\ Becomes(cmd_put(c, "copy", n))
       \/ "list" \in Commands /\ Becomes(cmd_list(c))
       \/ \E op \in Simple \intersect Commands : Becomes(cmd_simple(c, op))
    /\ UNCHANGED <<server, down>>

Cancel ==
    /\ c.pc = "ready" /\ (budget.calls > 0 \/ LeftOpen)
    /\ budget' = [budget EXCEPT !.calls = IF @ > 0 THEN @ - 1 ELSE @]
    /\ Becomes(__terminate_session([c EXCEPT !.call = "cancel", !.ret = "Success"]))
    /\ UNCHANGED <<server, down>>

FtpInit ==
    /\ c = [cmd_simple(Fresh, "ResetSessions") EXCEPT !.out = <<>>]
    /\ up = <<c.last_op>> /\ down = <<>>
    /\ server = [open |-> NoSession, written |-> {-1}]
    /\ budget = [loss |-> MaxLoss, late |-> MaxLate, calls |-> MaxCalls]

FtpNext == Receive \/ NoPacket \/ Discard \/
    Terminated \/ GivesUp \/ Call \/ Cancel \/ ServerStep \/ LosePacket

FtpSpec == FtpInit /\ [][FtpNext]_ftpvars

InGap(o) == \E i \in DOMAIN c.read_gaps : c.read_gaps[i][1] <= o /\
    o < c.read_gaps[i][1] + c.read_gaps[i][2]

(* While a download is open, every byte before the write position is there or in a gap that is  *)
(* going to be asked for again: __handle_burst_read, __handle_reply_read and __check_read_send  *)
(* hand pieces of the file to one another, under loss and repeated replies.                     *)
NothingForgotten ==
    c.call \in {"get", "read"} /\ c.pc = "reply" =>
        \A o \in c.requested_offset..(c.fh.tell - 1) : o \in DOMAIN c.fh.data \/ InGap(o)

(* What a caller is told to have succeeded did: a file it got has all bytes of the remote file  *)
(* (__check_read_finished), or all from the offset of the last read(), which a get without a    *)
(* callback takes over; the server holds all blocks of a file that was put, if it is not empty  *)
(* (__put_finished); and a listing is the whole directory (__handle_list_reply).                *)
WholeFrom(from, file) == [o \in from..(Size[file] - 1) |-> file]
Told(kind) == c.told # <<>> /\ c.told[1] = kind
TransfersWhole ==
    /\ Told("got") => c.told[4] \in {WholeFrom(from, c.told[3]) : from \in {0, c.requested_offset}}
    /\ Told("put") /\ c.told[4] # 0 =>
           server.written = {b * write_size : b \in 0..(Blocks(c.told[4]) - 1)}
    /\ c.list_result \in {<<>>, Directory}

(* Callbacks are called once: a call that is over has none left, and a put has told its outcome. *)
CallbacksCalled ==
    /\ c.pc = "ready" /\ ~LeftOpen => ~c.callback /\ ~c.put_callback
    /\ c.pc = "ready" /\ ~LeftOpen /\ c.call = "put" => c.told # <<>>

(* Transfers lose nothing, and say what became of them, whatever the link loses or delays. *)
TransfersSound == NothingForgotten /\ TransfersWhole /\ CallbacksCalled

(* The loop takes a waiting packet or goes on without one (weak fairness of NoPacket, with *)
(* its enabling condition written out), and the server answers.                            *)
LoopGoesOn == []<>(c.pc # "reply" \/ down # <<>>) \/ []<><<NoPacket>>_c

FtpFairness == LoopGoesOn /\ WF_down(down # <<>> /\ down' = Tail(down)) /\
    WF_ftpvars(Terminated) /\ WF_ftpvars(ServerStep)
=============================================================================
