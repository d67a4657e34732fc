----------------------------- MODULE MavPlayback -----------------------------
(* Playing a telemetry log back (tools/mavplayback.py): the timer sends the message that *)
(* was read ahead and reads the next; the buttons and the slider move in the file.       *)
EXTENDS Integers, SequencesExt

CONSTANTS
    Tracks,             \* the logs: sequences of [time, bad]
    Tenth               \* a tenth of a file, in messages (the last 2048 bytes, too)

VARIABLES
    track,              \* the log that is played
    app,                \* the window: the message read ahead, the place in the file, ...
    from,               \* history: where the file was last sought, ...
    sent,               \* ... the messages sent since, ...
    waited              \* ... and the time waited between them at speed one, -1 when it was paused

playvars == <<track, app, from, sent, waited>>

Ended(pos) == pos > Len(track)
Next2(pos) == IF Ended(pos) THEN <<>> ELSE <<pos>>
FirstGood(pos) ==
    LET good == {i \in pos .. Len(track) : ~track[i].bad} IN
    IF good = {} THEN Len(track) + 1 ELSE CHOOSE i \in good : \A j \in good : i <= j

PlayInit ==
    /\ \E i \in DOMAIN Tracks : track = Tracks[i]
    /\ app = [msg |-> <<1>>, pos |-> 2, last_timestamp |-> track[1].time, paused |-> FALSE]
    /\ from = 1 /\ sent = <<>> /\ waited = 0

(* find_message: the next message that is not bad; at the end it is paused, and without *)
(* any message the exception leaves last_timestamp as it was                            *)
find_message(a, pos) ==
    LET i == FirstGood(pos)
        last == IF i > Len(track) /\ pos <= Len(track) THEN <<Len(track)>> ELSE Next2(i) IN
    [a EXCEPT !.msg = last, !.pos = IF i > Len(track) THEN i ELSE i + 1,
              !.paused = @ \/ i > Len(track),
              !.last_timestamp = IF last = <<>> THEN @ ELSE track[last[1]].time]

Sought(pos) ==
    /\ app' = find_message(app, pos)
    /\ from' = pos /\ sent' = <<>> /\ waited' = 0
    /\ UNCHANGED track

rewind == Sought(IF app.pos - Tenth < 1 THEN 1 ELSE app.pos - Tenth)
forward ==
    LET pos == IF app.pos + Tenth > Len(track) + 1 THEN Len(track) + 1 - Tenth
               ELSE app.pos + Tenth IN
    pos >= 1 /\ Sought(pos)
slew == \E pos \in 1 .. Len(track) + 1 : Sought(pos)
pause ==
    /\ app' = [app EXCEPT !.paused = ~@]
    /\ waited' = -1 /\ UNCHANGED <<track, from, sent>>

(* next_message, the timer: the pause is noticed here; the last message of the file is not sent *)
Ahead(a, m) ==
    LET i == FirstGood(a.pos)
        read == [a EXCEPT !.last_timestamp = track[m].time,
                 !.msg = Next2(i), !.pos = IF i > Len(track) THEN i ELSE i + 1] IN
    [read EXCEPT !.paused = i > Len(track)]
next_message ==
    /\ UNCHANGED <<track, from>>
    /\ IF app.msg = <<>> \/ app.paused
       THEN app' = [app EXCEPT !.paused = TRUE] /\ UNCHANGED <<sent, waited>>
       ELSE LET m == app.msg[1] IN
            /\ app' = Ahead(app, m)
            /\ sent' = IF track[m].bad \/ FirstGood(app.pos) > Len(track) THEN sent
                       ELSE Append(sent, m)
            /\ waited' = IF waited = -1 THEN waited ELSE waited + track[m].time - app.last_timestamp

PlayNext == rewind \/ forward \/ slew \/ pause \/ next_message
PlaySpec == PlayInit /\ [][PlayNext]_playvars

-----------------------------------------------------------------------------
(* From where the file was last sought every message is sent once, in order, but for the *)
(* last one, in the time that lies between them in the log, however it was moved, paused *)
(* and resumed before.                                                                   *)
Whole(to) == SelectSeq([i \in 1 .. to - from |-> from + i - 1], LAMBDA i : ~track[i].bad)
PlayedInOrder ==
    /\ IF app.msg # <<>> THEN sent = Whole(app.msg[1])
       ELSE IsPrefix(sent, Whole(Len(track) + 1)) /\ Len(sent) >= Len(Whole(Len(track) + 1)) - 1
    /\ sent # <<>> /\ waited # -1 /\ app.msg # <<>>
         => waited = track[Last(sent)].time - track[FirstGood(from)].time
=============================================================================
