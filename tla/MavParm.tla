-------------------------------- MODULE MavParm --------------------------------
(* The parameters of a vehicle as pymavlink keeps them (mavparm.py): mavset     *)
(* sends a value up to three times and takes the next PARAM_VALUE of that name  *)
(* for its answer; load sets what differs from what is known.                   *)
EXTENDS Integers, FiniteSets, SequencesExt

CONSTANTS
    Names,          \* parameters
    Excluded,       \* exclude_load
    ParmFiles,      \* files: sequences of [kind, name, value]
    Values,
    Retries,        \* 3 in the code
    Polls,          \* how often a second of polling looks for an answer
    MaxStray,       \* bound: messages on their way at once
    MaxSets         \* bound: calls of mavset and load

ASSUME ParmAssumption == Retries \in Nat \ {0} /\ Polls \in Nat /\ ParmFiles \subseteq
    Seq([kind : {"value", "word", "other"}, name : STRING, value : Int])

VARIABLES
    vehicle,        \* parameter -> value, at the vehicle (external)
    net,            \* the messages on their way: [kind, name, value, typed]
    parms,          \* the dictionary: parameter -> value
    call,           \* the mavset that runs: [name, value, typed, retries, polls, sent, stale, to], or Idle
    todo,           \* the lines load still has to read
    file,           \* history: the file of the load that runs, the names known at its start, and whether a set
                    \* failed, an older message was on its way, or the dictionary was not the vehicle's
    result,         \* what the last mavset returned: "none", "set", "refused" or "timeout"
    calls
parmvars == <<vehicle, net, parms, call, todo, file, result, calls>>

Idle == [name |-> "", value |-> 0, typed |-> FALSE,
         retries |-> 0, polls |-> 0, sent |-> FALSE, stale |-> FALSE]
NoParmFile == [lines |-> <<>>, known |-> {}, check |-> FALSE, failed |-> FALSE]

(* an integer type is sent as its bytes: read as a float they are no larger than mindelta, *)
(* and that float is what the dictionary keeps                                              *)
Numeric(value, typed) == IF typed THEN 0 ELSE value
With(f, n, v) == [x \in DOMAIN f \union {n} |-> IF x = n THEN v ELSE f[x]]

ParmInit ==
    /\ vehicle = [n \in Names |-> 0] /\ net = {}
    /\ parms \in {[n \in S |-> 0] : S \in SUBSET Names}
    /\ call = Idle /\ todo = <<>> /\ file = NoParmFile /\ result = "none" /\ calls = 0

Begin(name, value, typed) ==
    call' = [name |-> name, value |-> value,
             typed |-> typed, retries |-> Retries, polls |-> 0, sent |-> FALSE,
             stale |-> \E m \in net : m.name = name]

(* mavset: a type that cannot be sent ends it at once *)
mavset ==
    /\ call = Idle /\ todo = <<>> /\ calls < MaxSets
    /\ \E name \in Names, value \in Values, typed \in BOOLEAN : Begin(name, value, typed)
    /\ calls' = calls + 1 /\ result' = "none" /\ file' = NoParmFile
    /\ UNCHANGED <<vehicle, net, parms, todo>>
Refuse ==
    /\ call = Idle /\ todo = <<>> /\ result # "refused" /\ result' = "refused"
    /\ UNCHANGED <<vehicle, net, parms, call, todo, file, calls>>

Send ==
    /\ call # Idle /\ call.polls = 0 /\ call.retries > 0
    /\ Cardinality(net) < MaxStray
    /\ net' = net \union {[kind |-> "PARAM_SET",
                           name |-> call.name, value |-> call.value, typed |-> call.typed]}
    /\ call' = [call EXCEPT !.retries = @ - 1, !.polls = Polls, !.sent = TRUE]
    /\ UNCHANGED <<vehicle, parms, todo, file, result, calls>>

Finished(m) ==
    /\ call' = Idle
    /\ result' = "set"
    /\ parms' = With(parms, call.name, Numeric(call.value, call.typed))
    /\ file' = [file EXCEPT !.failed = @ \/ call.stale]

(* the name is compared, the value is not *)
AnyAnswer(m) == TRUE
Answers(m) == m.name = call.name
Poll ==
    /\ call # Idle /\ call.polls > 0
    /\ \E m \in net :
          /\ m.kind = "PARAM_VALUE" /\ net' = net \ {m}
          /\ \/ Answers(m) /\ Finished(m)
             \/ ~Answers(m) /\ UNCHANGED <<call, result, parms, file>>
    /\ UNCHANGED <<vehicle, todo, calls>>
Sleep ==
    /\ call # Idle /\ call.polls > 0
    /\ call' = [call EXCEPT !.polls = @ - 1]
    /\ UNCHANGED <<vehicle, net, parms, todo, file, result, calls>>
TimeOut ==
    /\ call # Idle /\ call.polls = 0 /\ call.retries = 0
    /\ call' = Idle /\ result' = "timeout" /\ file' = [file EXCEPT !.failed = TRUE]
    /\ UNCHANGED <<vehicle, net, parms, todo, calls>>

(* a line is "value", "word" (a value that is no number) or "other": a comment, blank, or not two columns *)
Wanted(line) == line.kind = "value" /\ line.name \notin Excluded

(* a parameter of the file that is not what the dictionary says, or that an older message is about *)
Mentions(lines, n) == \E i \in DOMAIN lines : Wanted(lines[i]) /\ lines[i].name = n
Uncertain(lines) ==
    \E n \in Names : /\ Mentions(lines, n)
                     /\ (n \in DOMAIN parms /\ parms[n] # vehicle[n]) \/ \E m \in net : m.name = n

(* load with a connection, with or without `check`; without a connection it only fills the dictionary *)
load ==
    /\ call = Idle /\ todo = <<>> /\ calls < MaxSets
    /\ \E lines \in ParmFiles, check \in BOOLEAN :
          /\ todo' = lines
          /\ file' = [lines |-> lines, known |-> DOMAIN parms, check |-> check,
                      failed |-> Uncertain(lines)]
    /\ calls' = calls + 1 /\ result' = "none"
    /\ UNCHANGED <<vehicle, net, parms, call>>
Skipped(line) ==
    \/ ~Wanted(line)
    \/ file.check /\ line.name \notin DOMAIN parms
    \/ file.check /\ line.name \in DOMAIN parms /\ parms[line.name] = line.value
Line ==
    /\ call = Idle /\ todo # <<>> /\ todo[1].kind # "word" /\ todo' = Tail(todo)
    /\ IF Skipped(todo[1]) THEN UNCHANGED call ELSE Begin(todo[1].name, todo[1].value, FALSE)
    /\ UNCHANGED <<vehicle, net, parms, file, result, calls>>
LineRaises ==
    /\ call = Idle /\ todo # <<>> /\ todo[1].kind = "word"
    /\ IF todo[1].name \in Excluded THEN todo' = Tail(todo) /\ UNCHANGED file
       ELSE todo' = <<>> /\ file' = NoParmFile
    /\ UNCHANGED <<vehicle, net, parms, call, result, calls>>
UpToWord(lines) ==
    SubSeq(lines, 1, CHOOSE n \in 0 .. Len(lines) :
        /\ \A i \in 1 .. n : lines[i].kind # "word" \/ lines[i].name \in Excluded
        /\ n = Len(lines) \/ (lines[n + 1].kind = "word" /\ lines[n + 1].name \notin Excluded))
Filled(lines) ==
    FoldLeft(LAMBDA d, line : IF Wanted(line) THEN With(d, line.name, line.value) ELSE d,
             parms, lines)
Fill ==
    /\ call = Idle /\ todo = <<>> /\ calls < MaxSets
    /\ \E lines \in ParmFiles : parms' = Filled(UpToWord(lines))
    /\ calls' = calls + 1 /\ result' = "none"
    /\ UNCHANGED <<vehicle, net, call, todo, file>>

(* the vehicle takes the value of a parameter it has and answers with it; messages are lost *)
(* and overtake each other                                                                  *)
Handle ==
    /\ \E m \in net :
          /\ m.kind = "PARAM_SET" /\ m.name \in Names
          /\ vehicle' = [vehicle EXCEPT ![m.name] = m.value]
          /\ net' = (net \ {m}) \union {[kind |-> "PARAM_VALUE",
                                         name |-> m.name, value |-> m.value, typed |-> m.typed]}
    /\ UNCHANGED <<parms, call, todo, file, result, calls>>
Lose ==
    /\ \E m \in net : net' = net \ {m}
    /\ UNCHANGED <<vehicle, parms, call, todo, file, result, calls>>

ParmNext == mavset \/ Refuse \/ Send \/ Poll \/
    Sleep \/ TimeOut \/ load \/ Line \/ LineRaises \/ Fill \/ Handle \/ Lose

ParmSpec == ParmInit /\ [][ParmNext]_parmvars
-----------------------------------------------------------------------------
(* What a load promises of the i-th line of a file: it may set the parameter, and no *)
(* later line is about the same one.                                                 *)
Promised(f, i) ==
    /\ Wanted(f.lines[i]) /\ f.lines[i].name \in Names
    /\ f.check => f.lines[i].name \in f.known
    /\ \A j \in DOMAIN f.lines : j > i /\ Wanted(f.lines[j]) => f.lines[j].name # f.lines[i].name

SetReturns == call # Idle /\ call' = Idle /\ result' = "set"
LoadReturns ==
    /\ file.lines # <<>> /\ (todo # <<>> \/ call # Idle) /\ todo' = <<>> /\ call' = Idle

(* When no older message of the parameter was on its way, a set that returns TRUE   *)
(* has set the vehicle, and a load none of whose sets failed, that began with what   *)
(* the vehicle has and no older message about it, leaves at the vehicle every value  *)
(* of the file that it may set: although answers are told apart by the name alone.   *)
SetKept == SetReturns /\ ~call.stale => vehicle'[call.name] = call.value
LoadKept ==
    LoadReturns /\ ~file'.failed =>
        \A i \in DOMAIN file'.lines : Promised(file', i) =>
            vehicle'[file'.lines[i].name] = file'.lines[i].value
SetsReach == [][SetKept /\ LoadKept]_parmvars
===============================================================================
