------------------------------- MODULE Config -------------------------------
(***************************************************************************)
(* config.c: the command line, read from left to right.  An argument is a  *)
(* word; what matters of it is which option it names, if any, and which    *)
(* integer strtol makes of all of it, if any.                              *)
(***************************************************************************)
EXTENDS Integers, Sequences, SequencesExt

CONSTANTS CommandLines,   \* sequences of groups of words, an option and its value
          PathMax         \* words longer than this are no document root

VARIABLES given,    \* the command line
          argv,     \* what is left of it
          config, result

vars == <<given, argv, config, result>>

Numeric == {"port", "workers", "queue_size", "keep_alive_timeout", "request_timeout"}

Defaults == [port |-> 8080, workers |-> 4, queue_size |-> 64, root |-> "./public",
             verbose |-> FALSE, keep_alive_timeout |-> 5, request_timeout |-> 10]

Init ==
    /\ given \in CommandLines
    /\ argv = FlattenSeq(given)
    /\ config = Defaults
    /\ result = "NONE"

Option == Head(argv).option
Value == argv[2]
HasValue == Len(argv) > 1

Reading == result = "NONE"

Return(r) == result' = r /\ UNCHANGED <<given, argv>>

\* Consumes n words and sets a field.
Take(n, field, value) ==
    /\ config' = [config EXCEPT ![field] = value]
    /\ argv' = SubSeq(argv, n + 1, Len(argv))
    /\ UNCHANGED <<given, result>>

EndOfArguments == Reading /\ argv = <<>> /\ Return("OK") /\ UNCHANGED config

Help == Reading /\ argv # <<>> /\ Option = "help" /\ Return("HELP") /\ UNCHANGED config

Verbose == Reading /\ argv # <<>> /\ Option = "verbose" /\ Take(1, "verbose", TRUE)

\* Variant: the lower bound of one option is written with the wrong constant.
InRangeZeroSlots(option, value) ==
    \/ option = "port" /\ value >= 1 /\ value <= 65535
    \/ option = "workers" /\ value >= 1 /\ value <= 256
    \/ option = "queue_size" /\ value >= 0 /\ value <= 4096
    \/ option = "keep_alive_timeout" /\ value >= 1 /\ value <= 300
    \/ option = "request_timeout" /\ value >= 1 /\ value <= 300

\* Each option has its own check.
InRange(option, value) ==
    \/ option = "port" /\ value >= 1 /\ value <= 65535
    \/ option = "workers" /\ value >= 1 /\ value <= 256
    \/ option = "queue_size" /\ value >= 1 /\ value <= 4096
    \/ option = "keep_alive_timeout" /\ value >= 1 /\ value <= 300
    \/ option = "request_timeout" /\ value >= 1 /\ value <= 300

Number ==
    /\ Reading /\ argv # <<>> /\ Option \in Numeric
    /\ HasValue /\ Value.integer /\ InRange(Option, Value.value)
    /\ Take(2, Option, Value.value)

NumberFails ==
    /\ Reading /\ argv # <<>> /\ Option \in Numeric
    /\ ~(HasValue /\ Value.integer /\ InRange(Option, Value.value))
    /\ Return("ERROR") /\ UNCHANGED config

\* Any word is a document root, also one that looks like an option.
Root ==
    /\ Reading /\ argv # <<>> /\ Option = "root"
    /\ HasValue /\ Value.length <= PathMax
    /\ Take(2, "root", Value.text)

\* A path that is too long has been copied in part before it is refused.
RootFails ==
    /\ Reading /\ argv # <<>> /\ Option = "root"
    /\ \/ ~HasValue /\ UNCHANGED config
       \/ HasValue /\ Value.length > PathMax /\ config' = [config EXCEPT !.root = "truncated"]
    /\ Return("ERROR")

Unrecognized ==
    /\ Reading /\ argv # <<>>
    /\ Option \notin Numeric \cup {"help", "verbose", "root"}
    /\ Return("ERROR") /\ UNCHANGED config

Terminated == ~Reading /\ UNCHANGED vars

Next ==
    \/ EndOfArguments \/ Help \/ Verbose \/ Number \/ NumberFails
    \/ Root \/ RootFails \/ Unrecognized \/ Terminated

Spec == Init /\ [][Next]_vars

-----------------------------------------------------------------------------
(* Properties.                                                             *)

\* The limits config.h declares.
Ranges == [port |-> [min |-> 1, max |-> 65535], workers |-> [min |-> 1, max |-> 256],
           queue_size |-> [min |-> 1, max |-> 4096],
           keep_alive_timeout |-> [min |-> 1, max |-> 300],
           request_timeout |-> [min |-> 1, max |-> 300]]

\* Whatever the order and the repetitions of the options, each number the server is
\* started with is the last one given for it, or the default, and in range, and the
\* root is a whole path: there is a worker, the queue has a slot and no timeout is
\* zero, which the other modules assume.  A word taken as the value of another
\* option sets nothing.
AcceptedIsUsable ==
    result = "OK" =>
        /\ config.root # "truncated"
        /\ \A option \in Numeric :
              LET k == SelectLastInSeq(given, LAMBDA g : Len(g) = 2 /\ g[1].option = option)
              IN  /\ config[option] = IF k = 0 THEN Defaults[option] ELSE given[k][2].value
                  /\ config[option] \in Ranges[option].min .. Ranges[option].max
=============================================================================
