------------------------------ MODULE MCInputs ------------------------------
(***************************************************************************)
(* The sequential parts that judge their input, side by side: the parser   *)
(* (message headers), the static path (request targets) and the command    *)
(* line.  They share no state, so each behaviour runs one of them on one   *)
(* input and leaves the others where they begin.                           *)
(***************************************************************************)
EXTENDS HttpParser, StaticPath

VARIABLES part,
          given, argv, config, c_result   \* Config

configPart == <<given, argv, config, c_result>>
inputVars  == <<part, vars, pathVars, configPart>>

-----------------------------------------------------------------------------
(* Every kind of request line with headers of up to MaxLines lines.        *)

Line(name, value) == [crlf |-> TRUE, colon |-> "found", name |-> name, name_flaw |-> "none",
                      value |-> value, value_nul |-> FALSE]

Content(v) == Line("Content-Length", v)
Encoding(v) == Line("Transfer-Encoding", v)

MCLines ==
    {Content(v) : v \in {0, 1, MaxBody + 1, NotALength}}
    \cup {Encoding(v) : v \in {Chunked, NotALength}}
    \cup {Line("other", NotALength)}
    \cup {[Content(1) EXCEPT !.name_flaw = f] : f \in {"blank", "NUL"}}
    \cup {[Content(1) EXCEPT !.value_nul = TRUE], [Line("other", 0) EXCEPT !.value_nul = TRUE]}
    \cup {[Line("other", 0) EXCEPT !.crlf = FALSE], [Line("other", 0) EXCEPT !.colon = "none"]}

Get == [crlf |-> TRUE, length |-> "fits", form |-> "three fields",
        method |-> "GET", version |-> "HTTP/1.1"]

MCRequestLines ==
    {Get, [Get EXCEPT !.method = "POST", !.version = "HTTP/1.0"],
     [Get EXCEPT !.crlf = FALSE], [Get EXCEPT !.length = "zero"], [Get EXCEPT !.length = "long"],
     [Get EXCEPT !.form = "no method"], [Get EXCEPT !.form = "malformed"],
     [Get EXCEPT !.method = "PUT", !.version = "other"],
     [Get EXCEPT !.version = "HTTP-like"], [Get EXCEPT !.version = "other"]}

-----------------------------------------------------------------------------
(* Long targets over few characters and short ones over all tokens.        *)

Literal(c) == [escaped |-> FALSE, char |-> c]
Escape(c)  == [escaped |-> TRUE, char |-> c]

Plain == {Literal(c) : c \in {"/", ".", "a"}}
Every == Plain \cup {Literal("?"), Escape("/"), Escape("."), Escape("?"), Escape("%"),
                     Escape("NUL"), Escape("bad")}

FromRoot(tokens, n) == {<<Literal("/")>> \o s : s \in UNION {[1..k -> tokens] : k \in 0..n}}

MCTargets == {<<>>, <<Literal("a")>>, <<Escape("/")>>} \cup FromRoot(Plain, 7) \cup FromRoot(Every, 3)

\* The root "/", one whose name has a dot, and one below a directory.
MCRoots == {<<>>, << <<"a", ".", "a">> >>, << <<"a">>, <<"a">> >>}

-----------------------------------------------------------------------------
(* Up to three options, each with a value at a bound of its range.         *)

MCPathMax == 4

Word(option, text, n) == [option |-> option, text |-> text, length |-> n, integer |-> FALSE, value |-> 0]
Integer(v) == [option |-> "none", text |-> "digits", length |-> 1, integer |-> TRUE, value |-> v]

Flag(option) == Word(option, "dashes", 2)
Path == Word("none", "path", 3)
LongPath == Word("none", "long", MCPathMax + 1)

\* Each option's range with its neighbours.
Bounds == [port |-> {-1, 0, 1, 65535, 65536}, workers |-> {0, 1, 256, 257},
           queue_size |-> {0, 1, 4096, 4097}, keep_alive_timeout |-> {0, 1, 300, 301},
           request_timeout |-> {0, 1, 300, 301}]

Pairs == UNION {{<<Flag(option), Integer(v)>> : v \in Bounds[option]} : option \in DOMAIN Bounds}
         \cup {<<Flag("root"), w>> : w \in {Path, LongPath}}
         \cup {<<Flag("workers"), Path>>}

Singles == {<<Flag(option)>> : option \in {"help", "verbose", "root", "port", "unknown"}}

MCCommandLines == UNION {[1..n -> Pairs \cup Singles] : n \in 0..3}

-----------------------------------------------------------------------------

C == INSTANCE Config WITH CommandLines <- MCCommandLines, PathMax <- MCPathMax, result <- c_result

\* The parser before "GET" without headers, the static path before an empty target,
\* the options before an empty command line.
ParserBegins == request_line = Get /\ lines = <<>> /\ Init
PathBegins == target = <<>> /\ root = <<>> /\ PathInit
ConfigBegins == given = <<>> /\ C!Init

InputsInit ==
    \/ part = "parser" /\ PathBegins /\ ConfigBegins /\ Init
    \/ part = "path" /\ ParserBegins /\ ConfigBegins /\ PathInit
    \/ part = "config" /\ ParserBegins /\ PathBegins /\ C!Init

InputsNext ==
    \/ part = "parser" /\ Next /\ UNCHANGED <<part, pathVars, configPart>>
    \/ part = "path" /\ PathNext /\ UNCHANGED <<part, vars, configPart>>
    \/ part = "config" /\ C!Next /\ UNCHANGED <<part, vars, pathVars>>

InputsSpec == InputsInit /\ [][InputsNext]_inputVars

-----------------------------------------------------------------------------
(* The parser and the static path bring their properties along; the        *)
(* command line is an instance, and its property is named here.            *)

\* config_parse accepts only what the server can run with, and the last value given
\* for an option counts.
AcceptedIsUsable == C!AcceptedIsUsable
=============================================================================
