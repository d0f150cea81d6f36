------------------------------ MODULE Response ------------------------------
(***************************************************************************)
(* The response object of http_response.c as the code that builds a        *)
(* response uses it: who owns what, above all an open file, and the error  *)
(* pages of static_files.c and client_handler.c.                           *)
(*                                                                         *)
(* client_handle owns "response"; static_files_build_not_found has a       *)
(* second one, "page", on its stack.                                       *)
(***************************************************************************)
EXTENDS Integers, FiniteSets

CONSTANT Fds    \* descriptors the process may still open

ASSUME FdsAssumption == Fds \subseteq Nat

VARIABLES at,
          disturbed,   \* calls may fail, and files change, during this request
          res,         \* the two response objects
          open,        \* the descriptors of files that are open
          code,        \* the status an error page is built for
          status       \* what the builder returns: the status, or -1

NoFd == -1

NoBody == [kind |-> "none", fd |-> NoFd, length |-> 0]
Memory == [kind |-> "memory", fd |-> NoFd, length |-> 0]
File(fd, size) == [kind |-> "file", fd |-> fd, length |-> size]

\* http_response_init.
Blank == [status |-> 500, type |-> FALSE, allow |-> {}, body |-> NoBody]

\* A status, a body in memory and its Content-Type.
Built(st) == [Blank EXCEPT !.status = st, !.body = Memory, !.type = TRUE]

\* What is left when the copy of the body, or the header, could not be allocated.
Unfinished(st) == {[Blank EXCEPT !.status = st], [Blank EXCEPT !.status = st, !.body = Memory]}

Held(response) == {response.body.fd} \ {NoFd}

\* http_response_destroy(r), then r becomes what is given.
Replace(r, response) ==
    /\ res' = [res EXCEPT ![r] = response]
    /\ open' = open \ Held(res[r])

-----------------------------------------------------------------------------

\* static_files_build_error: replaces the response by an HTML page.
BuildError ==
    /\ at = "build_error"
    /\ Replace("response", Built(code))
    /\ status' = code
    /\ at' = "done"
    /\ UNCHANGED code

BuildErrorFails ==
    /\ at = "build_error" /\ disturbed
    /\ \E left \in Unfinished(code) : Replace("response", left)
    /\ at' = "build_text"
    /\ UNCHANGED <<code, status>>

\* The fallback of build_static_error_response is a line of text.
BuildText ==
    /\ at = "build_text"
    /\ Replace("response", Built(code))
    /\ status' = code
    /\ at' = "done"
    /\ UNCHANGED code

BuildTextFails ==
    /\ at = "build_text" /\ disturbed
    /\ \E left \in Unfinished(code) : Replace("response", left)
    /\ status' = -1
    /\ at' = "done"
    /\ UNCHANGED code

ErrorPage == BuildError \/ BuildErrorFails \/ BuildText \/ BuildTextFails
=============================================================================
