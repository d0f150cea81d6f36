------------------------------- MODULE Router -------------------------------
(***************************************************************************)
(* router.c: the table of API routes and the response each dispatch builds *)
(* into the object of the caller.  A target is the sequence of the         *)
(* segments of its path, an empty one for a trailing slash; the query is   *)
(* not looked at.                                                          *)
(***************************************************************************)
EXTENDS Response, Sequences

VARIABLES request   \* method and path

Methods == {"GET", "HEAD", "POST"}

ROUTES == << [method |-> "GET",  path |-> <<"api", "health">>],
             [method |-> "POST", path |-> <<"api", "echo">>],
             [method |-> "GET",  path |-> <<"api", "stats">>] >>

PathEquals(path, route) == path = route.path

\* "/api", or anything below "/api/".
IsApiRequest(path) == path # <<>> /\ path[1] = "api"

\* A GET route also answers HEAD.
MethodCompatible(route, method) ==
    route.method = method \/ (route.method = "GET" /\ method = "HEAD")

\* The routes of this path.
Matching(path) == {i \in DOMAIN ROUTES : PathEquals(path, ROUTES[i])}

\* Variant: HEAD is left out.
AllowHeaderShort(path) == {ROUTES[i].method : i \in Matching(path)}

\* build_allow_header: "GET, HEAD" for a GET route, "POST" for a POST route.
AllowHeader(path) ==
    UNION {IF ROUTES[i].method = "GET" THEN {"GET", "HEAD"}
           ELSE {ROUTES[i].method} \cap {"POST"} : i \in Matching(path)}

Compatible(path, method) == \E i \in Matching(path) : MethodCompatible(ROUTES[i], method)

\* ROUTER_HANDLED with this response, or ROUTER_ERROR and what is left of it.
Handled(response) ==
    /\ Replace("response", response)
    /\ status' = response.status
    /\ at' = "done"
    /\ UNCHANGED <<code, request>>

RouterError(left) ==
    /\ disturbed
    /\ Replace("response", left)
    /\ at' = "error" /\ code' = 500
    /\ UNCHANGED <<status, request>>

\* The first compatible route's handler: handle_health, handle_echo, handle_stats.
\* An echoed body may be empty.
CallHandler ==
    /\ at = "route" /\ Compatible(request.path, request.method)
    /\ LET empty == IF request.path = <<"api", "echo">> THEN {NoBody} ELSE {}
       IN  \/ \E b \in {Memory} \cup empty : Handled([Built(200) EXCEPT !.body = b])
           \/ \E left \in Unfinished(200) : RouterError(left)

MethodNotAllowed ==
    /\ at = "route"
    /\ Matching(request.path) # {} /\ ~Compatible(request.path, request.method)
    /\ \/ Handled([Built(405) EXCEPT !.allow = AllowHeader(request.path)])
       \/ \E left \in Unfinished(405) \cup {Built(405)} : RouterError(left)

NotFound ==
    /\ at = "route" /\ Matching(request.path) = {}
    /\ \/ Handled(Built(404))
       \/ \E left \in Unfinished(404) : RouterError(left)

RouterDispatch == CallHandler \/ MethodNotAllowed \/ NotFound
=============================================================================
