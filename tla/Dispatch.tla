------------------------------ MODULE Dispatch ------------------------------
(***************************************************************************)
(* client_handler.c between the end of a read that is to be answered and   *)
(* the sending of the response: an error page for what the reader or the   *)
(* parser refused, the router for API targets, the static files for GET    *)
(* and HEAD, an error page for the rest.  One response object passes       *)
(* through all of them and is destroyed after it was sent.                 *)
(*                                                                         *)
(* A request has the path as it was sent, which is what the router looks   *)
(* at, and what module StaticPath makes of its target: how normalising it  *)
(* ends (normal), and the path below the document root (file).             *)
(***************************************************************************)
EXTENDS StaticFiles, Router

CONSTANTS Requests   \* received, method, path, normal and file

\* status_for_read_result and status_for_parse_result, which agree where their
\* results have the same name.
StatusForResult ==
    [TOO_LARGE |-> 413, UNSUPPORTED_TRANSFER_ENCODING |-> 501, TIMEOUT |-> 408,
     INVALID_CONTENT_LENGTH |-> 400, BAD_REQUEST |-> 400, OUT_OF_MEMORY |-> 500,
     UNSUPPORTED_METHOD |-> 405, UNSUPPORTED_VERSION |-> 505, TOO_MANY_HEADERS |-> 400]

ASSUME RequestsAssumption ==
    \A r \in Requests :
        /\ r.received \in {"OK"} \cup DOMAIN StatusForResult
        /\ r.received = "OK" => r.method \in Methods
        /\ r.normal \in {"OK", "BAD_TARGET", "FORBIDDEN"}

vars == <<at, disturbed, res, open, code, status, pathVars, fileVars, fd, result, inode, request>>

NoRequest == [received |-> "OK", method |-> "UNKNOWN", path |-> <<>>, normal |-> "OK", file |-> <<>>]

Init ==
    /\ at = "idle" /\ disturbed = FALSE
    /\ res = [r \in {"response", "page"} |-> Blank]
    /\ open = {}
    /\ code = 0 /\ status = -1
    /\ fs \in FileSystems /\ changes = 0
    /\ request = NoRequest
    /\ target = Page /\ serving = "response"
    /\ path = <<>> /\ indexing = FALSE /\ size = 0 /\ fd = NoFd
    /\ result = "OK"
    /\ inode = [d \in Fds |-> Nothing]

\* The read and the parse of it succeeded.
Parses(r) == r.received = "OK"

Start(r) ==
    /\ at = "idle"
    /\ request' = r /\ disturbed' \in BOOLEAN
    /\ target' = [result |-> r.normal, path |-> r.file]
    /\ serving' = "response"
    /\ IF ~Parses(r) THEN at' = "error" /\ code' = StatusForResult[r.received]
       ELSE IF IsApiRequest(r.path) THEN at' = "route" /\ UNCHANGED code
       ELSE IF r.method \in {"GET", "HEAD"} THEN at' = "serve" /\ UNCHANGED code
       ELSE at' = "error" /\ code' = 405
    /\ UNCHANGED <<res, open, path, indexing, size, fileVars, fd, result, inode, status>>

\* After the response was sent, or could not be; the locals go out of scope.
DestroyResponse ==
    /\ at = "done"
    /\ Replace("response", Blank)
    /\ at' = "idle" /\ disturbed' = FALSE
    /\ request' = NoRequest /\ target' = Page /\ serving' = "response"
    /\ code' = 0 /\ status' = -1
    /\ path' = <<>> /\ indexing' = FALSE /\ size' = 0 /\ result' = "OK"
    /\ inode' = [d \in Fds |-> IF d \in open' THEN inode[d] ELSE Nothing]
    /\ UNCHANGED <<fileVars, fd>>

Route == RouterDispatch /\ UNCHANGED <<disturbed, pathVars, fileVars, fd, result, inode>>
Static == StaticStep /\ UNCHANGED <<disturbed, request>>
Error == ErrorPage /\ UNCHANGED <<disturbed, pathVars, fileVars, fd, result, inode, request>>

Step == Route \/ Static \/ Error \/ DestroyResponse

Next ==
    \/ \E r \in Requests : Start(r)
    \/ Step
    \/ OpenFifo /\ UNCHANGED <<disturbed, request>>
    \/ OtherProcess /\ UNCHANGED request

Spec == Init /\ [][Next]_vars

\* The worker goes on; nobody has to open the other end of a FIFO.
FairSpec == Spec /\ WF_vars(Step)

-----------------------------------------------------------------------------
(* Properties.                                                             *)

\* An open file has exactly one owner: the function that has just opened it, the
\* response, or the 404 page; through the copy of the page, every failure and the
\* reuse of the object no file is left open, and none is owned twice, which would
\* close it twice.
OneOwnerPerFile ==
    LET local == {fd} \ {NoFd} IN
        /\ open = Held(res["response"]) \cup Held(res["page"]) \cup local
        /\ Held(res["response"]) \cap Held(res["page"]) = {}
        /\ local \cap (Held(res["response"]) \cup Held(res["page"])) = {}

\* The file a response owns is a regular one within the limit and Content-Length is
\* its size, although path, size and kind were looked at before it was opened and
\* may have changed since.
LengthIsOfOpenFile ==
    \A r \in DOMAIN res : res[r].body.kind = "file" =>
        LET n == inode[res[r].body.fd] IN
            /\ n.kind = "regular"
            /\ res[r].body.length = n.size
            /\ n.size <= MaxFile

\* static_files.h: after a failed static_files_serve the response is empty, with no
\* body and no header, whatever had been put into it.
EmptyOnFailure == at = "served" /\ result # "OK" => res[serving] = Blank

\* The status client_handle goes by is the one in the response that is sent; the
\* response is complete; it carries a file only for 200 and for the 404 page, and
\* Allow only with 405.
StatusIsOfResponse ==
    at = "done" /\ status >= 0 =>
        LET r == res["response"] IN
            /\ r.status = status /\ r.type
            /\ r.body.kind = "file" => status \in {200, 404}
            /\ r.allow # {} => status = 405
            /\ r.body.kind = "none" => request.method = "POST" /\ status = 200

\* An API request is answered by what the table says as a whole: 200 when some route
\* of the path takes the method, 405 with the methods that would have been taken
\* when none does, 404 for other paths, also for those that would normalise to a
\* file.  The exception is what is refused before the router: a method the parser
\* does not know gets a 405 page without Allow.
ApiAnswer ==
    at = "done" /\ Parses(request) /\ IsApiRequest(request.path) /\ status \notin {-1, 500} =>
        LET taken == {m \in Methods : \E i \in DOMAIN ROUTES :
                          /\ ROUTES[i].path = request.path
                          /\ m = ROUTES[i].method \/ (m = "HEAD" /\ ROUTES[i].method = "GET")}
        IN  /\ status = (IF request.method \in taken THEN 200 ELSE IF taken # {} THEN 405 ELSE 404)
            /\ res["response"].allow = IF status = 405 THEN taken ELSE {}

\* What can be sent for a path: the file itself, or the index.html of a directory.
Readable(n) == n.kind = "regular" /\ n.inside /\ n.size <= MaxFile

FileFor(p) ==
    IF Lookup(p).kind = "directory" /\ Lookup(p).inside THEN Index(p) ELSE p

\* While files do not change and no call fails, a static target is answered
\* with 200 exactly when it, or its index.html, can be sent, and with 404 exactly
\* when nothing is there; the custom page is used exactly when it can be sent.  What
\* counts is where the target leads, unless its text begins with the API's prefix.
StaticAnswer ==
    at = "done" /\ ~disturbed /\ Parses(request) /\ ~IsApiRequest(request.path)
                /\ request.method \in {"GET", "HEAD"} /\ request.normal = "OK" =>
        LET found == FileFor(request.file)
            page  == FileFor(Page.path)
            body  == res["response"].body
        IN  /\ status = 200 <=> Readable(Lookup(found))
            /\ status = 404 <=> Lookup(request.file).kind = "absent"
            /\ status = 200 => inode[body.fd] = Lookup(found)
            /\ status = 404 =>
                  /\ body.kind = "file" <=> Readable(Lookup(page))
                  /\ body.kind = "file" => inode[body.fd] = Lookup(page)

\* Building a response ends: a missing 404 page is not looked for again, whatever
\* happens to the files meanwhile.  The exception is a file replaced by a FIFO
\* between stat and open.
ResponseIsBuilt ==
    (at = "serve" \/ at = "route" \/ at = "error") ~>
        (at = "done" \/ (at = "open" /\ Lookup(path).kind = "fifo"))
=============================================================================
