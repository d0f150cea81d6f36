---------------------------- MODULE StaticFiles ----------------------------
(***************************************************************************)
(* static_files.c from a normalised path to an answer: resolve the path    *)
(* under the root, or its index.html, open the file, attach it; or build   *)
(* an error page, which for 404 is itself a file served into a second      *)
(* response.  Each system call is a step, and other processes change the   *)
(* file system between any two.                                            *)
(***************************************************************************)
EXTENDS Response, Sequences

CONSTANTS Nodes,         \* what there can be at a path
          FileSystems,   \* the file systems to begin with
          MaxFile,       \* HTTP_MAX_STATIC_FILE_SIZE
          MaxChanges     \* bound: changes by other processes

NodeSet == [kind : {"absent", "denied", "unreadable", "directory", "device", "fifo", "regular"},
            size : Nat, inside : BOOLEAN]

ASSUME NodesAssumption ==
    Nodes \subseteq NodeSet /\ \A f \in FileSystems : f \in [DOMAIN f -> NodeSet]

ASSUME MaxFileAssumption == MaxFile \in Nat

VARIABLES fs,         \* path under the root -> node
          changes,
          target,     \* the normalised target, or how normalising it fails
          serving,    \* which response static_files_serve was called with
          path, indexing, size, fd,
          result,
          inode       \* the node each descriptor was opened on

pathVars == <<target, serving, path, indexing, size>>
fileVars == <<fs, changes>>

Page == [result |-> "OK", path |-> <<"404.html">>]
Index(p) == Append(p, "index.html")

Nothing == [kind |-> "absent", size |-> 0, inside |-> TRUE]

\* What a system call finds at a path: an index.html only below a directory.
Lookup(p) ==
    IF p \notin DOMAIN fs \/ (\E q \in DOMAIN fs : p = Index(q) /\ fs[q].kind # "directory")
    THEN Nothing ELSE fs[p]

OtherProcess ==
    /\ changes < MaxChanges /\ (disturbed \/ at = "idle")
    /\ \E p \in DOMAIN fs, n \in Nodes : fs' = [fs EXCEPT ![p] = n]
    /\ changes' = changes + 1
    /\ UNCHANGED <<at, disturbed, res, open, code, status, pathVars, fd, result, inode>>

\* static_files_serve returns.
Served(r) == at' = "served" /\ result' = r

-----------------------------------------------------------------------------
(* static_files_serve.                                                     *)

\* The object is emptied and the target normalised (module StaticPath).
Serve ==
    /\ at = "serve"
    /\ Replace(serving, Blank)
    /\ \/ target.result = "OK" /\ at' = "root" /\ UNCHANGED result
       \/ target.result # "OK" /\ Served(target.result)
       \/ disturbed /\ Served("OUT_OF_MEMORY")
    /\ path' = target.path /\ indexing' = FALSE
    /\ UNCHANGED <<code, status, fileVars, target, serving, size, fd, inode>>

\* realpath and stat of the document root.
ResolveRoot ==
    /\ at = "root"
    /\ \/ at' = "realpath" /\ UNCHANGED result
       \/ disturbed /\ Served("IO_ERROR")
    /\ UNCHANGED <<res, open, code, status, pathVars, fileVars, fd, inode>>

\* Variant: an index that is not there is a file that is not there.
ResolveFailsPlain(r) == Served(r)

\* What resolve_under_root returns, as static_files_serve passes it on: an index
\* that is not there is forbidden.
ResolveFails(r) == Served(IF indexing /\ r = "NOT_FOUND" THEN "FORBIDDEN" ELSE r)

\* ENOENT, EACCES, a canonical path outside the root, or found; any other error
\* counts as not found, and a joined path that is too long is a bad target.
Realpath ==
    /\ at = "realpath"
    /\ LET n == Lookup(path) IN
        \/ n.kind = "absent" /\ ResolveFails("NOT_FOUND")
        \/ n.kind = "denied" /\ ResolveFails("FORBIDDEN")
        \/ n.kind \notin {"absent", "denied"} /\ ~n.inside /\ ResolveFails("FORBIDDEN")
        \/ n.kind \notin {"absent", "denied"} /\ n.inside /\ at' = "stat" /\ UNCHANGED result
        \/ disturbed /\ \E r \in {"NOT_FOUND", "BAD_TARGET"} : ResolveFails(r)
    /\ UNCHANGED <<res, open, code, status, pathVars, fileVars, fd, inode>>

Special == {"device", "fifo"}

\* resolve_under_root after realpath; an index must not be a directory (try_index).
StatFailure(n) ==
    IF n.kind = "absent" THEN "NOT_FOUND"
    ELSE IF n.kind \in {"denied"} \cup Special \/ (n.kind = "directory" /\ indexing) THEN "FORBIDDEN"
    ELSE IF n.kind # "directory" /\ n.size > MaxFile THEN "TOO_LARGE"
    ELSE "OK"

StatFails ==
    /\ at = "stat"
    /\ \/ StatFailure(Lookup(path)) # "OK" /\ ResolveFails(StatFailure(Lookup(path)))
       \/ disturbed /\ \E r \in {"IO_ERROR", "OUT_OF_MEMORY"} : ResolveFails(r)
    /\ UNCHANGED <<res, open, code, status, pathVars, fileVars, fd, inode>>

StatFile ==
    /\ at = "stat"
    /\ StatFailure(Lookup(path)) = "OK" /\ Lookup(path).kind # "directory"
    /\ size' = Lookup(path).size
    /\ at' = "open"
    /\ UNCHANGED <<res, open, code, status, target, serving, path, indexing, fileVars, fd, result, inode>>

\* try_index.
StatDirectory ==
    /\ at = "stat"
    /\ StatFailure(Lookup(path)) = "OK" /\ Lookup(path).kind = "directory"
    /\ path' = Index(path) /\ indexing' = TRUE
    /\ at' = "realpath"
    /\ UNCHANGED <<res, open, code, status, target, serving, size, fileVars, fd, result, inode>>

-----------------------------------------------------------------------------
(* fill_file_response.                                                     *)

Header200 == [Blank EXCEPT !.status = 200, !.type = TRUE]

\* Any descriptor that is free: other threads have files open, too.
Opens ==
    /\ fd' \in Fds \ open
    /\ open' = (open \ Held(res[serving])) \cup {fd'}
    /\ inode' = [inode EXCEPT ![fd'] = Lookup(path)]
    /\ res' = [res EXCEPT ![serving] = Header200]
    /\ at' = "fstat"
    /\ UNCHANGED <<code, status, pathVars, fileVars, result>>

Openable(n) == n.kind \notin {"absent", "denied", "unreadable"}

Open == at = "open" /\ Openable(Lookup(path)) /\ Lookup(path).kind # "fifo" /\ Opens

\* open waits until some process opens the other end.
OpenFifo == at = "open" /\ Lookup(path).kind = "fifo" /\ Opens

\* The header may fail too; the response is destroyed in every case.
OpenFails ==
    /\ at = "open"
    /\ \/ Lookup(path).kind = "absent" /\ Served("NOT_FOUND")
       \/ Lookup(path).kind \in {"denied", "unreadable"} /\ Served("FORBIDDEN")
       \/ disturbed /\ \E r \in {"OUT_OF_MEMORY", "IO_ERROR"} : Served(r)
    /\ Replace(serving, Blank)
    /\ UNCHANGED <<code, status, pathVars, fileVars, fd, inode>>

FstatFailure(n) ==
    IF n.kind # "regular" THEN "FORBIDDEN"
    ELSE IF n.size > MaxFile THEN "TOO_LARGE"
    ELSE "OK"

FstatFails ==
    /\ at = "fstat"
    /\ \/ FstatFailure(inode[fd]) # "OK" /\ Served(FstatFailure(inode[fd]))
       \/ disturbed /\ Served("IO_ERROR")
    /\ res' = [res EXCEPT ![serving] = Blank]
    /\ open' = open \ {fd}
    /\ fd' = NoFd
    /\ UNCHANGED <<code, status, pathVars, fileVars, inode>>

\* Variant: the size found before the file was opened.
AttachEarlierSize ==
    /\ at = "fstat" /\ FstatFailure(inode[fd]) = "OK"
    /\ res' = [res EXCEPT ![serving].body = File(fd, size)]
    /\ fd' = NoFd
    /\ Served("OK")
    /\ UNCHANGED <<open, code, status, pathVars, fileVars, inode>>

\* http_response_set_file_body: the response owns the file.
Attach ==
    /\ at = "fstat" /\ FstatFailure(inode[fd]) = "OK"
    /\ res' = [res EXCEPT ![serving].body = File(fd, inode[fd].size)]
    /\ fd' = NoFd
    /\ Served("OK")
    /\ UNCHANGED <<open, code, status, pathVars, fileVars, inode>>

-----------------------------------------------------------------------------
(* The callers: handle_static_get_head, build_static_error_response and    *)
(* static_files_build_not_found.                                           *)

StatusForStaticResult ==
    [NOT_FOUND |-> 404, FORBIDDEN |-> 403, BAD_TARGET |-> 400, TOO_LARGE |-> 413,
     OUT_OF_MEMORY |-> 500, IO_ERROR |-> 500]

HandleStatic ==
    /\ at = "served" /\ serving = "response"
    /\ IF result = "OK" THEN status' = 200 /\ at' = "done" /\ UNCHANGED code
       ELSE code' = StatusForStaticResult[result] /\ at' = "error" /\ UNCHANGED status
    /\ UNCHANGED <<res, open, pathVars, fileVars, fd, result, inode>>

BuildStaticError ==
    /\ at = "error"
    /\ Replace("response", Blank)
    /\ IF code = 404
       THEN at' = "serve" /\ serving' = "page" /\ target' = Page
       ELSE at' = "build_error" /\ UNCHANGED <<serving, target>>
    /\ UNCHANGED <<code, status, path, indexing, size, fileVars, fd, result, inode>>

\* Variant: the page is destroyed after it was copied.
PageBecomesResponseClosed ==
    /\ at = "served" /\ serving = "page" /\ result = "OK"
    /\ res' = [res EXCEPT !["response"] = [res["page"] EXCEPT !.status = 404], !["page"] = Blank]
    /\ open' = open \ Held(res["page"])
    /\ status' = 404 /\ at' = "done"
    /\ UNCHANGED <<code, pathVars, fileVars, fd, result, inode>>

\* Variant: the status of the page is kept.
PageBecomesResponse200 ==
    /\ at = "served" /\ serving = "page" /\ result = "OK"
    /\ res' = [res EXCEPT !["response"] = res["page"], !["page"] = Blank]
    /\ open' = open \ Held(res["response"])
    /\ status' = 404 /\ at' = "done"
    /\ UNCHANGED <<code, pathVars, fileVars, fd, result, inode>>

\* The page is copied into the response, with the file it owns, and forgotten.
PageBecomesResponse ==
    /\ at = "served" /\ serving = "page" /\ result = "OK"
    /\ res' = [res EXCEPT !["response"] = [res["page"] EXCEPT !.status = 404], !["page"] = Blank]
    /\ open' = open \ Held(res["response"])
    /\ status' = 404 /\ at' = "done"
    /\ UNCHANGED <<code, pathVars, fileVars, fd, result, inode>>

\* Variant: a page that is missing is looked for like any missing file.
PageFailsAgain ==
    /\ at = "served" /\ serving = "page" /\ result # "OK"
    /\ Replace("page", Blank)
    /\ at' = IF result = "NOT_FOUND" THEN "error" ELSE "build_error"
    /\ UNCHANGED <<code, status, pathVars, fileVars, fd, result, inode>>

PageFails ==
    /\ at = "served" /\ serving = "page" /\ result # "OK"
    /\ Replace("page", Blank)
    /\ at' = "build_error"
    /\ UNCHANGED <<code, status, pathVars, fileVars, fd, result, inode>>

StaticStep ==
    \/ Serve \/ ResolveRoot \/ Realpath \/ StatFails \/ StatFile \/ StatDirectory
    \/ Open \/ OpenFails \/ FstatFails \/ Attach
    \/ HandleStatic \/ BuildStaticError \/ PageBecomesResponse \/ PageFails
=============================================================================
