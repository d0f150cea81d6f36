--------------------------- MODULE DispatchProofs ---------------------------
(***************************************************************************)
(* For every file system, every change of it, every sequence of requests   *)
(* and every failure: an open file has one owner, a response describes the *)
(* file it owns, and a failed static_files_serve leaves an empty response; *)
(* the response has the status that is returned, an API request gets the   *)
(* answer of the route table, and a static target the file it names or the *)
(* page for what went wrong.                                               *)
(***************************************************************************)
EXTENDS Dispatch, TLAPS

Objects == {"response", "page"}

Bodies == [kind : {"none", "memory", "file"}, fd : Fds \cup {NoFd}, length : Nat]
Responses == [status : Int, type : BOOLEAN, allow : SUBSET Methods, body : Bodies]

Results == {"OK", "NOT_FOUND", "FORBIDDEN", "BAD_TARGET", "TOO_LARGE", "OUT_OF_MEMORY", "IO_ERROR"}

Types ==
    /\ res \in [Objects -> Responses]
    /\ open \subseteq Fds
    /\ fd \in Fds \cup {NoFd}
    /\ code \in Int /\ status \in Int
    /\ fs \in [DOMAIN fs -> NodeSet]
    /\ inode \in [Fds -> NodeSet]
    /\ serving \in Objects
    /\ result \in Results
    /\ target.result \in {"OK", "BAD_TARGET", "FORBIDDEN"}

\* Which of the objects and locals can hold a file at each place.
Places ==
    /\ at \notin {"served", "done"} => Held(res["response"]) = {} /\ Held(res["page"]) = {}
    /\ at = "served" => \A r \in Objects : r # serving => Held(res[r]) = {}
    /\ at = "served" /\ result # "OK" => res[serving] = Blank
    /\ at \in {"root", "realpath", "stat", "open"} => res[serving] = Blank
    /\ at = "done" => Held(res["page"]) = {}
    /\ at = "fstat" <=> fd # NoFd

Owned == open = Held(res["response"]) \cup Held(res["page"]) \cup ({fd} \ {NoFd})

FileHasFd == \A r \in Objects : res[r].body.kind = "file" <=> res[r].body.fd # NoFd

\* Inductive.
Inv == Types /\ Places /\ Owned /\ FileHasFd /\ LengthIsOfOpenFile

\* A response without a file.
Fileless(x) == x \in Responses /\ x.body.kind # "file" /\ x.body.fd = NoFd

\* The empty response and everything built in memory hold no file.
LEMMA FilelessResponses ==
    /\ Fileless(Blank) /\ Fileless(Header200)
    /\ \A st \in Int : /\ Fileless(Built(st))
                       /\ \A left \in Unfinished(st) : Fileless(left)
                       /\ Fileless([Built(st) EXCEPT !.body = NoBody])
                       /\ Fileless([Built(st) EXCEPT !.body = Memory])
                       /\ \A S \in SUBSET Methods : Fileless([Built(st) EXCEPT !.allow = S])
  <1>1. /\ NoBody \in Bodies /\ NoBody.kind # "file" /\ NoBody.fd = NoFd
        /\ Memory \in Bodies /\ Memory.kind # "file" /\ Memory.fd = NoFd
    BY Zenon DEF NoBody, Memory, Bodies
  <1>2. Fileless(Blank)
    BY <1>1 DEF Fileless, Blank, Responses
  <1>3. ASSUME NEW x, Fileless(x)
        PROVE  /\ Fileless([x EXCEPT !.body = NoBody]) /\ Fileless([x EXCEPT !.body = Memory])
               /\ Fileless([x EXCEPT !.type = TRUE])
               /\ \A st \in Int : Fileless([x EXCEPT !.status = st])
               /\ \A S \in SUBSET Methods : Fileless([x EXCEPT !.allow = S])
    BY <1>1, <1>3, Zenon DEF Fileless, Responses
  <1>4. ASSUME NEW st \in Int
        PROVE  /\ Fileless([Blank EXCEPT !.status = st])
               /\ Fileless([Blank EXCEPT !.status = st, !.body = Memory])
               /\ Fileless([Blank EXCEPT !.status = st, !.type = TRUE])
               /\ Fileless([Blank EXCEPT !.status = st, !.body = Memory, !.type = TRUE])
    BY <1>2, <1>1, Zenon DEF Fileless, Responses
  <1>5. Fileless(Header200)
    <2>1. 200 \in Int
      OBVIOUS
    <2> QED
      BY <2>1, <1>4, ZenonT(60) DEF Header200
  <1>6. ASSUME NEW st \in Int
        PROVE  Fileless(Built(st)) /\ \A left \in Unfinished(st) : Fileless(left)
    BY <1>4, Zenon DEF Built, Unfinished
  <1> QED
    BY <1>2, <1>3, <1>5, <1>6, Zenon

\* What is found at a path is a node.
LEMMA LookupType ==
    ASSUME Types, NEW p
    PROVE  Lookup(p) \in NodeSet
  BY Zenon DEF Types, Lookup, Nothing, NodeSet

\* Destroying an object and putting a response without a file into it closes the
\* file it held and touches no other.
LEMMA ReplaceStep ==
    ASSUME Types, Owned, FileHasFd, LengthIsOfOpenFile,
           NEW r \in Objects, NEW x, Fileless(x),
           Replace(r, x), fd' = fd,
           \A d \in open' : inode'[d] = inode[d],
           \A q \in Objects : q # r => Held(res[q]) = {} \/ Held(res[r]) = {},
           at # "fstat", Places
    PROVE  /\ res' \in [Objects -> Responses] /\ open' \subseteq Fds
           /\ res'[r] = x /\ Held(res'[r]) = {}
           /\ \A q \in Objects : q # r => res'[q] = res[q]
           /\ Owned' /\ FileHasFd' /\ LengthIsOfOpenFile'
  <1>1. /\ res' \in [Objects -> Responses] /\ res'[r] = x
        /\ \A q \in Objects : q # r => res'[q] = res[q]
    BY Zenon DEF Types, Replace, Fileless
  <1>2. open' = open \ Held(res[r]) /\ open' \subseteq Fds
    BY Zenon DEF Types, Replace
  <1>3. Held(res'[r]) = {}
    BY <1>1, Zenon DEF Fileless, Held
  <1>4. fd = NoFd
    BY Zenon DEF Places
  <1>5. FileHasFd'
    BY <1>1 DEF FileHasFd, Fileless
  <1>6. Owned'
    <2>1. CASE r = "response"
      BY <2>1, <1>1, <1>2, <1>3, <1>4, Zenon DEF Owned, Objects
    <2>2. CASE r = "page"
      BY <2>2, <1>1, <1>2, <1>3, <1>4, Zenon DEF Owned, Objects
    <2> QED
      BY <2>1, <2>2, Zenon DEF Objects
  <1>7. LengthIsOfOpenFile'
    <2> SUFFICES ASSUME NEW q \in Objects, res'[q].body.kind = "file"
                 PROVE  LET n == inode'[res'[q].body.fd] IN
                            n.kind = "regular" /\ res'[q].body.length = n.size /\ n.size <= MaxFile
      BY <1>1, Zenon DEF LengthIsOfOpenFile
    <2>1. q # r /\ res'[q] = res[q]
      BY <1>1, Zenon DEF Fileless
    <2>2. res[q].body.fd \in open'
      BY <2>1, <1>1, <1>6, <1>5, Zenon DEF Owned, Held, FileHasFd, Objects
    <2>3. inode'[res'[q].body.fd] = inode[res[q].body.fd]
      BY <2>1, <2>2, Zenon
    <2> QED
      BY <2>1, <2>3, ZenonT(60) DEF LengthIsOfOpenFile, Types
  <1> QED
    BY <1>1, <1>2, <1>3, <1>5, <1>6, <1>7, Zenon
\* Nothing is open at the start.
LEMMA InitInv == Init => Inv
  <1> SUFFICES ASSUME Init PROVE Inv
    BY Zenon
  <1>1. res \in [Objects -> Responses] /\ \A r \in Objects : res[r] = Blank
    BY FilelessResponses, Zenon DEF Init, Objects, Fileless
  <1>2. Held(Blank) = {} /\ Blank.body.kind = "none" /\ Blank.body.fd = NoFd
    BY Zenon DEF Held, Blank, NoBody
  <1>3. Nothing \in NodeSet /\ Page.result = "OK"
    BY Zenon DEF Nothing, NodeSet, Page
  <1>4. Types
    BY <1>1, <1>3, NodesAssumption DEF Init, Types, Results, Objects, NoFd
  <1>5. Places /\ Owned
    BY <1>1, <1>2, Zenon DEF Init, Places, Owned, Objects
  <1>6. FileHasFd /\ LengthIsOfOpenFile
    BY <1>1, <1>2, Zenon DEF FileHasFd, LengthIsOfOpenFile, Types
  <1> QED
    BY <1>4, <1>5, <1>6, Zenon DEF Inv

\* A step that leaves objects, descriptors and files alone.
LEMMA QuietStep ==
    ASSUME Inv, UNCHANGED <<res, open, fd, inode>>
    PROVE  /\ Owned' /\ FileHasFd' /\ LengthIsOfOpenFile'
           /\ res' \in [Objects -> Responses] /\ open' \subseteq Fds /\ fd' \in Fds \cup {NoFd}
           /\ inode' \in [Fds -> NodeSet]
           /\ Held(res["response"])' = Held(res["response"]) /\ Held(res["page"])' = Held(res["page"])
  BY Zenon DEF Inv, Types, Owned, FileHasFd, LengthIsOfOpenFile, Held

\* A request begins; other processes change files.
LEMMA OutsideStep ==
    ASSUME Inv, (\E r \in Requests : Start(r)) \/ (OtherProcess /\ UNCHANGED request)
    PROVE  Inv'
  <1>1. ASSUME NEW r \in Requests, Start(r) PROVE Inv'
    <2>1. UNCHANGED <<res, open, fd, inode, result, fs, status>>
      BY <1>1, Zenon DEF Start, fileVars
    <2>2. Types'
      <3>1. target'.result = r.normal /\ serving' = "response"
        BY <1>1, Zenon DEF Start
      <3>2. code' \in Int
        <4>1. ~Parses(r) => StatusForResult[r.received] \in Int
          BY RequestsAssumption DEF Parses, StatusForResult
        <4> QED
          BY <1>1, <4>1 DEF Start, Inv, Types
      <3> QED
        BY <2>1, <3>1, <3>2, QuietStep, RequestsAssumption, Zenon DEF Inv, Types, Objects
    <2>3. Places'
      BY <1>1, <2>1, QuietStep DEF Inv, Places, Start
    <2> QED
      BY <2>1, <2>2, <2>3, QuietStep, Zenon DEF Inv
  <1>2. ASSUME OtherProcess PROVE Inv'
    <2>1. UNCHANGED <<at, res, open, fd, inode, code, status, target, serving, result>>
      BY <1>2, Zenon DEF OtherProcess, pathVars
    <2>2. Types'
      <3>1. PICK p \in DOMAIN fs, n \in Nodes : fs' = [fs EXCEPT ![p] = n]
        BY <1>2, Zenon DEF OtherProcess
      <3>2. fs' \in [DOMAIN fs' -> NodeSet]
        BY <3>1, NodesAssumption, Zenon DEF Inv, Types
      <3> QED
        BY <2>1, <3>2, Zenon DEF Inv, Types
    <2>3. Places'
      BY <2>1, Zenon DEF Inv, Places, Held
    <2> QED
      BY <2>1, <2>2, <2>3, QuietStep, Zenon DEF Inv
  <1> QED
    BY <1>1, <1>2, Zenon

\* The router and the error pages replace the response by one in memory.
LEMMA MemoryStep ==
    ASSUME Inv, Route \/ Error
    PROVE  Inv'
  <1>1. UNCHANGED <<fd, inode, result, fs, target, serving>>
    BY Zenon DEF Route, Error, pathVars, fileVars
  <1>2. PICK x : Fileless(x) /\ Replace("response", x)
    <2>1. 200 \in Int /\ 404 \in Int /\ 405 \in Int /\ code \in Int
      BY DEF Inv, Types
    <2>2. ASSUME NEW st \in Int, NEW left \in Unfinished(st), RouterError(left)
          PROVE  \E x : Fileless(x) /\ Replace("response", x)
      BY <2>2, FilelessResponses, Zenon DEF RouterError
    <2>3. CASE CallHandler
      <3>1. CASE \E left \in Unfinished(200) : RouterError(left)
        BY <3>1, <2>1, <2>2, ZenonT(60)
      <3>2. CASE \E b \in {Memory, NoBody} : Handled([Built(200) EXCEPT !.body = b])
        <4>1. PICK b \in {Memory, NoBody} : Handled([Built(200) EXCEPT !.body = b])
          BY <3>2, Zenon
        <4>2. Fileless([Built(200) EXCEPT !.body = b])
          BY <2>1, FilelessResponses, ZenonT(60)
        <4>3. Replace("response", [Built(200) EXCEPT !.body = b])
          BY <4>1, Zenon DEF Handled
        <4> QED
          BY <4>2, <4>3, Zenon
      <3> QED
        BY <2>3, <3>1, <3>2, ZenonT(60) DEF CallHandler
    <2>4. CASE MethodNotAllowed
      <3>1. AllowHeader(request.path) \in SUBSET Methods
        <4>1. ASSUME NEW i
              PROVE  (IF ROUTES[i].method = "GET" THEN {"GET", "HEAD"}
                      ELSE {ROUTES[i].method} \cap {"POST"}) \subseteq Methods
          BY Zenon DEF Methods
        <4>2. AllowHeader(request.path) \subseteq Methods
          BY <4>1, Zenon DEF AllowHeader
        <4> QED
          BY <4>2, Zenon
      <3>2. CASE Handled([Built(405) EXCEPT !.allow = AllowHeader(request.path)])
        <4>1. Fileless([Built(405) EXCEPT !.allow = AllowHeader(request.path)])
          <5>1. Fileless(Built(405))
            BY <2>1, FilelessResponses, ZenonT(60)
          <5> QED
            BY <5>1, <3>1 DEF Fileless, Responses
        <4>2. Replace("response", [Built(405) EXCEPT !.allow = AllowHeader(request.path)])
          BY <3>2, Zenon DEF Handled
        <4> QED
          BY <4>1, <4>2, ZenonT(60)
      <3>3. CASE \E left \in Unfinished(405) : RouterError(left)
        BY <3>3, <2>1, <2>2
      <3>4. CASE RouterError(Built(405))
        BY <3>4, <2>1, FilelessResponses, ZenonT(60) DEF RouterError
      <3> QED
        BY <2>4, <3>2, <3>3, <3>4 DEF MethodNotAllowed
    <2>5. CASE NotFound
      <3>1. CASE Handled(Built(404))
        BY <3>1, <2>1, FilelessResponses, ZenonT(60) DEF Handled
      <3>2. CASE \E left \in Unfinished(404) : RouterError(left)
        BY <3>2, <2>1, <2>2
      <3> QED
        BY <2>5, <3>1, <3>2, ZenonT(60) DEF NotFound
    <2>6. CASE ErrorPage
      BY <2>6, <2>1, FilelessResponses, ZenonT(60) DEF ErrorPage, BuildError, BuildErrorFails, BuildText, BuildTextFails
    <2> QED
      BY <2>3, <2>4, <2>5, <2>6, Zenon DEF Route, RouterDispatch, Error
  <1>3. /\ at \in {"route", "build_error", "build_text"}
        /\ at' \in {"done", "error", "build_text"}
    BY ZenonT(60) DEF Route, RouterDispatch, CallHandler, MethodNotAllowed, NotFound, Handled, RouterError,
           Error, ErrorPage, BuildError, BuildErrorFails, BuildText, BuildTextFails
  <1>4. code' \in Int /\ status' \in Int
    <2>1. CASE Error
      BY <2>1 DEF Error, ErrorPage, BuildError, BuildErrorFails, BuildText, BuildTextFails, Inv, Types
    <2>2. CASE Route
      <3>0. (\E y : Handled(y)) \/ (\E y : RouterError(y))
        BY <2>2, ZenonT(60) DEF Route, RouterDispatch, CallHandler, MethodNotAllowed, NotFound
      <3>1. code' \in Int /\ (status' = status \/ status' = res'["response"].status)
        BY <3>0 DEF Handled, RouterError, Replace, Inv, Types, Objects
      <3>2. res' \in [Objects -> Responses]
        BY <1>2, Zenon DEF Replace, Fileless, Inv, Types
      <3> QED
        BY <3>1, <3>2, Zenon DEF Inv, Types, Responses, Objects
    <2> QED
      BY <2>1, <2>2, Zenon
  <1>5. /\ res' \in [Objects -> Responses] /\ open' \subseteq Fds
        /\ Held(res'["response"]) = {} /\ res'["page"] = res["page"]
        /\ Owned' /\ FileHasFd' /\ LengthIsOfOpenFile'
    BY <1>1, <1>2, <1>3, ReplaceStep, Zenon DEF Inv, Places, Objects
  <1>6. Types'
    BY <1>1, <1>4, <1>5, Zenon DEF Inv, Types
  <1>7. Places'
    BY <1>1, <1>3, <1>5, Zenon DEF Inv, Places
  <1> QED
    BY <1>5, <1>6, <1>7, Zenon DEF Inv

\* Looking for the file: objects and descriptors are left alone.
LEMMA ResolveStep ==
    ASSUME Inv, ResolveRoot \/ Realpath \/ StatFails \/ StatFile \/ StatDirectory
    PROVE  Inv'
  <1>1. UNCHANGED <<res, open, fd, inode, code, status, fs, target, serving>>
    BY Zenon DEF ResolveRoot, Realpath, StatFails, StatFile, StatDirectory, pathVars, fileVars
  <1>2. at \in {"root", "realpath", "stat"} /\ at' \in {"realpath", "stat", "open", "served"}
    BY Zenon DEF ResolveRoot, Realpath, StatFails, StatFile, StatDirectory, ResolveFails, Served
  <1>3. result' \in Results
    <2>1. CASE ResolveRoot \/ StatFile \/ StatDirectory
      BY <2>1, Zenon DEF ResolveRoot, StatFile, StatDirectory, Served, Results, Inv, Types
    <2>2. CASE Realpath
      BY <2>2, Zenon DEF Realpath, ResolveFails, Served, Results, Inv, Types
    <2>3. CASE StatFails
      BY <2>3, Zenon DEF StatFails, StatFailure, ResolveFails, Served, Results
    <2> QED
      BY <2>1, <2>2, <2>3, Zenon
  <1>4. Types'
    BY <1>1, <1>3, QuietStep, Zenon DEF Inv, Types
  <1>5. Places'
    BY <1>1, <1>2, QuietStep, Zenon DEF Inv, Places, Objects
  <1> QED
    BY <1>1, <1>4, <1>5, QuietStep, Zenon DEF Inv

\* handle_static_get_head goes on with the response or the status of its error.
LEMMA HandleStep ==
    ASSUME Inv, HandleStatic
    PROVE  Inv'
  <1>1. /\ UNCHANGED <<res, open, fd, inode, fs, target, serving, result>>
        /\ at = "served" /\ serving = "response"
    BY Zenon DEF HandleStatic, pathVars, fileVars
  <1>2. code' \in Int /\ status' \in Int
    BY DEF HandleStatic, StatusForStaticResult, Inv, Types, Results
  <1>3. Types'
    BY <1>1, <1>2, QuietStep, Zenon DEF Inv, Types
  <1>4. Held(Blank) = {}
    BY Zenon DEF Held, Blank, NoBody
  <1>5. Places'
    BY <1>1, <1>4, QuietStep, ZenonT(60) DEF Inv, Places, Objects, HandleStatic
  <1> QED
    BY <1>1, <1>3, <1>5, QuietStep, Zenon DEF Inv

\* static_files_serve begins, open fails, an error page begins, the 404 page is not
\* to be had, or a request is over: an object is emptied.
LEMMA EmptyStep ==
    ASSUME Inv, Serve \/ OpenFails \/ BuildStaticError \/ PageFails \/ DestroyResponse
    PROVE  Inv'
  <1> DEFINE r == IF Serve \/ OpenFails THEN serving ELSE IF PageFails THEN "page" ELSE "response"
  <1>1. Fileless(Blank) /\ Held(Blank) = {}
    BY FilelessResponses, ZenonT(60) DEF Held, Blank, NoBody
  <1>2. /\ at \in {"serve", "open", "error", "served", "done"}
        /\ at = "served" => PageFails /\ serving = "page" /\ result # "OK"
        /\ at = "done" => DestroyResponse
    BY Zenon DEF Serve, OpenFails, BuildStaticError, PageFails, DestroyResponse
  <1>3. r \in Objects /\ Replace(r, Blank) /\ fd' = fd
    <2>1. CASE Serve \/ OpenFails
      BY <2>1, Zenon DEF Serve, OpenFails, Inv, Types
    <2>2. CASE ~(Serve \/ OpenFails) /\ PageFails
      BY <2>2, Zenon DEF PageFails, Objects
    <2>3. CASE ~(Serve \/ OpenFails) /\ ~PageFails
      BY <2>3, Zenon DEF BuildStaticError, DestroyResponse, Objects
    <2> QED
      BY <2>1, <2>2, <2>3, Zenon
  <1>4. \A d \in open' : inode'[d] = inode[d]
    BY Zenon DEF Serve, OpenFails, BuildStaticError, PageFails, DestroyResponse, Replace, Inv, Types
  <1>5. \A q \in Objects : q # r => Held(res[q]) = {} \/ Held(res[r]) = {}
    <2>1. Held(res["page"]) = {} \/ Held(res["response"]) = {}
      BY <1>2, Zenon DEF Inv, Places, Objects
    <2> QED
      BY <1>3, <2>1, Zenon DEF Objects
  <1>6. /\ res' \in [Objects -> Responses] /\ open' \subseteq Fds
        /\ res'[r] = Blank /\ \A q \in Objects : q # r => res'[q] = res[q]
        /\ Owned' /\ FileHasFd' /\ LengthIsOfOpenFile'
    <2>1. at # "fstat"
      BY <1>2, Zenon
    <2> HIDE DEF r
    <2> QED
      BY <1>1, <1>3, <1>4, <1>5, <2>1, ReplaceStep, Zenon DEF Inv
  <1>7. Types'
    <2>1. inode' \in [Fds -> NodeSet]
      <3>1. CASE DestroyResponse
        BY <3>1, Zenon DEF DestroyResponse, Nothing, NodeSet, Inv, Types
      <3>2. CASE ~DestroyResponse
        BY <3>2, Zenon DEF Serve, OpenFails, BuildStaticError, PageFails, Inv, Types
      <3> QED
        BY <3>1, <3>2, Zenon
    <2>2. serving' \in Objects /\ target'.result \in {"OK", "BAD_TARGET", "FORBIDDEN"}
      BY DEF Serve, OpenFails, BuildStaticError, PageFails, DestroyResponse, pathVars, Page, Objects, Inv, Types
    <2>3. result' \in Results
      BY Zenon DEF Serve, OpenFails, BuildStaticError, PageFails, DestroyResponse, Served, Results, Inv, Types
    <2>4. code' \in Int /\ status' \in Int /\ fs' = fs
      BY DEF Serve, OpenFails, BuildStaticError, PageFails, DestroyResponse, fileVars, Inv, Types
    <2> QED
      BY <1>3, <1>6, <2>1, <2>2, <2>3, <2>4, Zenon DEF Inv, Types
  <1>8. Places'
    <2>1. Held(res'["response"]) = {} /\ Held(res'["page"]) = {}
      <3>1. \A q \in Objects : q # r => Held(res[q]) = {}
        <4>1. CASE at \in {"serve", "open", "error"}
          BY <4>1, Zenon DEF Inv, Places, Objects
        <4>2. CASE at = "served"
          <5>1. r = "page" /\ serving = "page"
            BY <4>2, <1>2, Zenon DEF Serve, OpenFails
          <5> QED
            BY <4>2, <5>1, Zenon DEF Inv, Places
        <4>3. CASE at = "done"
          <5>1. r = "response"
            BY <4>3, <1>2, Zenon DEF Serve, OpenFails, PageFails
          <5> QED
            BY <4>3, <5>1, Zenon DEF Inv, Places, Objects
        <4> QED
          BY <1>2, <4>1, <4>2, <4>3, Zenon
      <3> HIDE DEF r
      <3> QED
        BY <1>1, <1>6, <3>1, <1>3, Zenon DEF Objects
    <2>2. at' \in {"root", "served"} => serving' = r
      BY <1>2, ZenonT(60) DEF Serve, OpenFails, BuildStaticError, PageFails, DestroyResponse, pathVars
    <2>3. at' \in {"root", "served", "serve", "build_error", "idle"} /\ at # "fstat"
      BY <1>2, Zenon DEF Serve, OpenFails, BuildStaticError, PageFails, DestroyResponse, Served
    <2> HIDE DEF r
    <2> QED
      BY <1>3, <1>6, <2>1, <2>2, <2>3, Zenon DEF Inv, Places, Objects
  <1> QED
    BY <1>6, <1>7, <1>8, Zenon DEF Inv

\* The file is opened: the function is its only owner.
LEMMA OpenStep ==
    ASSUME Inv, at = "open", Opens
    PROVE  Inv'
  <1>1. /\ fd' \in Fds \ open /\ inode' = [inode EXCEPT ![fd'] = Lookup(path)]
        /\ at' = "fstat" /\ UNCHANGED <<code, status, fs, target, serving, result>>
    BY Zenon DEF Opens, pathVars, fileVars
  <1>2. Held(res["response"]) = {} /\ Held(res["page"]) = {} /\ open = {}
    BY Zenon DEF Inv, Places, Owned
  <1>3. open' = {fd'}
    BY <1>2, Zenon DEF Opens
  <1>4. fd' # NoFd
    BY <1>1, FdsAssumption DEF NoFd
  <1>5. /\ res' \in [Objects -> Responses]
        /\ \A q \in Objects : res'[q] = res[q] \/ res'[q] = Header200
    BY FilelessResponses, Zenon DEF Opens, Fileless, Inv, Types
  <1>6. \A q \in Objects : Fileless(res[q])
    BY <1>2, Zenon DEF Inv, Types, FileHasFd, Held, Objects, Fileless
  <1>7. \A q \in Objects : Fileless(res'[q])
    BY <1>5, <1>6, FilelessResponses, Zenon
  <1>8. Held(res'["response"]) = {} /\ Held(res'["page"]) = {}
    BY <1>7, Zenon DEF Held, Objects, Fileless
  <1>9. Types'
    <2>1. inode' \in [Fds -> NodeSet]
      BY <1>1, LookupType, Zenon DEF Inv, Types
    <2> QED
      BY <1>1, <1>3, <1>5, <2>1, Zenon DEF Inv, Types
  <1>10. Places' /\ Owned'
    BY <1>1, <1>3, <1>4, <1>8, Zenon DEF Places, Owned
  <1>11. FileHasFd' /\ LengthIsOfOpenFile'
    BY <1>5, <1>7, Zenon DEF FileHasFd, LengthIsOfOpenFile, Fileless
  <1> QED
    BY <1>9, <1>10, <1>11, Zenon DEF Inv

\* fstat refuses the file, which is closed, or the response becomes its owner.
LEMMA FstatStep ==
    ASSUME Inv, FstatFails \/ Attach
    PROVE  Inv'
  <1>1. /\ at = "fstat" /\ at' = "served" /\ fd' = NoFd
        /\ UNCHANGED <<code, status, fs, target, serving, inode>>
    BY Zenon DEF FstatFails, Attach, Served, pathVars, fileVars
  <1>2. /\ Held(res["response"]) = {} /\ Held(res["page"]) = {}
        /\ fd # NoFd /\ fd \in Fds /\ open = {fd}
    BY <1>1, Zenon DEF Inv, Types, Places, Owned
  <1>3. \A q \in Objects : Fileless(res[q])
    BY <1>2, Zenon DEF Inv, Types, FileHasFd, Held, Objects, Fileless
  <1>4. result' \in Results
    BY Zenon DEF FstatFails, Attach, Served, FstatFailure, Results
  <1>5. CASE FstatFails
    <2>1. /\ res' \in [Objects -> Responses] /\ res'[serving] = Blank
          /\ \A q \in Objects : Fileless(res'[q])
      BY <1>5, <1>3, FilelessResponses, Zenon DEF FstatFails, Inv, Types, Fileless
    <2>2. open' = {}
      BY <1>5, <1>2, Zenon DEF FstatFails
    <2>3. Held(res'["response"]) = {} /\ Held(res'["page"]) = {}
      BY <2>1, Zenon DEF Held, Objects, Fileless
    <2>4. Types'
      BY <1>1, <1>4, <2>1, <2>2, Zenon DEF Inv, Types
    <2>5. Places' /\ Owned'
      BY <1>1, <2>1, <2>2, <2>3, Zenon DEF Places, Owned, Objects
    <2>6. FileHasFd' /\ LengthIsOfOpenFile'
      BY <2>1, Zenon DEF FileHasFd, LengthIsOfOpenFile, Fileless
    <2> QED
      BY <2>4, <2>5, <2>6, Zenon DEF Inv
  <1>6. CASE Attach
    <2> DEFINE n == inode[fd]
    <2>1. n \in NodeSet /\ n.size \in Nat
      BY <1>2, Zenon DEF Inv, Types, NodeSet
    <2>2. n.kind = "regular" /\ n.size <= MaxFile
      <3>1. n.kind = "regular" /\ ~(n.size > MaxFile)
        BY <1>6, Zenon DEF Attach, FstatFailure
      <3> QED
        BY <3>1, <2>1, MaxFileAssumption
    <2>3. File(fd, n.size) \in Bodies
      BY <1>2, <2>1, Zenon DEF File, Bodies
    <2>4. /\ res' \in [Objects -> Responses] /\ res'[serving].body = File(fd, n.size)
          /\ \A q \in Objects : q # serving => res'[q] = res[q]
      BY <1>6, <2>3, ZenonT(60) DEF Attach, Inv, Types, Responses
    <2>5. open' = {fd} /\ result' = "OK"
      BY <1>6, <1>2, Zenon DEF Attach, Served
    <2>6. /\ File(fd, n.size).kind = "file" /\ File(fd, n.size).fd = fd
          /\ File(fd, n.size).length = n.size
      BY Zenon DEF File
    <2>7. Held(res'[serving]) = {fd} /\ \A q \in Objects : q # serving => Held(res'[q]) = {}
      <3>1. \A q \in Objects : Held(res[q]) = {}
        BY <1>2, Zenon DEF Objects
      <3> QED
        BY <1>2, <2>4, <2>6, <3>1, Zenon DEF Held
    <2>8. Types'
      BY <1>1, <1>4, <2>4, <2>5, <1>2, Zenon DEF Inv, Types
    <2>9. Places'
      BY <1>1, <2>5, <2>7, Zenon DEF Places
    <2>10. Owned'
      BY <1>1, <2>5, <2>7, Zenon DEF Owned, Objects, Inv, Types
    <2>11. FileHasFd'
      BY <1>2, <1>3, <2>4, <2>6, Zenon DEF FileHasFd, Fileless
    <2>12. LengthIsOfOpenFile'
      BY <1>1, <1>3, <2>2, <2>4, <2>6, Zenon DEF LengthIsOfOpenFile, Fileless
    <2> QED
      BY <2>8, <2>9, <2>10, <2>11, <2>12, Zenon DEF Inv
  <1> QED
    BY <1>5, <1>6, Zenon

\* static_files_build_not_found copies the page: the file changes its owner.
LEMMA PageStep ==
    ASSUME Inv, PageBecomesResponse
    PROVE  Inv'
  <1>1. /\ at = "served" /\ serving = "page" /\ result = "OK" /\ at' = "done"
        /\ status' = 404
        /\ UNCHANGED <<code, fs, target, serving, inode, fd, result>>
    BY Zenon DEF PageBecomesResponse, pathVars, fileVars
  <1>2. Held(res["response"]) = {} /\ fd = NoFd /\ open' = open
    BY <1>1, Zenon DEF Inv, Places, Objects, PageBecomesResponse
  <1>3. /\ res' \in [Objects -> Responses]
        /\ res'["response"].body = res["page"].body /\ res'["page"] = Blank
    BY FilelessResponses DEF PageBecomesResponse, Inv, Types, Objects, Responses, Fileless
  <1>4. Held(res'["response"]) = Held(res["page"]) /\ Held(res'["page"]) = {}
    BY <1>3 DEF Held, Blank, NoBody
  <1>5. Types'
    BY <1>1, <1>2, <1>3, SMTT(60) DEF Inv, Types
  <1>6. Places' /\ Owned'
    BY <1>1, <1>2, <1>4, Zenon DEF Inv, Places, Owned
  <1>7. FileHasFd' /\ LengthIsOfOpenFile'
    <2>1. Blank.body.kind = "none" /\ Blank.body.fd = NoFd
      BY Zenon DEF Blank, NoBody
    <2>2. DOMAIN res' = Objects /\ DOMAIN res = Objects
      BY <1>3, Zenon DEF Inv, Types
    <2> QED
      BY <1>1, <1>3, <2>1, <2>2 DEF Inv, FileHasFd, LengthIsOfOpenFile, Objects
  <1> QED
    BY <1>5, <1>6, <1>7, Zenon DEF Inv

\* Every step keeps the invariant.
LEMMA InvStep == Inv /\ [Next]_vars => Inv'
  <1> SUFFICES ASSUME Inv, [Next]_vars PROVE Inv'
    BY Zenon
  <1>1. CASE UNCHANGED vars
    <2>1. UNCHANGED <<at, res, open, code, status, fs, target, serving, fd, result, inode>>
      BY <1>1, Zenon DEF vars, pathVars, fileVars
    <2>2. Types' /\ Places'
      BY <2>1, QuietStep, Zenon DEF Inv, Types, Places
    <2> QED
      BY <2>1, <2>2, QuietStep, Zenon DEF Inv
  <1>2. CASE Static
    BY <1>2, ResolveStep, HandleStep, EmptyStep, OpenStep, FstatStep, PageStep, Zenon DEF Static, StaticStep, Open
  <1>3. CASE OpenFifo
    BY <1>3, OpenStep, Zenon DEF OpenFifo
  <1> QED
    BY <1>1, <1>2, <1>3, OutsideStep, MemoryStep, EmptyStep, Zenon DEF Next, Step

\* Through static_files_serve, the copy of the 404 page, every failure and the reuse
\* of the response, an open file has exactly one owner.
THEOREM FilesHaveOneOwner == Spec => []OneOwnerPerFile
  <1>1. Inv => OneOwnerPerFile
    <2> SUFFICES ASSUME Inv PROVE OneOwnerPerFile
      BY Zenon
    <2>1. at # "fstat" => fd = NoFd
      BY Zenon DEF Inv, Places
    <2>2. Held(res["response"]) = {} \/ Held(res["page"]) = {}
      BY Zenon DEF Inv, Places, Types, Objects
    <2> QED
      BY <2>1, <2>2, Zenon DEF Inv, Owned, Places, OneOwnerPerFile
  <1> QED
    BY <1>1, InitInv, InvStep, PTL DEF Spec

\* fill_file_response: Content-Length is the size of the regular file that is open.
THEOREM LengthsAreOfOpenFiles == Spec => []LengthIsOfOpenFile
  <1>1. Inv => LengthIsOfOpenFile
    BY Zenon DEF Inv
  <1> QED
    BY <1>1, InitInv, InvStep, PTL DEF Spec

\* The contract in static_files.h: a failed static_files_serve leaves nothing.
THEOREM FailuresLeaveNothing == Spec => []EmptyOnFailure
  <1>1. Inv => EmptyOnFailure
    BY Zenon DEF Inv, Places, EmptyOnFailure
  <1> QED
    BY <1>1, InitInv, InvStep, PTL DEF Spec

-----------------------------------------------------------------------------
(* What the response says.                                                 *)

\* A file is attached to the header for 200 and to nothing else.
Faces ==
    /\ at = "fstat" => res[serving] = Header200
    /\ at = "served" /\ result = "OK" =>
          res[serving].body.kind = "file" /\ res[serving].status = 200
              /\ res[serving].type = TRUE /\ res[serving].allow = {}
    /\ StatusIsOfResponse

\* An API request is answered by the router or, when that fails, by the page for 500.
Api == Parses(request) /\ IsApiRequest(request.path)

ApiTrail ==
    /\ at = "idle" => request = NoRequest
    /\ at = "route" => Api /\ request.method \in Methods
    /\ Api => at \in {"route", "error", "build_error", "build_text", "done"}
    /\ Api /\ at \in {"error", "build_error", "build_text"} => code = 500
    /\ ApiAnswer

\* The table has GET and POST routes, and only the echo takes its path.
LEMMA RoutesTable ==
    /\ \A i \in DOMAIN ROUTES : ROUTES[i].method \in {"GET", "POST"}
    /\ \A i \in DOMAIN ROUTES : ROUTES[i].path = <<"api", "echo">> => ROUTES[i].method = "POST"
  <1>1. DOMAIN ROUTES = {1, 2, 3}
    BY DEF ROUTES
  <1>2. /\ ROUTES[1] = [method |-> "GET", path |-> <<"api", "health">>]
        /\ ROUTES[2] = [method |-> "POST", path |-> <<"api", "echo">>]
        /\ ROUTES[3] = [method |-> "GET", path |-> <<"api", "stats">>]
    BY Zenon DEF ROUTES
  <1>3. <<"api", "health">> # <<"api", "echo">> /\ <<"api", "stats">> # <<"api", "echo">>
    BY Zenon
  <1> QED
    BY <1>1, <1>2, <1>3

\* The methods the table as a whole takes for a path.
Taken(p) ==
    {m \in Methods : \E i \in DOMAIN ROUTES :
        /\ ROUTES[i].path = p
        /\ m = ROUTES[i].method \/ (m = "HEAD" /\ ROUTES[i].method = "GET")}

\* build_allow_header, the search for a compatible route and the search for the path
\* agree with it.
LEMMA RouterAgreesWithTable ==
    ASSUME NEW p
    PROVE  /\ \A m \in Methods : Compatible(p, m) <=> m \in Taken(p)
           /\ Matching(p) = {} <=> Taken(p) = {}
           /\ AllowHeader(p) = Taken(p)
  <1>1. ASSUME NEW m \in Methods PROVE Compatible(p, m) <=> m \in Taken(p)
    BY Zenon DEF Compatible, Taken, Matching, PathEquals, MethodCompatible
  <1>2. Matching(p) = {} <=> Taken(p) = {}
    <2>1. ASSUME NEW i \in Matching(p) PROVE ROUTES[i].method \in Taken(p)
      BY <2>1, RoutesTable, Zenon DEF Matching, Taken, PathEquals, Methods
    <2>2. ASSUME NEW m \in Taken(p) PROVE \E i : i \in Matching(p)
      BY <2>2, Zenon DEF Matching, Taken, PathEquals
    <2> QED
      BY <2>1, <2>2, Zenon
  <1>3. AllowHeader(p) = Taken(p)
    <2> DEFINE A(i) == IF ROUTES[i].method = "GET" THEN {"GET", "HEAD"}
                       ELSE {ROUTES[i].method} \cap {"POST"}
    <2>1. \A m : m \in AllowHeader(p) <=> \E i \in Matching(p) : m \in A(i)
      BY Zenon DEF AllowHeader
    <2>2. ASSUME NEW m, NEW i \in Matching(p), m \in A(i) PROVE m \in Taken(p)
      BY <2>2, Zenon DEF Matching, Taken, PathEquals, Methods
    <2>3. ASSUME NEW m \in Taken(p) PROVE \E i \in Matching(p) : m \in A(i)
      <3>1. PICK i \in DOMAIN ROUTES :
                /\ ROUTES[i].path = p
                /\ m = ROUTES[i].method \/ (m = "HEAD" /\ ROUTES[i].method = "GET")
        BY <2>3, Zenon DEF Taken
      <3>2. i \in Matching(p)
        BY <3>1, Zenon DEF Matching, PathEquals
      <3>3. m \in A(i)
        BY <3>1, RoutesTable, Zenon
      <3> QED
        BY <3>2, <3>3, Zenon
    <2> HIDE DEF A
    <2> QED
      BY <2>1, <2>2, <2>3, Zenon
  <1> QED
    BY <1>1, <1>2, <1>3, Zenon

\* A complete response: its status, the methods in Allow and the kind of its body.
Complete(x, st, allow, kind) ==
    /\ x.status = st /\ x.type = TRUE
    /\ x.allow = allow /\ x.body.kind = kind

\* What is built in memory is complete.
LEMMA BuiltComplete ==
    ASSUME NEW st
    PROVE  /\ Complete(Built(st), st, {}, "memory")
           /\ \A b : Complete([Built(st) EXCEPT !.body = b], st, {}, b.kind)
           /\ \A S : Complete([Built(st) EXCEPT !.allow = S], st, S, "memory")
  <1>1. Complete(Built(st), st, {}, "memory")
    BY Zenon DEF Built, Blank, Memory, Complete
  <1>2. ASSUME NEW b PROVE Complete([Built(st) EXCEPT !.body = b], st, {}, b.kind)
    BY Zenon DEF Built, Blank, Complete
  <1>3. ASSUME NEW S PROVE Complete([Built(st) EXCEPT !.allow = S], st, S, "memory")
    BY Zenon DEF Built, Blank, Memory, Complete
  <1> QED
    BY <1>1, <1>2, <1>3, Zenon

\* Who answers: the router with one of its responses, or an error page.
LEMMA RouteResult ==
    ASSUME Inv, Route
    PROVE  /\ at = "route" /\ UNCHANGED <<request, disturbed, target, serving, fs, inode>>
           /\ \/ at' = "error" /\ code' = 500 /\ disturbed
              \/ /\ at' = "done" /\ code' = code /\ status' = res'["response"].status
                 /\ \/ /\ Compatible(request.path, request.method)
                       /\ \/ Complete(res'["response"], 200, {}, "memory")
                          \/ /\ Complete(res'["response"], 200, {}, "none")
                             /\ request.path = <<"api", "echo">>
                    \/ /\ Matching(request.path) # {} /\ ~Compatible(request.path, request.method)
                       /\ Complete(res'["response"], 405, AllowHeader(request.path), "memory")
                    \/ /\ Matching(request.path) = {}
                       /\ Complete(res'["response"], 404, {}, "memory")
  <1>1. at = "route" /\ UNCHANGED <<request, disturbed, target, serving, fs, inode>>
    <2>1. UNCHANGED <<disturbed, target, serving, fs, inode>>
      BY Zenon DEF Route, pathVars, fileVars
    <2>2. at = "route" /\ request' = request
      BY ZenonT(60) DEF Route, RouterDispatch, CallHandler, MethodNotAllowed, NotFound, Handled, RouterError
    <2> QED
      BY <2>1, <2>2, Zenon
  <1>2. ASSUME NEW x, Handled(x)
        PROVE  at' = "done" /\ code' = code /\ res'["response"] = x /\ status' = res'["response"].status
    BY <1>2, Zenon DEF Handled, Replace, Inv, Types, Objects
  <1>3. ASSUME NEW x, RouterError(x) PROVE at' = "error" /\ code' = 500 /\ disturbed
    BY <1>3, Zenon DEF RouterError
  <1>4. CASE CallHandler
    <2>1. CASE \E x : RouterError(x)
      BY <2>1, <1>1, <1>3, ZenonT(60)
    <2>2. CASE ~\E x : RouterError(x)
      <3>1. /\ Compatible(request.path, request.method)
            /\ \E b \in {Memory} \cup (IF request.path = <<"api", "echo">> THEN {NoBody} ELSE {}) :
                  Handled([Built(200) EXCEPT !.body = b])
        BY <1>4, <2>2, Zenon DEF CallHandler
      <3>2. PICK b \in {Memory} \cup (IF request.path = <<"api", "echo">> THEN {NoBody} ELSE {}) :
                  Handled([Built(200) EXCEPT !.body = b])
        BY <3>1, Zenon
      <3>3. b.kind = "memory" \/ (b.kind = "none" /\ request.path = <<"api", "echo">>)
        BY <3>2 DEF Memory, NoBody
      <3>4. /\ at' = "done" /\ code' = code /\ status' = res'["response"].status
            /\ res'["response"] = [Built(200) EXCEPT !.body = b]
        BY <3>2, <1>2, ZenonT(60)
      <3>5. Complete(res'["response"], 200, {}, b.kind)
        <4>1. Complete([Built(200) EXCEPT !.body = b], 200, {}, b.kind)
          BY BuiltComplete, ZenonT(60)
        <4> QED
          BY <3>4, <4>1, Zenon
      <3> QED
        BY <1>1, <3>1, <3>3, <3>4, <3>5, ZenonT(60)
    <2> QED
      BY <2>1, <2>2, Zenon
  <1>5. CASE MethodNotAllowed
    <2>1. Matching(request.path) # {} /\ ~Compatible(request.path, request.method)
      BY <1>5, ZenonT(60) DEF MethodNotAllowed
    <2>2. CASE Handled([Built(405) EXCEPT !.allow = AllowHeader(request.path)])
      <3>1. /\ at' = "done" /\ code' = code /\ status' = res'["response"].status
            /\ res'["response"] = [Built(405) EXCEPT !.allow = AllowHeader(request.path)]
        BY <2>2, <1>2, ZenonT(60)
      <3>2. Complete(res'["response"], 405, AllowHeader(request.path), "memory")
        <4>1. Complete([Built(405) EXCEPT !.allow = AllowHeader(request.path)],
                       405, AllowHeader(request.path), "memory")
          BY BuiltComplete, ZenonT(60)
        <4> QED
          BY <3>1, <4>1, ZenonT(60)
      <3> QED
        BY <1>1, <2>1, <3>1, <3>2, Zenon
    <2>3. CASE \E x : RouterError(x)
      BY <2>3, <1>1, <1>3
    <2> QED
      BY <1>5, <2>2, <2>3, ZenonT(60) DEF MethodNotAllowed
  <1>6. CASE NotFound
    <2>1. CASE Handled(Built(404))
      <3>1. /\ at' = "done" /\ code' = code /\ status' = res'["response"].status
            /\ res'["response"] = Built(404)
        BY <2>1, <1>2, ZenonT(60)
      <3>2. Complete(res'["response"], 404, {}, "memory")
        <4>1. Complete(Built(404), 404, {}, "memory")
          BY BuiltComplete, ZenonT(60)
        <4> QED
          BY <3>1, <4>1, ZenonT(60)
      <3> QED
        BY <1>1, <1>6, <3>1, <3>2, ZenonT(60) DEF NotFound
    <2>2. CASE \E x : RouterError(x)
      BY <2>2, <1>1, <1>3
    <2> QED
      BY <1>6, <2>1, <2>2, ZenonT(60) DEF NotFound
  <1> QED
    BY <1>4, <1>5, <1>6, Zenon DEF Route, RouterDispatch

\* An error page is complete, or another is tried, or there is no answer.
LEMMA ErrorResult ==
    ASSUME Inv, Error
    PROVE  /\ at \in {"build_error", "build_text"}
           /\ UNCHANGED <<request, disturbed, code, target, serving, fs, inode, result>>
           /\ \/ at = "build_error" /\ at' = "build_text" /\ disturbed
              \/ at' = "done" /\ status' = -1 /\ disturbed
              \/ /\ at' = "done" /\ status' = code
                 /\ Complete(res'["response"], code, {}, "memory")
  <1>1. UNCHANGED <<request, disturbed, target, serving, fs, inode, result>>
    BY Zenon DEF Error, pathVars, fileVars
  <1>2. CASE BuildError \/ BuildText
    <2>1. /\ at \in {"build_error", "build_text"} /\ code' = code
          /\ at' = "done" /\ status' = code /\ res'["response"] = Built(code)
      BY <1>2, Zenon DEF BuildError, BuildText, Replace, Inv, Types, Objects
    <2>2. Complete(res'["response"], code, {}, "memory")
      <3>1. Complete(Built(code), code, {}, "memory")
        BY BuiltComplete, Zenon
      <3> QED
        BY <2>1, <3>1, Zenon
    <2> QED
      BY <1>1, <2>1, <2>2, Zenon
  <1>3. CASE BuildErrorFails \/ BuildTextFails
    BY <1>1, <1>3, Zenon DEF BuildErrorFails, BuildTextFails
  <1> QED
    BY <1>2, <1>3, Zenon DEF Error, ErrorPage

\* A static_files_serve that fails says so, or goes on.
LEMMA ServeResult ==
    ASSUME Inv, Serve \/ ResolveRoot \/ Realpath \/ StatFails \/ StatFile \/ StatDirectory
                \/ OpenFails \/ FstatFails
    PROVE  /\ UNCHANGED <<code, status, target, serving, fs, inode>>
           /\ at \in {"serve", "root", "realpath", "stat", "open", "fstat"}
           /\ \/ at' = "served" /\ result' # "OK"
              \/ at' \in {"root", "realpath", "stat", "open"}
  <1>1. CASE Serve
    BY <1>1, Zenon DEF Serve, Served, fileVars
  <1>2. CASE ResolveRoot \/ StatFile \/ StatDirectory
    BY <1>2, Zenon DEF ResolveRoot, StatFile, StatDirectory, Served, fileVars, pathVars
  <1>3. CASE Realpath
    BY <1>3, Zenon DEF Realpath, ResolveFails, Served, fileVars, pathVars
  <1>4. CASE StatFails
    BY <1>4, Zenon DEF StatFails, ResolveFails, Served, fileVars, pathVars
  <1>5. CASE OpenFails
    BY <1>5, Zenon DEF OpenFails, Served, fileVars, pathVars
  <1>6. CASE FstatFails
    BY <1>6, Zenon DEF FstatFails, Served, fileVars, pathVars
  <1> QED
    BY <1>1, <1>2, <1>3, <1>4, <1>5, <1>6, Zenon

\* The steps of static_files_serve and of its callers, by what they do to the response.
LEMMA StaticSplit ==
    ASSUME [Next]_vars
    PROVE  \/ UNCHANGED vars \/ (OtherProcess /\ request' = request)
           \/ \E r \in Requests : Start(r)
           \/ DestroyResponse \/ Route \/ Error
           \/ /\ UNCHANGED <<disturbed, request>>
              /\ \/ Serve \/ ResolveRoot \/ Realpath \/ StatFails \/ StatFile \/ StatDirectory
                          \/ OpenFails \/ FstatFails
                 \/ at = "open" /\ Opens
                 \/ Attach \/ HandleStatic \/ BuildStaticError \/ PageBecomesResponse \/ PageFails
  <1>1. CASE UNCHANGED vars
    BY <1>1, Zenon
  <1>2. CASE Static
    BY <1>2, Zenon DEF Static, StaticStep, Open
  <1>3. CASE OpenFifo /\ UNCHANGED <<disturbed, request>>
    BY <1>3, Zenon DEF OpenFifo
  <1> QED
    BY <1>1, <1>2, <1>3, Zenon DEF Next, Step

\* Every step keeps Faces.
LEMMA FacesStep == Inv /\ ApiTrail /\ Faces /\ [Next]_vars => Faces'
  <1> SUFFICES ASSUME Inv, ApiTrail, Faces, [Next]_vars PROVE Faces'
    BY Zenon
  <1>1. CASE UNCHANGED vars \/ (OtherProcess /\ request' = request)
    <2>1. UNCHANGED <<at, res, serving, result, status, request>>
      BY <1>1, Zenon DEF vars, OtherProcess, pathVars
    <2> QED
      BY <2>1 DEF Faces, StatusIsOfResponse
  <1>2. ASSUME at' \notin {"fstat", "served", "done"} \/ (at' = "served" /\ result' # "OK")
        PROVE  Faces'
    BY <1>2, ZenonT(60) DEF Faces, StatusIsOfResponse
  <1>3. CASE (\E r \in Requests : Start(r)) \/ DestroyResponse \/ BuildStaticError \/ PageFails
    BY <1>2, <1>3 DEF Start, DestroyResponse, BuildStaticError, PageFails
  <1>4. CASE Route
    <2>1. CASE at' = "error"
      BY <1>2, <2>1, Zenon
    <2>2. CASE at' # "error"
      <3>1. at' = "done" /\ status' = res'["response"].status /\ request' = request
        BY <1>4, <2>2, RouteResult, ZenonT(60)
      <3>2. CASE Complete(res'["response"], 200, {}, "memory") \/ Complete(res'["response"], 404, {}, "memory")
        BY <3>1, <3>2 DEF Complete, Faces, StatusIsOfResponse
      <3>3. CASE Complete(res'["response"], 405, AllowHeader(request.path), "memory")
        BY <3>1, <3>3, ZenonT(60) DEF Complete, Faces, StatusIsOfResponse
      <3>4. CASE /\ Compatible(request.path, request.method) /\ request.path = <<"api", "echo">>
                 /\ Complete(res'["response"], 200, {}, "none")
        <4>1. \E i \in DOMAIN ROUTES : /\ ROUTES[i].path = <<"api", "echo">>
                                       /\ MethodCompatible(ROUTES[i], request.method)
          BY <3>4, Zenon DEF Compatible, Matching, PathEquals
        <4>2. request.method = "POST"
          BY <4>1, RoutesTable, Zenon DEF MethodCompatible
        <4> QED
          BY <3>1, <3>4, <4>2, ZenonT(60) DEF Complete, Faces, StatusIsOfResponse
      <3> QED
        BY <1>4, <2>2, <3>2, <3>3, <3>4, RouteResult, ZenonT(60)
    <2> QED
      BY <2>1, <2>2, Zenon
  <1>5. CASE Error
    <2>1. CASE at' = "done" /\ status' = code /\ Complete(res'["response"], code, {}, "memory")
      BY <2>1, ZenonT(60) DEF Complete, Faces, StatusIsOfResponse
    <2>2. CASE at' = "done" /\ status' = -1
      BY <2>2 DEF Faces, StatusIsOfResponse
    <2>3. CASE at' = "build_text"
      BY <1>2, <2>3, Zenon
    <2> QED
      BY <1>5, <2>1, <2>2, <2>3, ErrorResult, Zenon
  <1>6. CASE Serve \/ ResolveRoot \/ Realpath \/ StatFails \/ StatFile \/ StatDirectory
                   \/ OpenFails \/ FstatFails
    <2>1. at' \in {"root", "realpath", "stat", "open"} \/ (at' = "served" /\ result' # "OK")
      BY <1>6, ServeResult, Zenon
    <2> QED
      BY <1>2, <2>1, Zenon
  <1>7. CASE Opens
    <2>1. at' = "fstat" /\ serving' = serving /\ res'[serving] = Header200
      BY <1>7, Zenon DEF Opens, pathVars, Inv, Types
    <2> QED
      BY <2>1, ZenonT(60) DEF Faces, StatusIsOfResponse
  <1>8. CASE Attach
    <2>1. at = "fstat" /\ at' = "served" /\ serving' = serving /\ res[serving] = Header200
      BY <1>8, Zenon DEF Attach, Served, pathVars, Faces
    <2>2. res'[serving] = [Header200 EXCEPT !.body = File(fd, inode[fd].size)]
      BY <1>8, <2>1, Zenon DEF Attach, Inv, Types
    <2>3. /\ res'[serving].status = 200 /\ res'[serving].type = TRUE
          /\ res'[serving].allow = {} /\ res'[serving].body.kind = "file"
      BY <2>2 DEF Header200, Blank, File
    <2> QED
      BY <2>1, <2>3, ZenonT(60) DEF Faces, StatusIsOfResponse
  <1>9. CASE HandleStatic
    <2>1. CASE result = "OK"
      <3>1. at = "served" /\ serving = "response" /\ at' = "done" /\ status' = 200 /\ res' = res
        BY <1>9, <2>1, Zenon DEF HandleStatic
      <3> QED
        BY <2>1, <3>1 DEF Faces, StatusIsOfResponse
    <2>2. CASE result # "OK"
      BY <1>2, <1>9, <2>2, Zenon DEF HandleStatic
    <2> QED
      BY <2>1, <2>2, Zenon
  <1>10. CASE PageBecomesResponse
    <2>1. /\ at = "served" /\ serving = "page" /\ result = "OK" /\ at' = "done" /\ status' = 404
          /\ res'["response"] = [res["page"] EXCEPT !.status = 404]
      BY <1>10, ZenonT(60) DEF PageBecomesResponse, Inv, Types, Objects
    <2>2. /\ res["page"] \in Responses /\ res["page"].type = TRUE /\ res["page"].allow = {}
          /\ res["page"].body.kind = "file"
      BY <2>1, ZenonT(60) DEF Faces, Inv, Types, Objects
    <2>3. /\ res'["response"].status = 404 /\ res'["response"].type = TRUE
          /\ res'["response"].allow = {} /\ res'["response"].body.kind = "file"
      BY <2>1, <2>2 DEF Responses
    <2> QED
      BY <2>1, <2>3 DEF Faces, StatusIsOfResponse
  <1> QED
    BY <1>1, <1>3, <1>4, <1>5, <1>6, <1>7, <1>8, <1>9, <1>10, StaticSplit, Zenon

\* Every step keeps ApiTrail.
LEMMA ApiStep == Inv /\ ApiTrail /\ [Next]_vars => ApiTrail'
  <1> SUFFICES ASSUME Inv, ApiTrail, [Next]_vars PROVE ApiTrail'
    BY Zenon
  <1>1. CASE UNCHANGED vars \/ (OtherProcess /\ request' = request)
    <2>1. UNCHANGED <<at, res, status, request, code>>
      BY <1>1, Zenon DEF vars, OtherProcess, pathVars
    <2> QED
      BY <2>1 DEF ApiTrail, Api, Parses, ApiAnswer
  <1>2. ASSUME NEW r \in Requests, Start(r) PROVE ApiTrail'
    <2>1. request' = r /\ at' \in {"route", "serve", "error"}
      BY <1>2, Zenon DEF Start
    <2>2. at' = "route" <=> Parses(r) /\ IsApiRequest(r.path)
      BY <1>2, Zenon DEF Start
    <2>3. Api' <=> Parses(r) /\ IsApiRequest(r.path)
      BY <2>1, Zenon DEF Api, Parses
    <2>4. at' = "route" => request'.method \in Methods
      BY <2>1, <2>2, RequestsAssumption, Zenon DEF Parses
    <2> QED
      BY <2>1, <2>2, <2>3, <2>4, ZenonT(60) DEF ApiTrail, ApiAnswer
  <1>3. CASE DestroyResponse
    <2>1. at' = "idle" /\ request' = NoRequest
      BY <1>3, Zenon DEF DestroyResponse
    <2>2. ~Api'
      BY <2>1 DEF Api, IsApiRequest, NoRequest
    <2> QED
      BY <2>1, <2>2, ZenonT(60) DEF ApiTrail, ApiAnswer
  <1>4. CASE Route
    <2>1. at = "route" /\ request' = request /\ Api /\ Api'
      BY <1>4, RouteResult DEF ApiTrail, Api, Parses
    <2>2. CASE at' = "error"
      BY <1>4, <2>1, <2>2, RouteResult, ZenonT(60) DEF ApiTrail, ApiAnswer
    <2>3. CASE at' # "error"
      <3> DEFINE x == res'["response"]
                 p == request.path
                 m == request.method
      <3>1. at' = "done" /\ status' = x.status
        BY <1>4, <2>3, RouteResult, ZenonT(60)
      <3>2. m \in Methods
        BY <2>1, Zenon DEF ApiTrail
      <3>3. /\ x.status = IF m \in Taken(p) THEN 200 ELSE IF Taken(p) # {} THEN 405 ELSE 404
            /\ x.allow = IF x.status = 405 THEN Taken(p) ELSE {}
        <4>1. \/ Compatible(p, m) /\ x.status = 200 /\ x.allow = {}
              \/ Matching(p) # {} /\ ~Compatible(p, m) /\ x.status = 405 /\ x.allow = AllowHeader(p)
              \/ Matching(p) = {} /\ x.status = 404 /\ x.allow = {}
          <5>1. CASE /\ Compatible(p, m)
                     /\ Complete(x, 200, {}, "memory") \/ Complete(x, 200, {}, "none")
            BY <5>1, Zenon DEF Complete
          <5>2. CASE /\ Matching(p) # {} /\ ~Compatible(p, m)
                     /\ Complete(x, 405, AllowHeader(p), "memory")
            BY <5>2, Zenon DEF Complete
          <5>3. CASE Matching(p) = {} /\ Complete(x, 404, {}, "memory")
            BY <5>3, ZenonT(60) DEF Complete
          <5> HIDE DEF x, p, m
          <5> QED
            BY <1>4, <2>3, <5>1, <5>2, <5>3, RouteResult, ZenonT(60) DEF x, p, m
        <4>2. /\ Compatible(p, m) <=> m \in Taken(p)
              /\ Matching(p) = {} <=> Taken(p) = {}
              /\ AllowHeader(p) = Taken(p)
          BY <3>2, RouterAgreesWithTable, Zenon
        <4> HIDE DEF x, p, m
        <4> QED
          BY <4>1, <4>2
      <3>4. ApiAnswer'
        BY <2>1, <3>1, <3>3 DEF ApiAnswer, Taken
      <3> QED
        BY <2>1, <3>1, <3>4, ZenonT(60) DEF ApiTrail
    <2> QED
      BY <2>2, <2>3, Zenon
  <1>5. CASE Error
    <2>1. /\ at \in {"build_error", "build_text"} /\ request' = request /\ code' = code
          /\ at' = "build_text" \/ (at' = "done" /\ status' \in {-1, code})
      BY <1>5, ErrorResult, Zenon
    <2>2. Api' <=> Api
      BY <2>1, Zenon DEF Api, Parses
    <2>3. Api => code = 500
      BY <2>1, Zenon DEF ApiTrail
    <2>4. ApiAnswer'
      BY <2>1, <2>2, <2>3 DEF ApiAnswer, Api
    <2> QED
      BY <2>1, <2>2, <2>3, <2>4 DEF ApiTrail
  <1>6. CASE BuildStaticError /\ request' = request
    <2>1. /\ at = "error" /\ code' = code /\ at' \in {"serve", "build_error"}
          /\ code = 500 => at' = "build_error"
      BY <1>6 DEF BuildStaticError
    <2>2. Api' <=> Api
      BY <1>6, Zenon DEF Api, Parses
    <2> QED
      BY <1>6, <2>1, <2>2 DEF ApiTrail, ApiAnswer
  <1>7. ASSUME at \notin {"idle", "route", "error", "build_error", "build_text", "done"},
               at' \notin {"idle", "route"}, request' = request
        PROVE  ApiTrail'
    <2>1. ~Api /\ ~Api'
      BY <1>7, Zenon DEF ApiTrail, Api, Parses
    <2> QED
      BY <1>7, <2>1 DEF ApiTrail, ApiAnswer, Api
  <1>8. CASE /\ UNCHANGED <<disturbed, request>>
             /\ \/ Serve \/ ResolveRoot \/ Realpath \/ StatFails \/ StatFile \/ StatDirectory
                         \/ OpenFails \/ FstatFails
    <2>1. /\ at \in {"serve", "root", "realpath", "stat", "open", "fstat"}
          /\ at' \in {"served", "root", "realpath", "stat", "open"}
      BY <1>8, ServeResult, Zenon
    <2> QED
      BY <1>7, <1>8, <2>1, Zenon
  <1>9. CASE /\ UNCHANGED <<disturbed, request>>
             /\ (at = "open" /\ Opens) \/ Attach \/ HandleStatic \/ PageBecomesResponse \/ PageFails
    <2>1. at \in {"open", "fstat", "served"} /\ at' \in {"fstat", "served", "done", "error", "build_error"}
      BY <1>9, ZenonT(60) DEF Opens, Attach, Served, HandleStatic, PageBecomesResponse, PageFails
    <2> QED
      BY <1>7, <1>9, <2>1, Zenon
  <1> QED
    BY <1>1, <1>2, <1>3, <1>4, <1>5, <1>6, <1>8, <1>9, StaticSplit, Zenon

-----------------------------------------------------------------------------
(* What a static target is answered with.                                  *)

\* Lookup and FileFor in a given file system, and whether something can be sent.
NodeAt(f, p) ==
    IF p \notin DOMAIN f \/ (\E q \in DOMAIN f : p = Index(q) /\ f[q].kind # "directory")
    THEN Nothing ELSE f[p]
Found(f, p) == IF NodeAt(f, p).kind = "directory" /\ NodeAt(f, p).inside THEN Index(p) ELSE p
Sendable(f, p) == Readable(NodeAt(f, Found(f, p)))
Absent(f, p) == NodeAt(f, p).kind = "absent"

\* How far static_files_serve has come with the path p of its target, and what its
\* result says of p, while files do not change and no call fails.
Searching(p) ==
    /\ at = "root" => path = p /\ indexing = FALSE
    /\ at \in {"realpath", "stat"} =>
          \/ indexing = FALSE /\ path = p
          \/ indexing = TRUE /\ path = Index(p) /\ NodeAt(fs, p).kind = "directory" /\ NodeAt(fs, p).inside
    /\ at = "stat" => NodeAt(fs, path).kind \notin {"absent", "denied"} /\ NodeAt(fs, path).inside
    /\ at \in {"open", "fstat"} =>
          /\ path = Found(fs, p) /\ ~Absent(fs, p)
          /\ NodeAt(fs, path).kind \in {"regular", "unreadable"} /\ NodeAt(fs, path).inside
    /\ at = "fstat" => inode[fd] = NodeAt(fs, path)
    /\ at = "served" /\ result = "OK" =>
          /\ Sendable(fs, p) /\ ~Absent(fs, p)
          /\ inode[res[serving].body.fd] = NodeAt(fs, Found(fs, p))
    /\ at = "served" /\ result # "OK" =>
          ~Sendable(fs, p) /\ (result = "NOT_FOUND" <=> Absent(fs, p))

\* The request was refused with a status that says why.
Refused ==
    /\ ~Sendable(fs, request.file)
    /\ code = 404 <=> Absent(fs, request.file)
    /\ code # 200

Answered ==
    /\ status = 200 <=> Sendable(fs, request.file)
    /\ status = 404 <=> Absent(fs, request.file)
    /\ status = 200 => inode[res["response"].body.fd] = NodeAt(fs, Found(fs, request.file))
    /\ status = 404 =>
          /\ res["response"].body.kind = "file" <=> Sendable(fs, Page.path)
          /\ res["response"].body.kind = "file" =>
                inode[res["response"].body.fd] = NodeAt(fs, Found(fs, Page.path))

\* Which call of static_files_serve this is, and how the request got there.
Stage ==
    /\ at \notin {"idle", "route", "build_text"}
    /\ target.result = "OK"
    /\ target.path = IF serving = "response" THEN request.file ELSE Page.path
    /\ serving = "page" => code = 404 /\ at # "error"
    /\ serving = "page" \/ at \in {"error", "build_error"} => Refused
    /\ at = "build_error" /\ code = 404 => ~Sendable(fs, Page.path)
    /\ at = "done" => Answered

StaticGet ==
    /\ disturbed = FALSE /\ Parses(request) /\ ~IsApiRequest(request.path)
    /\ request.method \in {"GET", "HEAD"} /\ request.normal = "OK"

StaticTrail ==
    /\ disturbed \in BOOLEAN
    /\ StaticGet => Stage /\ Searching(target.path)

\* A call finds the node of the file system.
LEMMA NodeFacts ==
    ASSUME Inv, NEW p
    PROVE  /\ Lookup(p) = NodeAt(fs, p) /\ NodeAt(fs, p) \in NodeSet
           /\ NodeAt(fs, p).inside \in BOOLEAN /\ NodeAt(fs, p).size \in Nat
  <1>1. Lookup(p) = NodeAt(fs, p)
    BY Zenon DEF Lookup, NodeAt
  <1> QED
    BY <1>1, LookupType, Zenon DEF Inv, NodeSet

\* Inside static_files_serve only the search moves on.
LEMMA StageKept ==
    ASSUME Stage, UNCHANGED <<code, target, serving, fs, request>>,
           at' \in {"root", "realpath", "stat", "open", "fstat", "served"}
    PROVE  Stage'
  BY ZenonT(60) DEF Stage, Refused

\* resolve_under_root fails for what cannot be sent, as not found only for what is
\* not there.
LEMMA ResolutionFails ==
    ASSUME Inv, disturbed = FALSE, NEW p, Searching(p),
           (Realpath /\ at' = "served") \/ StatFails
    PROVE  /\ at' = "served" /\ result' # "OK"
           /\ ~Sendable(fs, p) /\ (result' = "NOT_FOUND" <=> Absent(fs, p))
  <1> DEFINE n == NodeAt(fs, path)
  <1>1. Lookup(path) = n /\ n \in NodeSet /\ n.inside \in BOOLEAN /\ n.size \in Nat
    BY NodeFacts, Zenon
  <1>2. at \in {"realpath", "stat"} /\ at' = "served"
    BY Zenon DEF Realpath, StatFails, ResolveFails, Served
  <1>3. \/ indexing = FALSE /\ path = p
        \/ indexing = TRUE /\ path = Index(p) /\ NodeAt(fs, p).kind = "directory" /\ NodeAt(fs, p).inside
    BY <1>2, Zenon DEF Searching
  <1>4. /\ result' # "OK" /\ ~Readable(n)
        /\ result' = "NOT_FOUND" <=> indexing = FALSE /\ n.kind = "absent"
        /\ indexing = FALSE => ~(n.kind = "directory" /\ n.inside)
    <2> HIDE DEF n
    <2>1. CASE Realpath
      <3>1. \/ n.kind = "absent" /\ result' = IF indexing THEN "FORBIDDEN" ELSE "NOT_FOUND"
            \/ n.kind = "denied" /\ result' = "FORBIDDEN"
            \/ n.kind \notin {"absent", "denied"} /\ ~n.inside /\ result' = "FORBIDDEN"
        BY <1>1, <1>2, <2>1, Zenon DEF Realpath, ResolveFails, Served
      <3> QED
        BY <1>1, <1>3, <3>1, Zenon DEF Readable
    <2>2. CASE StatFails
      <3>1. n.kind \notin {"absent", "denied"} /\ n.inside
        BY <2>2, Zenon DEF StatFails, Searching, n
      <3>2. StatFailure(n) # "OK" /\ result' = IF indexing /\ StatFailure(n) = "NOT_FOUND" THEN "FORBIDDEN" ELSE StatFailure(n)
        BY <1>1, <2>2, Zenon DEF StatFails, ResolveFails, Served
      <3>3. \/ StatFailure(n) = "FORBIDDEN" /\ (n.kind \in {"device", "fifo"} \/ (n.kind = "directory" /\ indexing))
            \/ StatFailure(n) = "TOO_LARGE" /\ n.kind # "directory" /\ n.size > MaxFile
        BY <3>1, <3>2, Zenon DEF StatFailure, Special
      <3>4. ~Readable(n)
        BY <1>1, <3>3, MaxFileAssumption DEF Readable
      <3> QED
        BY <1>3, <3>1, <3>2, <3>3, <3>4, Zenon
    <2> QED
      BY <2>1, <2>2, Zenon
  <1>5. path = Found(fs, p)
    BY <1>3, <1>4, Zenon DEF Found
  <1> QED
    BY <1>2, <1>3, <1>4, <1>5, Zenon DEF Sendable, Absent

\* The resolution of a path.
LEMMA ResolveSearch ==
    ASSUME Inv, disturbed = FALSE, NEW p, Searching(p), target.path = p,
           ResolveRoot \/ Realpath \/ StatFails \/ StatFile \/ StatDirectory
    PROVE  Searching(target.path)'
  <1> DEFINE n == NodeAt(fs, path)
  <1>1. target' = target /\ fs' = fs
    BY Zenon DEF ResolveRoot, Realpath, StatFails, StatFile, StatDirectory, pathVars, fileVars
  <1>2. Lookup(path) = n /\ n \in NodeSet /\ n.inside \in BOOLEAN /\ n.size \in Nat
    BY NodeFacts, Zenon
  <1>3. CASE ResolveRoot
    <2>1. at = "root" /\ at' = "realpath" /\ UNCHANGED <<path, indexing>>
      BY <1>3, Zenon DEF ResolveRoot, Served, pathVars
    <2> QED
      BY <1>1, <2>1, Zenon DEF Searching
  <1>4. CASE (Realpath /\ at' = "served") \/ StatFails
    <2>1. /\ at' = "served" /\ result' # "OK"
          /\ ~Sendable(fs, p) /\ (result' = "NOT_FOUND" <=> Absent(fs, p))
      BY <1>4, ResolutionFails, Zenon
    <2> QED
      BY <1>1, <2>1, Zenon DEF Searching
  <1>5. CASE Realpath /\ at' # "served"
    <2>1. /\ at = "realpath" /\ at' = "stat" /\ UNCHANGED <<path, indexing>>
          /\ n.kind \notin {"absent", "denied"} /\ n.inside
      BY <1>2, <1>5, Zenon DEF Realpath, ResolveFails, Served, pathVars
    <2> QED
      BY <1>1, <2>1, Zenon DEF Searching
  <1>6. CASE StatFile
    <2>1. /\ at = "stat" /\ at' = "open" /\ UNCHANGED <<path, indexing>>
          /\ StatFailure(n) = "OK" /\ n.kind # "directory"
      BY <1>2, <1>6, Zenon DEF StatFile
    <2>2. n.kind \notin {"absent", "denied", "directory", "device", "fifo"} /\ n.inside
      BY <2>1, Zenon DEF StatFailure, Special, Searching
    <2>3. n.kind \in {"regular", "unreadable"}
      BY <1>2, <2>2, Zenon DEF NodeSet
    <2>4. path = Found(fs, p) /\ ~Absent(fs, p)
      BY <2>1, <2>2, Zenon DEF Searching, Found, Absent
    <2> QED
      BY <1>1, <2>1, <2>2, <2>3, <2>4, Zenon DEF Searching
  <1>7. CASE StatDirectory
    <2>1. /\ at = "stat" /\ at' = "realpath" /\ path' = Index(path) /\ indexing' = TRUE
          /\ StatFailure(n) = "OK" /\ n.kind = "directory"
      BY <1>2, <1>7, Zenon DEF StatDirectory
    <2>2. n.inside
      BY <2>1, Zenon DEF Searching
    <2>3. path = p
      BY <2>1, Zenon DEF Searching, StatFailure, Special
    <2> QED
      BY <1>1, <2>1, <2>2, <2>3, Zenon DEF Searching
  <1> QED
    BY <1>3, <1>4, <1>5, <1>6, <1>7, Zenon

\* Opening the file.
LEMMA FillSearch ==
    ASSUME Inv, disturbed = FALSE, NEW p, Searching(p), target.path = p,
           (at = "open" /\ Opens) \/ OpenFails \/ FstatFails \/ Attach
    PROVE  Searching(target.path)'
  <1> DEFINE n == NodeAt(fs, path)
  <1>1. UNCHANGED <<target, fs, serving, path>>
    BY Zenon DEF Opens, OpenFails, FstatFails, Attach, pathVars, fileVars
  <1>2. Lookup(path) = n /\ n \in NodeSet /\ n.inside \in BOOLEAN /\ n.size \in Nat
    BY NodeFacts, Zenon
  <1>3. /\ at \in {"open", "fstat"}
        /\ path = Found(fs, p) /\ ~Absent(fs, p)
        /\ n.kind \in {"regular", "unreadable"} /\ n.inside
    BY Zenon DEF OpenFails, FstatFails, Attach, Searching
  <1>4. Sendable(fs, p) <=> Readable(n)
    BY <1>3, Zenon DEF Sendable
  <1>5. CASE Opens
    <2>1. at' = "fstat" /\ fd' \in Fds /\ inode'[fd'] = n
      BY <1>2, <1>5, Zenon DEF Opens, Inv, Types
    <2> QED
      BY <1>1, <1>3, <2>1, Zenon DEF Searching
  <1>6. CASE OpenFails
    <2>1. at' = "served" /\ result' = "FORBIDDEN" /\ n.kind = "unreadable"
      BY <1>2, <1>3, <1>6, Zenon DEF OpenFails, Served
    <2>2. ~Readable(n)
      BY <2>1, Zenon DEF Readable
    <2> QED
      BY <1>1, <1>3, <1>4, <2>1, <2>2, Zenon DEF Searching
  <1>7. CASE FstatFails
    <2>1. at' = "served" /\ inode[fd] = n /\ result' = FstatFailure(n) /\ result' # "OK"
      BY <1>7, Zenon DEF FstatFails, Served, Searching
    <2>2. ~Readable(n) /\ result' # "NOT_FOUND"
      BY <1>2, <2>1, MaxFileAssumption DEF Readable, FstatFailure
    <2> QED
      BY <1>1, <1>3, <1>4, <2>1, <2>2, Zenon DEF Searching
  <1>8. CASE Attach
    <2>1. at' = "served" /\ result' = "OK" /\ inode[fd] = n /\ FstatFailure(n) = "OK" /\ inode' = inode
      BY <1>8, Zenon DEF Attach, Served, Searching
    <2>2. Readable(n)
      BY <1>2, <1>3, <2>1, MaxFileAssumption DEF Readable, FstatFailure
    <2>3. res'[serving].body.fd = fd
      <3>1. res' = [res EXCEPT ![serving].body = File(fd, inode[fd].size)]
        BY <1>8, Zenon DEF Attach
      <3>2. res'[serving].body = File(fd, inode[fd].size)
        BY <3>1, Zenon DEF Inv, Types, Responses
      <3> QED
        BY <3>2 DEF File
    <2> QED
      BY <1>1, <1>3, <1>4, <2>1, <2>2, <2>3, Zenon DEF Searching
  <1> QED
    BY <1>5, <1>6, <1>7, <1>8, Zenon

\* The callers of static_files_serve and the error pages.
LEMMA CallersStep ==
    ASSUME Inv, Faces, disturbed = FALSE, Stage, Searching(target.path), request' = request,
           HandleStatic \/ BuildStaticError \/ PageBecomesResponse \/ PageFails \/ Error
    PROVE  Stage' /\ Searching(target.path)'
  <1>1. UNCHANGED <<fs, inode>>
    BY ZenonT(60) DEF HandleStatic, BuildStaticError, PageBecomesResponse, PageFails, Error, fileVars
  <1>2. at' \in {"serve", "error", "build_error", "build_text", "done"} => Searching(target.path)'
    BY Zenon DEF Searching
  <1>3. CASE HandleStatic
    <2>1. at = "served" /\ serving = "response" /\ UNCHANGED <<target, serving, res>>
      BY <1>3, Zenon DEF HandleStatic, pathVars
    <2>2. target.path = request.file
      BY <2>1, Zenon DEF Stage
    <2>3. CASE result = "OK"
      <3>1. at' = "done" /\ status' = 200
        BY <1>3, <2>3, Zenon DEF HandleStatic
      <3>2. Answered'
        BY <1>1, <2>1, <2>2, <2>3, <3>1 DEF Answered, Searching
      <3> QED
        BY <1>2, <2>1, <3>1, <3>2, ZenonT(60) DEF Stage
    <2>4. CASE result # "OK"
      <3>1. at' = "error" /\ code' = StatusForStaticResult[result]
        BY <1>3, <2>4, Zenon DEF HandleStatic
      <3>2. (code' = 404 <=> result = "NOT_FOUND") /\ code' # 200
        BY <2>4, <3>1 DEF StatusForStaticResult, Inv, Types, Results
      <3>3. Refused'
        BY <1>1, <2>1, <2>2, <2>4, <3>2, ZenonT(60) DEF Refused, Searching
      <3> QED
        BY <1>2, <2>1, <3>1, <3>3, Zenon DEF Stage
    <2> QED
      BY <2>3, <2>4, Zenon
  <1>4. CASE BuildStaticError
    <2>1. at = "error" /\ code' = code /\ serving = "response"
      BY <1>4, Zenon DEF BuildStaticError, Stage, Inv, Types, Objects
    <2>2. Refused'
      BY <1>1, <2>1, ZenonT(60) DEF Stage, Refused
    <2>3. CASE code = 404
      <3>1. at' = "serve" /\ serving' = "page" /\ target' = Page
        BY <1>4, <2>3, Zenon DEF BuildStaticError
      <3> QED
        BY <1>2, <2>1, <2>2, <2>3, <3>1, Zenon DEF Stage, Page
    <2>4. CASE code # 404
      <3>1. at' = "build_error" /\ UNCHANGED <<serving, target>>
        BY <1>4, <2>4, Zenon DEF BuildStaticError
      <3> QED
        BY <1>2, <2>1, <2>2, <2>4, <3>1, Zenon DEF Stage
    <2> QED
      BY <2>3, <2>4, Zenon
  <1>5. CASE PageBecomesResponse
    <2>1. /\ at = "served" /\ serving = "page" /\ result = "OK" /\ at' = "done" /\ status' = 404
          /\ UNCHANGED <<code, target, serving>>
          /\ res'["response"] = [res["page"] EXCEPT !.status = 404]
      BY <1>5, ZenonT(60) DEF PageBecomesResponse, pathVars, Inv, Types, Objects
    <2>2. res'["response"].body = res["page"].body /\ res["page"].body.kind = "file"
      BY <2>1 DEF Inv, Types, Objects, Responses, Faces
    <2>3. target.path = Page.path /\ Refused /\ code = 404
      BY <2>1, ZenonT(60) DEF Stage
    <2>4. Answered'
      BY <1>1, <2>1, <2>2, <2>3 DEF Answered, Refused, Searching
    <2>5. Refused'
      BY <1>1, <2>1, <2>3, ZenonT(60) DEF Refused
    <2> QED
      BY <1>2, <2>1, <2>3, <2>4, <2>5, Zenon DEF Stage
  <1>6. CASE PageFails
    <2>1. /\ at = "served" /\ serving = "page" /\ result # "OK" /\ at' = "build_error"
          /\ UNCHANGED <<code, target, serving>>
      BY <1>6, Zenon DEF PageFails, pathVars
    <2>2. target.path = Page.path /\ Refused /\ code = 404
      BY <2>1, Zenon DEF Stage
    <2>3. ~Sendable(fs, Page.path)
      BY <2>1, <2>2, Zenon DEF Searching
    <2>4. Refused'
      BY <1>1, <2>1, <2>2, Zenon DEF Refused
    <2> QED
      BY <1>1, <1>2, <2>1, <2>2, <2>3, <2>4, Zenon DEF Stage
  <1>7. CASE Error
    <2>1. /\ at = "build_error" /\ at' = "done" /\ status' = code
          /\ UNCHANGED <<code, target, serving>>
          /\ Complete(res'["response"], code, {}, "memory")
      BY <1>7, ErrorResult, Zenon DEF Stage
    <2>2. Refused /\ (code = 404 => ~Sendable(fs, Page.path))
      BY <2>1, ZenonT(60) DEF Stage
    <2>3. Answered'
      BY <1>1, <2>1, <2>2, ZenonT(60) DEF Answered, Refused, Complete
    <2>4. Refused'
      BY <1>1, <2>1, <2>2, ZenonT(60) DEF Refused
    <2> QED
      BY <1>2, <2>1, <2>3, <2>4, Zenon DEF Stage
  <1> QED
    BY <1>3, <1>4, <1>5, <1>6, <1>7, Zenon

\* Every step keeps StaticTrail.
LEMMA StaticTrailStep == Inv /\ Faces /\ ApiTrail /\ StaticTrail /\ [Next]_vars => StaticTrail'
  <1> SUFFICES ASSUME Inv, Faces, ApiTrail, StaticTrail, [Next]_vars PROVE StaticTrail'
    BY Zenon
  <1>1. disturbed' \in BOOLEAN
    BY StaticSplit, Zenon DEF StaticTrail, vars, OtherProcess, Start, DestroyResponse, Route, Error
  <1> SUFFICES ASSUME StaticGet' PROVE Stage' /\ Searching(target.path)'
    BY <1>1, Zenon DEF StaticTrail
  <1>2. request' # NoRequest
    BY DEF StaticGet, NoRequest
  <1>3. ASSUME UNCHANGED <<disturbed, request>>
        PROVE  disturbed = FALSE /\ Stage /\ Searching(target.path)
    BY <1>3, ZenonT(60) DEF StaticGet, StaticTrail
  <1>4. CASE UNCHANGED vars
    <2>1. UNCHANGED <<at, disturbed, res, code, status, fs, target, serving, path, indexing, fd, result, inode, request>>
      BY <1>4, Zenon DEF vars, pathVars, fileVars
    <2>2. Stage /\ Searching(target.path)
      BY <1>3, <2>1, Zenon
    <2> QED
      BY <2>1, <2>2 DEF Stage, Refused, Answered, Searching
  <1>5. CASE OtherProcess /\ request' = request
    <2>1. (disturbed = TRUE \/ at = "idle") /\ disturbed' = disturbed
      BY <1>5, Zenon DEF OtherProcess, StaticTrail
    <2> QED
      BY <1>2, <1>5, <2>1 DEF ApiTrail, StaticGet
  <1>6. ASSUME NEW r \in Requests, Start(r) PROVE Stage' /\ Searching(target.path)'
    <2>1. /\ request' = r /\ serving' = "response"
          /\ target' = [result |-> r.normal, path |-> r.file]
      BY <1>6, Zenon DEF Start
    <2>2. r.method \in {"GET", "HEAD"} /\ r.normal = "OK" /\ Parses(r) /\ ~IsApiRequest(r.path)
      BY <2>1, Zenon DEF StaticGet, Parses
    <2>3. at' = "serve"
      BY <1>6, <2>2, ZenonT(60) DEF Start
    <2> QED
      BY <2>1, <2>2, <2>3, Zenon DEF Stage, Searching
  <1>7. CASE DestroyResponse
    BY <1>2, <1>7, Zenon DEF DestroyResponse
  <1>8. CASE Route
    <2>1. at = "route" /\ UNCHANGED <<disturbed, request>>
      BY <1>8, RouteResult, Zenon
    <2> QED
      BY <1>3, <2>1, Zenon DEF Stage
  <1>9. CASE Error
    <2>1. UNCHANGED <<disturbed, request>>
      BY <1>9, Zenon DEF Error
    <2> QED
      BY <1>3, <1>9, <2>1, CallersStep, Zenon
  <1>10. ASSUME UNCHANGED <<disturbed, request>>, UNCHANGED <<code, target, serving, fs>>,
                at' \in {"root", "realpath", "stat", "open", "fstat", "served"}
         PROVE  Stage'
    BY <1>3, <1>10, StageKept, Zenon
  <1>11. CASE UNCHANGED <<disturbed, request>> /\ Serve
    <2>1. disturbed = FALSE /\ Stage /\ target.result = "OK"
      BY <1>3, <1>11, Zenon DEF Stage
    <2>2. /\ at' = "root" /\ path' = target.path /\ indexing' = FALSE
          /\ UNCHANGED <<code, target, serving, fs>>
      BY <1>11, <2>1, Zenon DEF Serve, fileVars
    <2>3. Stage'
      BY <1>10, <1>11, <2>2, Zenon
    <2> QED
      BY <2>2, <2>3, Zenon DEF Searching
  <1>12. CASE /\ UNCHANGED <<disturbed, request>>
              /\ ResolveRoot \/ Realpath \/ StatFails \/ StatFile \/ StatDirectory
    <2>1. /\ at' \in {"realpath", "stat", "open", "served"} /\ UNCHANGED <<code, target, serving, fs>>
      BY <1>12, Zenon DEF ResolveRoot, Realpath, StatFails, StatFile, StatDirectory, ResolveFails, Served, pathVars, fileVars
    <2>2. Stage'
      BY <1>10, <1>12, <2>1, Zenon
    <2>3. Searching(target.path)'
      BY <1>3, <1>12, ResolveSearch, Zenon
    <2> QED
      BY <2>2, <2>3, Zenon
  <1>13. CASE /\ UNCHANGED <<disturbed, request>>
              /\ (at = "open" /\ Opens) \/ OpenFails \/ FstatFails \/ Attach
    <2>1. /\ at' \in {"fstat", "served"} /\ UNCHANGED <<code, target, serving, fs>>
      BY <1>13, Zenon DEF Opens, OpenFails, FstatFails, Attach, Served, pathVars, fileVars
    <2>2. Stage'
      BY <1>10, <1>13, <2>1, Zenon
    <2>3. Searching(target.path)'
      BY <1>3, <1>13, FillSearch, Zenon
    <2> QED
      BY <2>2, <2>3
  <1>14. CASE /\ UNCHANGED <<disturbed, request>>
              /\ HandleStatic \/ BuildStaticError \/ PageBecomesResponse \/ PageFails
    BY <1>3, <1>14, CallersStep, Zenon
  <1> QED
    BY <1>4, <1>5, <1>6, <1>7, <1>8, <1>9, <1>11, <1>12, <1>13, <1>14, StaticSplit, Zenon

\* The three hold from the start on.
LEMMA AnswersInvariant == Spec => [](Inv /\ Faces /\ ApiTrail /\ StaticTrail)
  <1>1. Init => Faces /\ ApiTrail /\ StaticTrail
    <2> SUFFICES ASSUME Init PROVE Faces /\ ApiTrail /\ StaticTrail
      BY Zenon
    <2>1. at = "idle" /\ request = NoRequest /\ disturbed = FALSE
      BY Zenon DEF Init
    <2>2. ~Api /\ ~StaticGet
      BY <2>1 DEF Api, IsApiRequest, NoRequest, StaticGet
    <2> QED
      BY <2>1, <2>2, ZenonT(60) DEF Faces, StatusIsOfResponse, ApiTrail, ApiAnswer, StaticTrail
  <1>2. Inv /\ Faces /\ ApiTrail /\ StaticTrail /\ [Next]_vars => (Inv /\ Faces /\ ApiTrail /\ StaticTrail)'
    BY InvStep, FacesStep, ApiStep, StaticTrailStep, Zenon
  <1> QED
    BY <1>1, <1>2, InitInv, PTL DEF Spec

\* The status client_handle goes by is the one of a complete response; a file comes
\* with 200 or as the 404 page, Allow only with 405, no body only from the echo.
THEOREM StatusesAreOfResponses == Spec => []StatusIsOfResponse
  <1>1. Faces => StatusIsOfResponse
    BY Zenon DEF Faces
  <1> QED
    BY <1>1, AnswersInvariant, PTL

\* router_dispatch answers as its table says, with 405 and exactly the methods taken.
THEOREM ApiAnswersFollowTable == Spec => []ApiAnswer
  <1>1. ApiTrail => ApiAnswer
    BY Zenon DEF ApiTrail
  <1> QED
    BY <1>1, AnswersInvariant, PTL

\* While files do not change and no call fails, handle_static_get_head answers with
\* 200 exactly when the path or its index can be sent, with 404 exactly when nothing
\* is there, and with the custom page exactly when that can be sent.
THEOREM StaticAnswersFollowFiles == Spec => []StaticAnswer
  <1>1. Inv /\ StaticTrail => StaticAnswer
    <2> SUFFICES ASSUME Inv, StaticTrail, at = "done", StaticGet PROVE StaticAnswer
      BY Zenon DEF StaticAnswer, StaticGet, StaticTrail
    <2>1. Answered
      BY Zenon DEF StaticTrail, Stage
    <2>2. \A p : Lookup(p) = NodeAt(fs, p)
      BY NodeFacts, Zenon
    <2>3. \A p : FileFor(p) = Found(fs, p)
      BY <2>2, Zenon DEF FileFor, Found
    <2> QED
      BY <2>1, <2>2, <2>3 DEF Answered, StaticAnswer, Sendable, Absent
  <1> QED
    BY <1>1, AnswersInvariant, PTL
=============================================================================
