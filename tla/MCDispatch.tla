----------------------------- MODULE MCDispatch -----------------------------
(* Two descriptors; a document, perhaps a directory, and the custom page.  *)
EXTENDS Dispatch

Node(kind, n) == [kind |-> kind, size |-> n, inside |-> TRUE]

\* What changes a document and a page can go through.
MCNodes == {Node("absent", 0), Node("directory", 0), Node("fifo", 0), Node("regular", 1),
            Node("regular", 2), Node("regular", MaxFile + 1)}

\* All that a path can be found to be.
AllNodes == MCNodes \cup {Node("denied", 0), Node("device", 0), Node("unreadable", 1),
                          [Node("regular", 1) EXCEPT !.inside = FALSE],
                          [Node("directory", 0) EXCEPT !.inside = FALSE]}

Doc == <<"doc">>
Paths == {Doc, Index(Doc), Page.path, Index(Page.path)}

\* What is below something that is not a directory is not seen.
Possible(f) ==
    \A p \in {Doc, Page.path} : f[p].kind # "directory" => f[Index(p)].kind = "absent"

\* Any document without a page, any page without the document, and two usual ones.
MCFileSystems ==
    LET none == [p \in Paths |-> Node("absent", 0)] IN
    {f \in {[none EXCEPT ![p] = n, ![Index(p)] = i] :
                p \in {Doc, Page.path}, n \in AllNodes, i \in AllNodes} : Possible(f)}
    \cup {[none EXCEPT ![Doc] = Node("regular", 1), ![Page.path] = Node("regular", 2)],
          [none EXCEPT ![Doc] = Node("directory", 0), ![Index(Doc)] = Node("regular", 1),
                       ![Page.path] = Node("regular", 2)]}

\* A target that needs no normalising, one that does, and what the reader or the
\* parser refuses.
Req(m, p) == [received |-> "OK", method |-> m, path |-> p, normal |-> "OK", file |-> p]
Leading(m, p, f) == [Req(m, p) EXCEPT !.file = f]
Bad(m, p, n) == [Req(m, p) EXCEPT !.normal = n, !.file = <<>>]
Refused(r, p) == [Req("UNKNOWN", p) EXCEPT !.received = r, !.file = <<>>]

MCRequests ==
    {Req("GET", Doc), Req("GET", Page.path), Req("POST", Doc),
     Leading("HEAD", <<".", "doc">>, Doc),
     Leading("GET", <<".", "api", "health">>, <<"api", "health">>),
     Leading("GET", <<"api", "..", "doc">>, Doc),
     Bad("GET", Doc, "BAD_TARGET"), Bad("HEAD", <<"..", "doc">>, "FORBIDDEN"),
     Req("HEAD", <<"api", "health">>), Req("POST", <<"api", "echo">>),
     Req("POST", <<"api", "stats">>), Req("HEAD", <<"api", "echo">>),
     Req("GET", <<"api", "health", "">>),
     Refused("UNSUPPORTED_METHOD", <<"api", "stats">>), Refused("TIMEOUT", <<>>),
     Refused("OUT_OF_MEMORY", <<>>)}
=============================================================================
