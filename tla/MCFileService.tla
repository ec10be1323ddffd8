--------------------------- MODULE MCFileService ----------------------------
(* A server with a file area, an upload area below the same text (img and     *)
(* imgs), a location that only redirects and one that stores into one file.   *)
EXTENDS FileService, TLC

N(s) == <<s>>
EmptyName == N("")
AllNames == {N("")} \cup {N(s) : s \in {"www", "img", "imgs", "old", "log", "a", "b", "dots", "idx", "imgx"}}
            \cup (Kinds \X (0..MaxStamp))
Prefixes == {<<N("img"), N("imgs")>>, <<N("img"), N("imgx")>>}

P(s)     == <<N(s)>>
Q(s, t)  == <<N(s), N(t)>>
Www      == P("www")

L(path, methods, root) ==
    [path |-> path, methods |-> methods, root |-> root, index |-> N(""), auto |-> FALSE,
     ret |-> 0, upload |-> FALSE, store |-> <<>>]

Site ==
    [locs |-> << [L(Root, {"GET", "POST"}, Www) EXCEPT !.index = N("idx")],
                 [L(P("img"), {"GET", "POST", "DELETE"}, Q("www", "img"))
                     EXCEPT !.auto = TRUE, !.upload = TRUE],
                 [L(P("imgs"), {"GET"}, Www) EXCEPT !.ret = 301],
                 [L(P("log"), {"POST", "DELETE"}, Q("www", "img")) EXCEPT !.upload = TRUE,
                     !.store = <<N("www"), N("img"), N("a")>>],
                 [L(Q("img", "b"), {"GET"}, <<N("www"), N("img"), N("b")>>) EXCEPT !.index = N("idx")] >>,
     pages |-> << [code |-> 404, path |-> Q("www", "old")], [code |-> 404, path |-> Q("www", "idx")] >>]

(* No location for /, one written with a final slash, one without a root. *)
Bare ==
    [locs |-> << [L(<<N("img"), N("")>>, {"POST", "DELETE"}, Q("www", "img")) EXCEPT !.upload = TRUE],
                 L(P("log"), {"GET", "DELETE"}, <<>>) >>,
     pages |-> <<>>]

Sites == {Site, Bare}

Dirs0  == {Www, Q("www", "img"), <<N("www"), N("img"), N("b")>>}
File(p, n) == (p :> [by |-> 0, size |-> n])
Files0 == File(Q("www", "idx"), 5) @@ File(Q("www", "imgx"), 2) @@ File(Q("www", "old"), 1)
          @@ File(<<N("www"), N("img"), N("a")>>, 2) @@ File(<<N("www"), N("img"), N("idx")>>, 1)

Ask(method, path) ==
    [method |-> method, path |-> path, query |-> FALSE, range |-> <<>>,
     form |-> "none", name |-> N(""), size |-> 0, wellformed |-> TRUE]
Put1(path, form, name, size) ==
    [Ask("POST", path) EXCEPT !.form = form, !.name = name, !.size = size]

Gets ==
    {Ask("GET", p) : p \in {Root, P("img"), Q("img", "a"), P("imgs"), Q("img", "b"), P("log"), P("old"), P("dots")}}
    \cup {[Ask("GET", p) EXCEPT !.range = g] :
             p \in {Root, Q("img", "a")}, g \in {<<1, Open>>, <<1, 3>>, <<0, 5>>, <<3, 1>>, <<6, Open>>}}
Posts ==
    {Put1(P("img"), "multipart", N("a"), n) : n \in {2, 4}}
    \cup {Put1(P("img"), f, N(""), 2) : f \in {"multipart", "image"}}
    \cup {Put1(p, f, N(""), 1) : p \in {Root, P("log"), P("imgs")}, f \in {"other", "urlencoded"}}
    \cup {[Put1(P("img"), "multipart", N("b"), 1) EXCEPT !.wellformed = FALSE],
          Put1(Root, "multipart", N("b"), 1)}
Deletes ==
    {[Ask("DELETE", p) EXCEPT !.query = q] :
        p \in {Q("img", "a"), P("img"), Q("img", "b"), Q("img", "dots"), P("log"), P("imgs"), P("imgx"), Q("img", "idx")},
        q \in BOOLEAN}
All == Gets \cup Posts \cup Deletes

Bad     == {N("dots")}
Closed  == {Q("www", "old")}
Locked  == {<<N("www"), N("img"), N("idx")>>}
Foreign == {<<N("www"), N("img"), N("a")>>, Q("www", "old")}
Lengths == {1, 5}
=============================================================================
