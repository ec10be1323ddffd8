----------------------------- MODULE ConfigFile -----------------------------
(***************************************************************************)
(* From the configuration file to listening sockets: Config reads lines    *)
(* and counts brackets, gives what it has read since the last server block *)
(* to SingleServerConfig at the "}" that closes one, which goes over these *)
(* lines a second time with rules of its own; then come the checks of the  *)
(* cluster and Servers::getServersFds.  One action is one line of either   *)
(* pass, one check or one socket.                                          *)
(*                                                                         *)
(* A line is what the two passes see in it: its first word and the rest,   *)
(* whether it has a " {" and whether its rest has the text "location".     *)
(* Text is cleaned of blanks and semicolons.  The first word of a line     *)
(* that is a "}" is "close".                                               *)
(***************************************************************************)
EXTENDS LocationMatch, Integers, FiniteSets

CONSTANTS
    Pieces,         \* sequences of lines that files are made of
    MaxPieces,      \* bound of the model
    MaxHeads,       \* bound on server blocks
    Bad,            \* a value that its directive's check refuses
    Bare,           \* the rest of a line without blanks
    Glued,          \* a value that swallowed the lines after it
    Away,           \* a target that is an http:// or https:// address
    Addresses       \* hosts that inet_addr can read

ASSUME ConfigAssumption == MaxPieces \in Nat /\ MaxHeads \in Nat

(* Pieces are sequences; what follows the word location is a path, or bad;  *)
(* only a line with "server {" is a server's, and a "}" stands alone.       *)
ASSUME PiecesAssumption ==
    \A p \in Pieces :
        /\ Len(p) \in Nat /\ p = [i \in 1..Len(p) |-> p[i]]
        /\ \A i \in 1..Len(p) :
              /\ p[i].key = "location" => p[i].val = Bad \/ p[i].val \in Paths
              /\ p[i].key = "server" => p[i].open
              /\ p[i].key = "close" => ~p[i].open

(* One order of the map's keys, "host:port", with all that files can give. *)
CONSTANT KeyOrder

Valued(l, key) == l.key = key /\ l.val \notin {Bad, Bare}

ASSUME KeyOrderAssumption ==
    /\ Len(KeyOrder) \in Nat
    /\ \A p, q \in Pieces : \A i \in 1..Len(p), j \in 1..Len(q) :
          Valued(p[i], "host") /\ Valued(q[j], "listen") =>
              \E n \in 1..Len(KeyOrder) : KeyOrder[n] = <<p[i].val, q[j].val>>

VARIABLES
    file,           \* the lines read so far
    pieces,         \* bounded by MaxPieces
    rest,           \* the lines not read yet of the last piece
    at,             \* what the program is doing
    openServer, openLocation,
    stream,         \* serverStream: lines since the last server block
    todo,           \* configStream: lines not read again yet
    conf,           \* the server being filled
    loc,            \* the location being filled
    cluster,        \* _cluster
    blocks,         \* "}" of servers met (history)
    pending,        \* addresses getServersFds has not come to yet
    listening       \* addresses of serversFd

vars == <<file, pieces, rest, at, openServer, openLocation, stream, todo, conf, loc,
          cluster, blocks, pending, listening>>
scanning == <<file, pieces, rest, openServer, openLocation, stream>>
result   == <<cluster, blocks, pending, listening>>

ServerKeys   == {"listen", "root", "server_name", "error_page", "host", "client_max_body_size"}
LocationKeys == {"root", "autoindex", "method", "index_page", "_return", "cgi_path", "cgi_ext",
                 "upload_enabled", "upload_path"}
Once         == {"root", "server_name", "client_max_body_size", "index_page", "upload_path"}
Replaced     == {"host", "autoindex", "upload_enabled"}
Unrepeated   == {"listen", "error_page"}
Unchecked    == {"root", "server_name", "cgi_path", "cgi_ext", "upload_path"}

(* The values of each directive, in their order. *)
None(keys) == [k \in keys |-> <<>>]
NoConf     == [values |-> None(ServerKeys), locs |-> <<>>]
NoLoc      == [path |-> <<>>, values |-> None(LocationKeys)]

Accepts(have, key, v) ==
    /\ v # Bare
    /\ key \notin Unchecked => v \notin {Bad, Glued}
    /\ key \in Once => have[key] = <<>>
    /\ key \in Unrepeated => \A i \in 1..Len(have[key]) : have[key][i] # v

Take(have, key, v) ==
    [have EXCEPT ![key] = IF key \in Replaced THEN <<v>> ELSE Append(@, v)]

Init ==
    /\ file = <<>> /\ pieces = 0 /\ rest = <<>> /\ at = "scan"
    /\ openServer = FALSE /\ openLocation = FALSE
    /\ stream = <<>> /\ todo = <<>> /\ conf = NoConf /\ loc = NoLoc
    /\ cluster = <<>> /\ blocks = 0 /\ pending = {} /\ listening = {}

Stop(verdict) ==
    at' = verdict /\ UNCHANGED <<todo, conf, loc>> /\ UNCHANGED scanning /\ UNCHANGED result

Refuse == Stop("refused")

-----------------------------------------------------------------------------
(* _checkBrackets. *)

Heads(p) == Cardinality({i \in 1..Len(p) : p[i].key = "server"})

FileGoesOn ==
    /\ at = "scan" /\ rest = <<>> /\ pieces < MaxPieces
    /\ \E p \in Pieces : Heads(file \o p) <= MaxHeads /\ rest' = p
    /\ pieces' = pieces + 1
    /\ UNCHANGED <<file, at, openServer, openLocation, stream, todo, conf, loc>>
    /\ UNCHANGED result

(* The lines after the first of those at hits. *)
After(lines, hits) ==
    IF hits = {} THEN <<>>
    ELSE SubSeq(lines, (CHOOSE i \in hits : \A j \in hits : i <= j) + 1, Len(lines))

Closes(l) == l.key = "close"
Opening(lines) == {i \in 1..Len(lines) : lines[i].open}
Closing(lines) == {i \in 1..Len(lines) : Closes(lines[i])}

(* A server block is complete: _parseServerBlock, and the constructor of     *)
(* SingleServerConfig up to its first directive.                             *)
CloseServer(lines) ==
    /\ openServer' = FALSE /\ stream' = <<>> /\ blocks' = blocks + 1
    /\ conf' = NoConf /\ loc' = NoLoc
    /\ todo' = After(lines, Opening(lines))
    /\ at' = IF \E i \in 1..Len(lines) : lines[i].key = "server_name" THEN "fill" ELSE "refused"
    /\ UNCHANGED openLocation

ReadLine ==
    /\ at = "scan" /\ rest # <<>>
    /\ LET l == Head(rest)
           lines == Append(stream, l)
       IN /\ rest' = Tail(rest) /\ file' = Append(file, l)
          /\ \/ /\ l.key = "close" /\ ~openLocation
                /\ CloseServer(lines)
             \/ /\ l.key = "close" => openLocation
                /\ stream' = lines /\ UNCHANGED <<todo, conf, loc, blocks>>
                /\ \/ /\ l.key = "server"
                      /\ at' = IF openServer THEN "refused" ELSE at
                      /\ openServer' = TRUE /\ UNCHANGED openLocation
                   \/ /\ l.key = "location"
                      /\ at' = IF ~l.open \/ ~openServer \/ openLocation THEN "refused" ELSE at
                      /\ openLocation' = TRUE /\ UNCHANGED openServer
                   \/ /\ l.key = "close"
                      /\ openLocation' = FALSE /\ UNCHANGED <<at, openServer>>
                   \/ /\ l.key \notin {"server", "location", "close"}
                      /\ UNCHANGED <<at, openServer, openLocation>>
    /\ UNCHANGED <<pieces, cluster, pending, listening>>

(* The end of the file.  What is left over from the last line, when no      *)
(* newline ends it, is "content outside a server block", unless that line   *)
(* closed one.                                                              *)
EndOfFile ==
    /\ at = "scan" /\ rest = <<>>
    /\ \E newline \in BOOLEAN :
          at' = IF file = <<>> \/ openServer \/ openLocation
                   \/ (~newline /\ stream # <<>>)
                THEN "refused" ELSE "loops"
    /\ UNCHANGED <<todo, conf, loc>> /\ UNCHANGED scanning /\ UNCHANGED result

-----------------------------------------------------------------------------
(* _setVariables: the second pass over the lines of a server block. *)

Filling == at = "fill" /\ todo # <<>> /\ ~Closes(Head(todo))

(* A line with the text "location" takes all up to the next "}" with it.    *)
SwallowsRest(l) == l.mentions

(* Mistake: the directives of the location before are kept. *)
StartLocationOver ==
    /\ Filling /\ Head(todo).key = "location"
    /\ loc' = [loc EXCEPT !.path = Head(todo).val]
    /\ at' = "location" /\ todo' = Tail(todo)
    /\ UNCHANGED conf /\ UNCHANGED scanning /\ UNCHANGED result

StartLocation ==
    /\ Filling /\ Head(todo).key = "location"
    /\ loc' = [path |-> Head(todo).val, values |-> None(LocationKeys)]
    /\ at' = "location" /\ todo' = Tail(todo)
    /\ UNCHANGED conf /\ UNCHANGED scanning /\ UNCHANGED result

(* _parseKeyValue.  For a key it does not know, it reads one string past    *)
(* its table.                                                               *)
ServerDirective ==
    /\ Filling /\ Head(todo).key # "location"
    /\ LET l == Head(todo)
           v == IF SwallowsRest(l) THEN Glued ELSE l.val
       IN \/ l.val = Bare /\ Refuse
          \/ l.val # Bare /\ l.key \notin ServerKeys /\ (Refuse \/ Stop("crashed"))
          \/ l.key \in ServerKeys /\ ~Accepts(conf.values, l.key, v) /\ Refuse
          \/ /\ l.key \in ServerKeys /\ Accepts(conf.values, l.key, v)
             /\ conf' = [conf EXCEPT !.values = Take(@, l.key, v)]
             /\ todo' = IF SwallowsRest(l) THEN After(Tail(todo), Closing(Tail(todo))) ELSE Tail(todo)
             /\ UNCHANGED <<at, loc>> /\ UNCHANGED scanning /\ UNCHANGED result

(* _fillLocationStruct and _parseLocationDirective. *)
LocationDirective ==
    /\ at = "location" /\ todo # <<>> /\ ~Closes(Head(todo))
    /\ LET l == Head(todo)
       IN \/ /\ l.key = "#"
             /\ todo' = Tail(todo)
             /\ UNCHANGED <<at, conf, loc>> /\ UNCHANGED scanning /\ UNCHANGED result
          \/ /\ l.key # "#"
             /\ \/ l.key \notin LocationKeys \/ l.val = Bare
                \/ l.key \in LocationKeys /\ ~Accepts(loc.values, l.key, l.val)
             /\ Refuse
          \/ /\ l.key \in LocationKeys /\ Accepts(loc.values, l.key, l.val)
             /\ loc' = [loc EXCEPT !.values = Take(@, l.key, l.val)]
             /\ todo' = Tail(todo)
             /\ UNCHANGED <<at, conf>> /\ UNCHANGED scanning /\ UNCHANGED result

(* The end of _handleLocation. *)
EndLocation ==
    /\ at = "location" /\ todo # <<>> /\ Closes(Head(todo))
    /\ \/ loc.path = Bad /\ Refuse
       \/ /\ loc.path # Bad
          /\ conf' = [conf EXCEPT !.locs = Append(@, loc)]
          /\ at' = "fill" /\ todo' = Tail(todo)
          /\ UNCHANGED loc /\ UNCHANGED scanning /\ UNCHANGED result

Host(c)  == Head(c.values["host"])
Ports(c) == c.values["listen"]

(* Mistakes: the last port makes the key; no server is compared. *)
KeyOfLast(c)        == <<Host(c), Ports(c)[Len(Ports(c))]>>
CollidesNever(c, d) == FALSE

Key(c) == <<Host(c), Ports(c)[1]>>

Collides(c, d) ==
    /\ c.values["host"] = d.values["host"]
    /\ \E i \in 1..Len(Ports(c)), j \in 1..Len(Ports(d)) : Ports(c)[i] = Ports(d)[j]

(* Mistake: a server needs no location. *)
CompleteBare(c) == Ports(c) # <<>> /\ c.values["host"] # <<>>

Complete(c) == Ports(c) # <<>> /\ c.values["host"] # <<>> /\ c.locs # <<>>

(* The end of _createConfigStruct. *)
CreateConfigStruct ==
    /\ at = "fill" /\ (todo # <<>> => Closes(Head(todo)))
    /\ \/ /\ (\E k \in DOMAIN cluster : Collides(conf, cluster[k])) \/ ~Complete(conf)
          /\ Refuse
       \/ /\ \A k \in DOMAIN cluster : ~Collides(conf, cluster[k])
          /\ Complete(conf)
          /\ cluster' = [k \in DOMAIN cluster \cup {Key(conf)} |->
                            IF k \in DOMAIN cluster THEN cluster[k] ELSE conf]
          /\ at' = "scan" /\ todo' = <<>> /\ conf' = NoConf /\ loc' = NoLoc
          /\ UNCHANGED <<blocks, pending, listening>> /\ UNCHANGED scanning

-----------------------------------------------------------------------------
(* The checks of the whole cluster. *)

Servers       == {cluster[k] : k \in DOMAIN cluster}
Returns(l)    == l.values["_return"]
NoTarget      == <<>>

(* The first location of this name in the first server, in the order of the  *)
(* map, that has one which does not lead elsewhere; its first target.        *)
Stays(c, t) ==
    {i \in 1..Len(c.locs) :
        /\ c.locs[i].path = t /\ \A j \in 1..(i - 1) : c.locs[j].path # t
        /\ Returns(c.locs[i]) # <<>> => Returns(c.locs[i])[1] # Away}

NextTarget(t) ==
    LET hits == {n \in 1..Len(KeyOrder) :
                    KeyOrder[n] \in DOMAIN cluster /\ Stays(cluster[KeyOrder[n]], t) # {}}
    IN IF hits = {} THEN NoTarget
       ELSE LET c == cluster[KeyOrder[CHOOSE n \in hits : \A m \in hits : n <= m]]
                r == Returns(c.locs[CHOOSE i \in Stays(c, t) : TRUE])
            IN IF r = <<>> THEN NoTarget ELSE r[1]

MaxHops == Cardinality(UNION {{<<k, i>> : i \in 1..Len(cluster[k].locs)} : k \in DOMAIN cluster})

(* Mistakes: only a location that leads to itself is looked for; what was    *)
(* visited from one location counts for the next.                            *)
SelfLoop(c, i, t) == t = c.locs[i].path

LoopVisitedByAll(c, i, t) ==
    t # Away /\ (t = c.locs[i].path
                 \/ \E j \in 1..(i - 1) : Returns(c.locs[j]) # <<>> /\ Returns(c.locs[j])[1] = t)

(* The targets after t: from each by the first target of its location. *)
Onward(t) == IF t = NoTarget THEN NoTarget ELSE NextTarget(t)

Hops(t) == LET hop[n \in 0..MaxHops] == IF n = 0 THEN t ELSE Onward(hop[n - 1])
           IN hop

(* From a location by one of its targets, then by first targets. *)
Loop(c, i, t) ==
    /\ t # Away
    /\ \E n \in 0..MaxHops :
          /\ Hops(t)[n] # NoTarget
          /\ \/ Hops(t)[n] = c.locs[i].path
             \/ \E m \in 0..(n - 1) : Hops(t)[m] = Hops(t)[n]

HasLoop ==
    \E c \in Servers : \E i \in 1..Len(c.locs) :
        \E j \in 1..Len(Returns(c.locs[i])) : Loop(c, i, Returns(c.locs[i])[j])

CheckRedirectionLoops ==
    at = "loops" /\ Stop(IF HasLoop THEN "looped" ELSE "duplicates")

SharesAddress(c, d) ==
    /\ Host(c) = Host(d)
    /\ \E i \in 1..Len(Ports(c)), j \in 1..Len(Ports(d)) : Ports(c)[i] = Ports(d)[j]

(* _checkDuplicateListenAddresses, and main asks for a server at all. *)
CheckDuplicateListenAddresses ==
    /\ at = "duplicates"
    /\ \/ /\ cluster = <<>> \/ \E k, m \in DOMAIN cluster :
                                   k # m /\ SharesAddress(cluster[k], cluster[m])
          /\ Refuse
       \/ /\ cluster # <<>>
          /\ \A k, m \in DOMAIN cluster : k # m => ~SharesAddress(cluster[k], cluster[m])
          /\ at' = "listen"
          /\ pending' = UNION {{<<Host(c), Ports(c)[i]>> : i \in 1..Len(Ports(c))} : c \in Servers}
          /\ UNCHANGED <<todo, conf, loc, cluster, blocks, listening>> /\ UNCHANGED scanning

(* getServersFds: what fails for one address is reported and skipped. *)
GetServerFd ==
    /\ at = "listen"
    /\ \/ /\ pending = {} /\ at' = "serve" /\ UNCHANGED <<pending, listening>>
       \/ \E a \in pending :
             /\ pending' = pending \ {a}
             /\ \/ UNCHANGED listening
                \/ a[1] \in Addresses /\ listening' = listening \cup {a}
             /\ UNCHANGED at
    /\ UNCHANGED <<todo, conf, loc, cluster, blocks>> /\ UNCHANGED scanning

(* handleMethod: the configuration of a request, by its Host field. *)
ConfigOf(address) == IF address \in DOMAIN cluster THEN cluster[address] ELSE NoConf

Next ==
    \/ FileGoesOn \/ ReadLine \/ EndOfFile
    \/ StartLocation \/ LocationDirective \/ EndLocation \/ ServerDirective
    \/ CreateConfigStruct
    \/ CheckRedirectionLoops \/ CheckDuplicateListenAddresses \/ GetServerFd

Spec == Init /\ [][Next]_vars

-----------------------------------------------------------------------------
(* Properties. *)

TypeOK ==
    /\ at \in {"scan", "fill", "location", "loops", "looped", "duplicates", "listen", "serve",
               "refused", "crashed"}
    /\ openLocation => openServer \/ at = "refused"
    /\ at \in {"fill", "location"} => ~openServer /\ stream = <<>>
    /\ \A k \in DOMAIN cluster : k = Key(cluster[k]) /\ cluster[k].locs # <<>>
    /\ \A k \in DOMAIN cluster : \A i \in 1..Len(cluster[k].locs) : cluster[k].locs[i].path \in Paths
    /\ listening \cap pending = {}
    /\ pieces \in 0..MaxPieces

Accepted == at \in {"loops", "duplicates", "listen", "serve"}

(* Every server block of an accepted file is a server of its own: none is    *)
(* lost among the keys of the map, and none shares an address with another   *)
(* (Config.cpp:70-109).                                                      *)
ServersKept ==
    Accepted =>
        /\ Cardinality(DOMAIN cluster) = blocks
        /\ \A k, m \in DOMAIN cluster : k # m => ~SharesAddress(cluster[k], cluster[m])

(* What a file f means, read off its brackets: a location's block goes to   *)
(* the next "}", a server's from the first line with a "{" after the server *)
(* before to the next "}" that ends no location.                            *)
Min1(S)            == CHOOSE i \in S : \A j \in S : i <= j
Max0(S)            == IF S = {} THEN 0 ELSE CHOOSE i \in S : \A j \in S : i >= j
LinesOf(f, key)    == {i \in 1..Len(f) : f[i].key = key}
Within(f, l, i)    == l < i /\ \A j \in LinesOf(f, "close") : ~(l < j /\ j < i)
InLocation(f, i)   == \E l \in LinesOf(f, "location") : Within(f, l, i)
ServerEnds(f)      == {j \in LinesOf(f, "close") : ~InLocation(f, j)}
EndBefore(f, e)    == Max0({d \in ServerEnds(f) : d < e})
ServerStart(f, e)  == Min1({i \in (EndBefore(f, e) + 1)..(e - 1) : f[i].open})

(* What v has at the places of S, in their order. *)
Nth(S, n)     == CHOOSE i \in {j \in S : Cardinality({m \in S : m < j}) = n - 1} : TRUE
Listing(S, v) == [n \in 1..Cardinality(S) |-> v[Nth(S, n)]]

(* What a directive has been given by the lines of S. *)
Given(f, key, S) ==
    LET all == {i \in S : f[i].key = key}
        own == IF key \in Replaced /\ all # {} THEN {Max0(all)} ELSE all
    IN Listing(own, [i \in own |-> f[i].val])

LocationOf(f, l) ==
    [path |-> f[l].val,
     values |-> [k \in LocationKeys |-> Given(f, k, {i \in 1..Len(f) : Within(f, l, i)})]]

(* The part of a server in the lines of S. *)
PartOf(f, S) ==
    LET locs == S \cap LinesOf(f, "location")
    IN [values |-> [k \in ServerKeys |-> Given(f, k, {i \in S : ~InLocation(f, i)})],
        locs |-> Listing(locs, [l \in locs |-> LocationOf(f, l)])]

MeaningOf(f, e) == PartOf(f, {i \in 1..(e - 1) : i > ServerStart(f, e)})

(* Both passes agree on which block a directive is in: an accepted file has  *)
(* the servers its brackets say, unless a directive of a server has the text *)
(* "location" in its value (Config.cpp:183-219, singleserver.cpp:130-191).   *)
DirectivesAttributed ==
    Accepted /\ (\A i \in 1..Len(file) :
                    file[i].mentions => file[i].key = "location" \/ InLocation(file, i)) =>
        Servers = {MeaningOf(file, e) : e \in ServerEnds(file)}

(* Redirections within a server: where a request for the first target of    *)
(* location i is served.                                                    *)
Local(l)      == Returns(l) # <<>> /\ Returns(l)[1] # Away
LeadsTo(c, i) == IF Local(c.locs[i]) THEN SegmentMatch(c.locs, Returns(c.locs[i])[1]) ELSE 0
NamesOf(c)    == {c.locs[i].path : i \in 1..Len(c.locs)}

Exact(c) ==
    \A i \in 1..Len(c.locs) :
        LeadsTo(c, i) = 0 \/ Returns(c.locs[i])[1] \in NamesOf(c) \/ ~Local(c.locs[LeadsTo(c, i)])

(* In an accepted file no chain of redirections comes back, as requests      *)
(* follow it by longest names; if every target is a location's name or below *)
(* none that redirects, and no other server has locations of the same names  *)
(* (Config.cpp:327-395, Get.cpp:70-129, 375-381).                            *)
RedirectsEnd ==
    at = "duplicates" =>
        \A c \in Servers :
            Exact(c) /\ (\A d \in Servers \ {c} : NamesOf(c) \cap NamesOf(d) = {}) =>
                \A C \in (SUBSET (1..Len(c.locs))) \ {{}} : \E i \in C : LeadsTo(c, i) \notin C

(* A file refused for a loop has one: names that lead to each other, by      *)
(* whichever of their targets (Config.cpp:349-353).                          *)
LoopsReal ==
    at = "looped" =>
        \E C \in (SUBSET UNION {NamesOf(c) : c \in Servers}) \ {{}} :
            \A n \in C : \E c \in Servers : \E i \in 1..Len(c.locs) :
                /\ c.locs[i].path = n
                /\ \E j \in 1..Len(Returns(c.locs[i])) : Returns(c.locs[i])[j] \in C

(* A request to an address the server listens at gets the configuration of   *)
(* the server that asked for it exactly if the address is its first; the     *)
(* others get an empty one (Config.cpp:90-96, MethodHandler.cpp:15).         *)
FirstPortServed ==
    at = "serve" =>
        \A a \in listening : \E c \in Servers :
            /\ Host(c) = a[1] /\ \E i \in 1..Len(Ports(c)) : Ports(c)[i] = a[2]
            /\ ConfigOf(a) = IF a[2] = Ports(c)[1] THEN c ELSE NoConf
=============================================================================
