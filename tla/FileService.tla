---------------------------- MODULE FileService -----------------------------
(***************************************************************************)
(* What the server does with files: MethodGet, postMethod and              *)
(* PerformDelete, one request at a time, one action for what happens       *)
(* between two system calls that look at or change a file.  Between them   *)
(* other programs may change files below the server's roots (Outside).     *)
(*                                                                         *)
(* A file is its number of bytes and who wrote them; a directory is a path *)
(* in dirs.  The error page of a reply is read with the call that failed.  *)
(* HandleAllMethod catches what MethodGet throws when it is a              *)
(* runtime_error, and nothing of the other two: any other exception ends   *)
(* the server.                                                             *)
(***************************************************************************)
EXTENDS LocationMatch, Integers, FiniteSets

CONSTANTS
    Configs,        \* server blocks: locations and error pages
    Requests,       \* what clients ask
    StartFiles,     \* files at the start: a function from paths to data
    StartDirs,      \* directories
    Unreadable,     \* paths that open refuses to read
    Unwritable,     \* paths that access refuses to write
    Insecure,       \* names is_path_secure refuses
    Touched,        \* files other programs write and remove,
    Sizes,          \* with these many bytes
    Large,          \* files longer than this are read in one piece
    Buffered,       \* bodies up to this length are written on close
    Word,           \* 2^64
    MaxAlloc,       \* the longest vector there is memory for
    MaxJobs, MaxOutside, MaxStamp   \* bounds of the model

ASSUME FileAssumption ==
    /\ Insecure \subseteq Names /\ Sizes \subseteq 0..Word - 1
    /\ Large \in Nat /\ Buffered \in Nat /\ Word \in Nat \ {0} /\ MaxAlloc \in Nat
    /\ MaxJobs \in Nat /\ MaxOutside \in Nat /\ MaxStamp \in Nat

SizeT == 0..Word - 1
Open  == -1         \* a bound that a Range header leaves out
Bound == SizeT \cup {Open}

Methods == {"GET", "POST", "DELETE"}
Kinds   == {"multipart", "image", "other", "urlencoded", "none"}   \* of bodies

(* What _isValidLocationPath lets through, and what checkURI does. *)
Location == [path : Paths, methods : SUBSET Methods, root : Seq(Names), index : Names,
             auto : BOOLEAN, ret : Nat, upload : BOOLEAN, store : Seq(Names)]

Request == [method : Methods, path : Paths, query : BOOLEAN, range : {<<>>} \cup (Bound \X Bound),
            form : Kinds, name : Names, size : SizeT, wellformed : BOOLEAN]

Data == [by : Int, size : SizeT]

ASSUME InputAssumption ==
    /\ \A c \in Configs : c.locs \in Seq(Location)
    /\ Requests \subseteq Request
    /\ \A p \in DOMAIN StartFiles : StartFiles[p] \in Data

(* Names as they are generated for uploads. *)
ASSUME GeneratedAssumption == Kinds \X (0..MaxStamp) \subseteq Names

VARIABLES
    config,     \* the server block
    files,      \* path -> [by, size], for the paths where a file is
    dirs,       \* paths where a directory is
    full,       \* there is no space on the disk
    stamp,      \* the minute that ft_random_time reads
    job,        \* the request at work
    answer,     \* the last answer
    receipts,   \* uploads answered with 201 (history)
    jobs,       \* requests received (bounded by MaxJobs)
    outside,    \* changes by other programs (bounded by MaxOutside)
    up          \* the server runs

vars == <<config, files, dirs, full, stamp, job, answer, receipts, jobs, outside, up>>
world == <<config, full, stamp, jobs, outside>>

NoData == [by |-> 0, size |-> 0]

Idle      == [at |-> "idle"]
NoAnswer  == [code |-> 0]

(* What a handler knows: its place, the location it found, the path it works *)
(* on, the size stat gave, the name an upload is stored under and the minute *)
(* in it.                                                                     *)
Job(r) == [at |-> "route", req |-> r, loc |-> 0, path |-> <<>>, seen |-> 0,
           name |-> Empty, minute |-> 0]

(* The places of a handler, each at a system call. *)
GetPlaces    == {"exists", "isfile", "isdir", "index", "size", "read"}
PostPlaces   == {"where", "store"}
DeletePlaces == {"open", "kind", "accessdir", "accessfile", "empty", "remove"}
Places       == {"route"} \cup GetPlaces \cup PostPlaces \cup DeletePlaces

Locs == config.locs
Here == Locs[job.loc]

IsFile(p)   == p \in DOMAIN files
IsDir(p)    == p \in dirs
Exists(p)   == IsFile(p) \/ IsDir(p)
Children(d) == {p \in DOMAIN files \cup dirs : Len(p) = Len(d) + 1 /\ Front(p) = d}
Secure(p)   == \A i \in 1..Len(p) : p[i] \notin Insecure

Init ==
    /\ config \in Configs
    /\ files = StartFiles /\ dirs = StartDirs /\ full = FALSE
    /\ stamp = 0 /\ jobs = 0 /\ outside = 0
    /\ job = Idle /\ answer = NoAnswer /\ receipts = {} /\ up = TRUE

-----------------------------------------------------------------------------
(* Replies: the status, the file the body is from, the part of it that was   *)
(* sent, and the size stat gave.                                             *)

Reply(code, data, from, len) ==
    /\ answer' = [req |-> job.req, code |-> code, data |-> data,
                  from |-> from, len |-> len, seen |-> job.seen, loc |-> job.loc]
    /\ job' = Idle

Plain(code) == Reply(code, NoData, 0, 0)

(* The first configured page of this status that is a file, or the built-in. *)
getErrorPageFromConfig(code) ==
    LET P  == config.pages
        ok == {i \in 1..Len(P) : P[i].code = code /\ IsFile(P[i].path)}
    IN IF ok = {} THEN Plain(code)
       ELSE LET data == files[P[CHOOSE i \in ok : \A j \in ok : i <= j].path]
            IN Reply(code, data, 0, data.size)

Step(at) == job' = [job EXCEPT !.at = at] /\ UNCHANGED answer

(* Mistake: the location is not noted. *)
FoundPath(at, i, path) ==
    job' = [job EXCEPT !.at = at, !.path = path] /\ UNCHANGED answer

(* Location i maps the request to path. *)
Found(at, i, path) ==
    job' = [job EXCEPT !.at = at, !.loc = i, !.path = path] /\ UNCHANGED answer

(* An exception nobody catches: main logs it and returns. *)
EndServer == up' = FALSE /\ UNCHANGED <<job, answer>>

Looks == UNCHANGED <<files, dirs, receipts, up>> /\ UNCHANGED world

Receive(r) ==
    /\ up /\ job = Idle /\ jobs < MaxJobs
    /\ jobs' = jobs + 1
    /\ job' = Job(r)
    /\ UNCHANGED <<config, files, dirs, full, stamp, answer, receipts, outside, up>>

At(at) == up /\ job.at = at

-----------------------------------------------------------------------------
(* GET. *)

(* matchLocation and the beginning of MethodGet. *)
RouteGet ==
    /\ At("route") /\ job.req.method = "GET"
    /\ LET i == SegmentMatch(Locs, job.req.path)
           L == Locs[i]
       IN \/ i = 0 /\ getErrorPageFromConfig(500)
          \/ i # 0 /\ "GET" \notin L.methods /\ getErrorPageFromConfig(405)
          \/ /\ i # 0 /\ "GET" \in L.methods
             /\ \/ ~Secure(Rest(L.path, job.req.path)) /\ getErrorPageFromConfig(403)
                \/ /\ Secure(Rest(L.path, job.req.path))
                   /\ \/ L.ret # 0 /\ Plain(L.ret)
                      \/ L.ret = 0 /\ Found("exists", i, Object(L, job.req.path))
    /\ Looks

PathExists ==
    /\ At("exists")
    /\ IF Exists(job.path) THEN Step("isfile") ELSE getErrorPageFromConfig(404)
    /\ Looks

PathIsFile ==
    /\ At("isfile")
    /\ Step(IF IsFile(job.path) THEN "size" ELSE "isdir")
    /\ Looks

PathIsDirectory ==
    /\ At("isdir")
    /\ IF IsDir(job.path) THEN Step("index") ELSE getErrorPageFromConfig(403)
    /\ Looks

IndexPage ==
    /\ At("index")
    /\ LET page == Append(job.path, Here.index)
       IN \/ IsFile(page) /\ job' = [job EXCEPT !.at = "size", !.path = page]
                          /\ UNCHANGED answer
          \/ ~IsFile(page) /\ Here.auto /\ Plain(200)
          \/ ~IsFile(page) /\ ~Here.auto /\ getErrorPageFromConfig(403)
    /\ Looks

FileSize ==
    /\ At("size")
    /\ \/ ~IsFile(job.path) /\ getErrorPageFromConfig(500)
       \/ /\ IsFile(job.path)
          /\ job' = [job EXCEPT !.at = "read", !.seen = files[job.path].size]
          /\ UNCHANGED answer
    /\ Looks

(* rangeStart, rangeEnd and isPartialContent, in size_t. *)
RangeStart(r)     == IF r.range = <<>> \/ r.range[1] = Open THEN 0 ELSE r.range[1]
RangeEnd(r, size) == IF r.range = <<>> \/ r.range[2] = Open THEN (size - 1) % Word
                     ELSE r.range[2]
(* Mistake: a range that ends at the size of the file is taken. *)
IsPartialToSize(r, size) ==
    /\ r.range # <<>>
    /\ RangeStart(r) < size /\ RangeEnd(r, size) <= size
    /\ RangeStart(r) <= RangeEnd(r, size)

IsPartial(r, size) ==
    /\ r.range # <<>>
    /\ RangeStart(r) < size /\ RangeEnd(r, size) < size
    /\ RangeStart(r) <= RangeEnd(r, size)
ContentLength(r, size) == (RangeEnd(r, size) - RangeStart(r) + 1) % Word

(* Mistake: any Range header will do. *)
ReadsAnyRange(r, size) == size > Large \/ r.range # <<>>

(* Long files and parts of files are read into one vector. *)
ReadsPart(r, size) == size > Large \/ IsPartial(r, size)

BytesRead(data, from, len) ==
    IF data.size <= from THEN 0 ELSE IF len < data.size - from THEN len ELSE data.size - from

ReadFile ==
    /\ At("read")
    /\ LET r       == job.req
           length  == ContentLength(r, job.seen)
           partial == IsPartial(r, job.seen)
           data    == files[job.path]
           start   == RangeStart(r)
       IN IF ~IsFile(job.path) \/ job.path \in Unreadable
          THEN getErrorPageFromConfig(500) /\ UNCHANGED up
          ELSE IF ~ReadsPart(r, job.seen)
          THEN Reply(200, data, 0, data.size) /\ UNCHANGED up
          ELSE IF length > MaxAlloc THEN EndServer     \* length_error, bad_alloc
          ELSE /\ Reply(IF partial THEN 206 ELSE 200, data, start, BytesRead(data, start, length))
               /\ UNCHANGED up
    /\ UNCHANGED <<files, dirs, receipts>> /\ UNCHANGED world

Get == \/ RouteGet \/ PathExists \/ PathIsFile \/ PathIsDirectory \/ IndexPage
       \/ FileSize \/ ReadFile

-----------------------------------------------------------------------------
(* POST. *)

(* Mistake: the name does not tell the minute. *)
GeneratedAgain(form) == <<form, 0>>

(* generate_filename: the kind of content and the minute. *)
GeneratedName(form) == <<form, stamp>>

(* The name in a multipart body, unless it is missing or empty. *)
Given(r) == r.form = "multipart" /\ r.name # Empty

UploadName(r) == IF Given(r) THEN r.name ELSE GeneratedName(r.form)

UploadPath(L, r) ==
    IF L.store # <<>> THEN L.store
    ELSE IF r.form = "multipart" \/ L.upload THEN L.root ELSE <<>>

(* postMethod up to the first look at the disk. *)
RoutePost ==
    /\ At("route") /\ job.req.method = "POST"
    /\ LET i == TextMatch(Locs, job.req.path)
           L == Locs[i]
           r == job.req
       IN \/ i = 0 /\ getErrorPageFromConfig(404)
          \/ i # 0 /\ L.ret # 0 /\ Plain(L.ret)
          \/ i # 0 /\ L.ret = 0 /\ "POST" \notin L.methods /\ getErrorPageFromConfig(405)
          \/ /\ i # 0 /\ L.ret = 0 /\ "POST" \in L.methods
             /\ \/ r.form = "urlencoded" /\ getErrorPageFromConfig(200)
                \/ r.form = "multipart" /\ ~L.upload /\ getErrorPageFromConfig(403)
                \/ r.form = "multipart" /\ L.upload /\ ~r.wellformed /\ getErrorPageFromConfig(400)
                \/ /\ r.form # "urlencoded"
                   /\ r.form = "multipart" => L.upload /\ r.wellformed
                   /\ job' = [job EXCEPT !.at = "where", !.loc = i, !.path = UploadPath(L, r),
                                         !.name = UploadName(r), !.minute = stamp]
                   /\ UNCHANGED answer
    /\ Looks

WhereToStore ==
    /\ At("where")
    /\ \/ ~Exists(job.path) /\ getErrorPageFromConfig(500)
       \/ /\ Exists(job.path)
          /\ job' = [job EXCEPT !.at = "store",
                        !.path = IF IsDir(job.path) THEN Append(job.path, job.name) ELSE job.path]
          /\ UNCHANGED answer
    /\ Looks

CanWrite(p) == Len(p) > 1 /\ IsDir(Front(p)) /\ ~IsDir(p) /\ p \notin Unwritable

Put(p, data) == [q \in DOMAIN files \cup {p} |-> IF q = p THEN data ELSE files[q]]

(* Mistake: no write is asked about. *)
WriteTrusted(n, size) == FALSE

(* The stream fails when a long body does not fit; a short one is lost in    *)
(* close, which nobody asks about.                                           *)
WriteFails(n, size) == n < size /\ size > Buffered

Receipt(data) ==
    [path |-> job.path, data |-> data, size |-> job.req.size, name |-> job.name,
     minute |-> job.minute, given |-> Given(job.req), area |-> UploadPath(Here, job.req)]

Store ==
    /\ At("store")
    /\ \/ ~CanWrite(job.path) /\ getErrorPageFromConfig(500) /\ UNCHANGED <<files, receipts>>
       \/ /\ CanWrite(job.path)
          /\ \E n \in IF full THEN 0..job.req.size ELSE {job.req.size} :
                LET data == [by |-> jobs, size |-> n]
                IN /\ files' = Put(job.path, data)
                   /\ IF WriteFails(n, job.req.size)
                      THEN getErrorPageFromConfig(500) /\ UNCHANGED receipts
                      ELSE getErrorPageFromConfig(201) /\ receipts' = receipts \cup {Receipt(data)}
    /\ UNCHANGED <<dirs, up>> /\ UNCHANGED world

Post == RoutePost \/ WhereToStore \/ Store

-----------------------------------------------------------------------------
(* DELETE. *)

(* Mistake: asking the location whose name the text of the path begins with. *)
checkIfAllowedByText(r) ==
    LET i == TextMatch(Locs, r.path)
    IN i # 0 /\ "DELETE" \in Locs[i].methods

checkIfAllowed(r) ==
    LET i == MethodMatch(Locs, r.path, r.query)
    IN i # 0 /\ "DELETE" \in Locs[i].methods

(* PerformDelete up to the first look at the disk. *)
RouteDelete ==
    /\ At("route") /\ job.req.method = "DELETE"
    /\ LET r == job.req
           i == TextMatch(Locs, r.path)
           k == SegmentMatch(Locs, r.path)
       IN \/ i = 0 /\ getErrorPageFromConfig(404) /\ UNCHANGED up
          \/ i # 0 /\ Locs[i].ret # 0 /\ Plain(Locs[i].ret) /\ UNCHANGED up
          \/ /\ i # 0 /\ Locs[i].ret = 0 /\ ~checkIfAllowed(r)
             /\ getErrorPageFromConfig(405) /\ UNCHANGED up
          \/ /\ i # 0 /\ Locs[i].ret = 0 /\ checkIfAllowed(r)
             /\ \/ k # 0 /\ ~Secure(Rest(Locs[k].path, r.path)) /\ EndServer
                \/ /\ k # 0 => Secure(Rest(Locs[k].path, r.path))
                   /\ IF k = 0 \/ Object(Locs[k], r.path) = <<>>
                      THEN getErrorPageFromConfig(404)
                      ELSE Found("open", k, Object(Locs[k], r.path))
                   /\ UNCHANGED up
    /\ UNCHANGED <<files, dirs, receipts>> /\ UNCHANGED world

CheckFile ==
    /\ At("open")
    /\ IF Exists(job.path) /\ job.path \notin Unreadable
       THEN Step("kind") ELSE getErrorPageFromConfig(404)
    /\ Looks

CheckIsDir ==
    /\ At("kind")
    /\ Step(IF IsDir(job.path) THEN "accessdir" ELSE "accessfile")
    /\ Looks

CheckAccess ==
    /\ At("accessdir") \/ At("accessfile")
    /\ IF Exists(job.path) /\ job.path \notin Unwritable
       THEN Step(IF job.at = "accessdir" THEN "empty" ELSE "remove")
       ELSE getErrorPageFromConfig(403)
    /\ Looks

IsDirEmpty ==
    /\ At("empty")
    /\ IF IsDir(job.path) /\ Children(job.path) = {}
       THEN Step("remove") ELSE getErrorPageFromConfig(409)
    /\ Looks

(* remove(3): unlink, or rmdir of what is empty now. *)
CanRemove(p) ==
    /\ Exists(p) /\ Children(p) = {}
    /\ Len(p) > 1 => Front(p) \notin Unwritable

Remove ==
    /\ At("remove")
    /\ \/ ~CanRemove(job.path) /\ getErrorPageFromConfig(500) /\ UNCHANGED <<files, dirs>>
       \/ /\ CanRemove(job.path)
          /\ files' = [q \in DOMAIN files \ {job.path} |-> files[q]]
          /\ dirs' = dirs \ {job.path}
          /\ Plain(204)
    /\ UNCHANGED <<receipts, up>> /\ UNCHANGED world

Delete == RouteDelete \/ CheckFile \/ CheckIsDir \/ CheckAccess \/ IsDirEmpty \/ Remove

-----------------------------------------------------------------------------
(* Everything else on the machine. *)

Outside ==
    /\ up /\ outside < MaxOutside /\ job # Idle
    /\ outside' = outside + 1
    /\ \/ /\ full' = ~full /\ UNCHANGED files
       \/ /\ UNCHANGED full
          /\ \E p \in Touched :
                \/ \E n \in Sizes :
                      /\ IsDir(Front(p)) /\ ~IsDir(p)
                      /\ files' = Put(p, [by |-> -outside', size |-> n])
                \/ IsFile(p) /\ files' = [q \in DOMAIN files \ {p} |-> files[q]]
    /\ UNCHANGED <<config, dirs, stamp, job, answer, receipts, jobs, up>>

(* The time that /proc/self shows moves on, some time after the minute does. *)
Tick ==
    /\ up /\ stamp < MaxStamp /\ job = Idle
    /\ stamp' = stamp + 1
    /\ UNCHANGED <<config, files, dirs, full, job, answer, receipts, jobs, outside, up>>

Next ==
    \/ \E r \in Requests : Receive(r)
    \/ Get \/ Post \/ Delete
    \/ Outside \/ Tick

Spec == Init /\ [][Next]_vars

-----------------------------------------------------------------------------
(* Properties. *)

TypeOK ==
    /\ config \in Configs
    /\ full \in BOOLEAN /\ stamp \in 0..MaxStamp /\ up \in BOOLEAN
    /\ jobs \in 0..MaxJobs /\ outside \in 0..MaxOutside
    /\ dirs \subseteq StartDirs
    /\ \A p \in DOMAIN files : files[p] \in Data
    /\ \/ job = Idle
       \/ /\ job \in [at : Places, req : Requests, loc : 0..Len(Locs), path : Seq(Names),
                      seen : SizeT, name : Names, minute : 0..MaxStamp]
          /\ job.loc = 0 <=> job.at = "route"
    /\ \A r \in receipts :
          /\ r \in [path : Seq(Names), data : Data, size : SizeT, name : Names,
                   minute : 0..MaxStamp, given : BOOLEAN, area : Seq(Names)]
          /\ r.data.by \in 1..jobs /\ r.data.size <= r.size

(* What is sent of a file is what was asked for.  A 206 holds the bytes of   *)
(* the range, cut off only where the file became shorter after stat; a 200   *)
(* holds the whole file, unless the file is a long one that grew after stat  *)
(* or whose range was found invalid (Get.cpp:219-292).                       *)
AnswerFaithful ==
    answer.code \in {200, 206} /\ answer.req.method = "GET" /\ answer.data # NoData =>
        LET a == answer
            r == a.req
        IN IF a.code = 206
           THEN /\ r.range # <<>>
                /\ a.from = RangeStart(r) /\ a.from <= RangeEnd(r, a.seen)
                /\ RangeEnd(r, a.seen) < a.seen
                /\ \/ a.len = RangeEnd(r, a.seen) - a.from + 1
                   \/ a.data.size < a.seen /\ a.len = BytesRead(a.data, a.from, a.seen)
           ELSE \/ a.from = 0 /\ a.len = a.data.size
                \/ a.seen > Large /\ (r.range # <<>> \/ a.data.size > a.seen)

(* What the server did with a file, the location that is responsible for it  *)
(* allows; of DELETE with a query, the location above it may be asked when   *)
(* the path is itself the name of one (Get.cpp:95, pwist.cpp:224,            *)
(* DELETE.cpp:149-172).                                                      *)
Permitted ==
    answer.code \in {200, 201, 204, 206} /\ answer.loc # 0 =>
        \/ answer.req.method \in Locs[answer.loc].methods
        \/ /\ answer.req.method = "DELETE" /\ answer.req.query
           /\ Locs[answer.loc].path = answer.req.path

(* An upload answered with 201 is stored whole, or its body was so short     *)
(* that the stream wrote it only in close (pwist.cpp:103-109, 201-207).      *)
StoredWhole == \A r \in receipts : r.data.size < r.size => r.size <= Buffered

(* A stored upload is lost only to a DELETE of its path, to another program, *)
(* or to a later upload: one that gives the same name, or whose name was     *)
(* generated in the same minute, or any, where the upload path is a file     *)
(* (pwist.cpp:4-16, 82-97, 172-195, ft_time.cpp:107-132).                    *)
Kept(r) == IsFile(r.path) /\ files[r.path] = r.data

UploadLostOnly ==
    [][\A r \in receipts : Kept(r) /\ ~Kept(r)' =>
          \/ outside' # outside
          \/ job.at = "remove" /\ job.path = r.path
          \/ /\ job.at = "store" /\ job.path = r.path
             /\ \/ /\ job.name = r.name
                   /\ r.given \/ Given(job.req) \/ job.minute = r.minute
                \/ r.path \in {UploadPath(Here, job.req), r.area}]_vars

(* The server ends only at a DELETE of a path that is_path_secure refuses,   *)
(* which throws outside any try (DELETE.cpp:197-200), at a range of a long    *)
(* file that is not inside it, or at a file longer than the memory there is  *)
(* (Get.cpp:247-261).                                                        *)
EndsOnly ==
    ~up => \/ /\ job.req.method = "DELETE"
              /\ ~Secure(job.req.path)
           \/ /\ job.at = "read" /\ job.seen > Large /\ job.req.range # <<>>
              /\ ~IsPartial(job.req, job.seen)
           \/ job.at = "read" /\ job.seen > MaxAlloc
=============================================================================
