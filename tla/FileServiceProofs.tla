------------------------- MODULE FileServiceProofs --------------------------
(* The file handlers keep to their types, answer with what was asked for, do  *)
(* to files only what a location allows, and lose uploads only where expected,*)
(* for every configuration, request and behaviour of the rest of the machine. *)
EXTENDS FileService, LocationMatchProofs

JobSet == [at : Places, req : Requests, loc : 0..Len(Locs), path : Seq(Names),
           seen : SizeT, name : Names, minute : 0..MaxStamp]

(* What a handler has made sure of by the time it is at a place. *)
Working(j) ==
    LET L == Locs[j.loc]
        r == j.req
        u == UploadPath(L, r)
    IN /\ j \in JobSet
       /\ j.loc = 0 <=> j.at = "route"
       /\ j.at \in GetPlaces => r.method = "GET" /\ "GET" \in L.methods
       /\ j.at \in PostPlaces =>
             /\ r.method = "POST" /\ "POST" \in L.methods
             /\ Given(r) \/ j.name = <<r.form, j.minute>>
             /\ j.path \in {u, Append(u, j.name)}
       /\ j.at = "where" => j.path = u
       /\ j.at \in DeletePlaces =>
             /\ r.method = "DELETE"
             /\ "DELETE" \in L.methods \/ (r.query /\ L.path = r.path)

JobOK == job # Idle => jobs >= 1 /\ Working(job)

(* Where a receipt says an upload went, and under which name. *)
ReceiptsOK ==
    \A r \in receipts :
        /\ r.path \in {r.area, Append(r.area, r.name)}
        /\ r.given \/ \E f \in Kinds : r.name = <<f, r.minute>>

IInv == /\ TypeOK /\ JobOK /\ ReceiptsOK
        /\ AnswerFaithful /\ Permitted /\ StoredWhole /\ EndsOnly

-----------------------------------------------------------------------------
(* Facts about configurations and paths. *)

LEMMA Locations ==
    ASSUME config \in Configs
    PROVE  /\ Len(Locs) \in Nat /\ Located(Locs)
           /\ \A i \in 1..Len(Locs) : Locs[i] \in Location
<1>1. Locs \in Seq(Location)
    BY InputAssumption DEF Locs
<1>2. \A i \in 1..Len(Locs) : Locs[i] \in Location
    BY <1>1
<1> QED  BY <1>1, <1>2 DEF Located, Location

(* A match that is not 0 is one of the locations that fit. *)
LEMMA MatchIn ==
    ASSUME NEW locs, NEW p
    PROVE  /\ SegmentMatch(locs, p) # 0 => SegmentMatch(locs, p) \in SegmentFits(locs, p)
           /\ TextMatch(locs, p) # 0 => TextMatch(locs, p) \in TextFits(locs, p)
<1>1. 0 \notin SegmentFits(locs, p) /\ 0 \notin TextFits(locs, p)
    BY DEF SegmentFits, TextFits
<1> QED  BY <1>1, BestFits DEF SegmentMatch, TextMatch

LEMMA RestType ==
    ASSUME NEW l \in Paths, NEW p \in Paths
    PROVE  Rest(l, p) \in Seq(Names)
<1>1. Len(l) \in Nat /\ p \in Seq(Names) /\ Len(p) \in Nat
    BY DEF Paths
<1>2. SubSeq(p, Len(l) + 1, Len(p)) \in Seq(Names)
    BY <1>1, \A i \in Len(l) + 1 .. Len(p) : p[i] \in Names, SubSeqProperties
<1> QED  BY <1>1, <1>2 DEF Rest

(* What remains of a secure path is secure. *)
LEMMA RestSecure ==
    ASSUME NEW l \in Paths, NEW p \in Paths, Secure(p)
    PROVE  Secure(Rest(l, p))
<1>1. Len(l) \in Nat /\ p \in Seq(Names) /\ Len(p) \in Nat
    BY DEF Paths
<1>2. CASE Rest(l, p) \in {p, <<>>}
    BY <1>2 DEF Secure
<1>3. CASE Rest(l, p) = SubSeq(p, Len(l) + 1, Len(p))
    <2> DEFINE s == SubSeq(p, Len(l) + 1, Len(p))
    <2>1. \A i \in Len(l) + 1 .. Len(p) : p[i] \in Names
        BY <1>1
    <2>2. /\ Len(s) = IF Len(l) + 1 <= Len(p) THEN Len(p) - (Len(l) + 1) + 1 ELSE 0
          /\ \A i \in 1..Len(s) : s[i] = p[Len(l) + 1 + i - 1]
        BY <1>1, <2>1, SubSeqProperties
    <2>3. \A i \in 1..Len(s) : s[i] \notin Insecure
        <3> TAKE i \in 1..Len(s)
        <3>1. Len(l) + 1 + i - 1 \in 1..Len(p)
            BY <1>1, <2>2
        <3> QED  BY <2>2, <3>1 DEF Secure
    <2> QED  BY <1>3, <2>3 DEF Secure
<1> QED  BY <1>2, <1>3 DEF Rest

LEMMA Modulo ==
    ASSUME NEW w \in Nat \ {0}, NEW a \in 0..w - 1
    PROVE  a % w = a
OBVIOUS

-----------------------------------------------------------------------------
(* The ends of a handler. *)

(* The handler of a request that is at work moves on. *)
LEMMA Moved ==
    ASSUME IInv, up, job # Idle, Looks, UNCHANGED answer, Working(job'), job' # Idle
    PROVE  IInv'
<1> USE DEF IInv, Looks, world
<1>1. TypeOK'
    BY DEF TypeOK, Working, JobSet, Locs
<1>2. JobOK'
    BY DEF JobOK, Working, JobSet, Locs, UploadPath
<1>3. ReceiptsOK' /\ StoredWhole'
    BY DEF ReceiptsOK, StoredWhole
<1>4. AnswerFaithful' /\ Permitted'
    BY DEF AnswerFaithful, Permitted, Locs
<1>5. EndsOnly'
    BY DEF EndsOnly
<1> QED  BY <1>1, <1>2, <1>3, <1>4, <1>5

(* It ends with an answer that keeps the promises. *)
LEMMA Ended ==
    ASSUME IInv, up, Looks, job' = Idle, AnswerFaithful', Permitted'
    PROVE  IInv'
<1> USE DEF IInv, Looks, world
<1>1. TypeOK'
    BY DEF TypeOK, Locs
<1>2. JobOK'
    BY DEF JobOK
<1>3. ReceiptsOK' /\ StoredWhole' /\ EndsOnly'
    BY DEF ReceiptsOK, StoredWhole, EndsOnly
<1> QED  BY <1>1, <1>2, <1>3

LEMMA PageReply ==
    ASSUME NEW code, getErrorPageFromConfig(code)
    PROVE  \E data, len : Reply(code, data, 0, len)
BY Zenon DEF getErrorPageFromConfig, Plain

(* Error pages promise nothing. *)
LEMMA ErrorAnswer ==
    ASSUME NEW code, getErrorPageFromConfig(code), code \notin {200, 201, 204, 206}
    PROVE  job' = Idle /\ AnswerFaithful' /\ Permitted'
<1>1. job' = Idle /\ answer'.code = code
    BY PageReply DEF Reply
<1> QED  BY <1>1 DEF AnswerFaithful, Permitted

(* A reply without a file, before a location is chosen or where it allows.   *)
LEMMA PlainAnswer ==
    ASSUME NEW code, Plain(code), UNCHANGED config, job.loc = 0
    PROVE  job' = Idle /\ AnswerFaithful' /\ Permitted'
<1>1. job' = Idle /\ answer'.data = NoData /\ answer'.loc = 0
    BY DEF Plain, Reply
<1> QED  BY <1>1 DEF AnswerFaithful, Permitted

(* A handler at one of its places is at work on its request. *)
LEMMA AtWork ==
    ASSUME IInv, NEW at \in Places, At(at)
    PROVE  up /\ job # Idle /\ jobs >= 1 /\ Working(job) /\ job \in JobSet
<1>1. "idle" \notin Places
    BY DEF Places, GetPlaces, PostPlaces, DeletePlaces
<1>2. job # Idle
    BY <1>1 DEF At, Idle
<1> QED  BY <1>2 DEF IInv, JobOK, Working, At

(* It goes on to the next place of the same handler. *)
LEMMA Stepped ==
    ASSUME IInv, up, job # Idle, Looks, NEW at, Step(at),
           \/ job.at \in GetPlaces /\ at \in GetPlaces
           \/ job.at \in DeletePlaces /\ at \in DeletePlaces
    PROVE  IInv'
<1>1. Working(job) /\ job \in JobSet
    BY DEF IInv, JobOK, Working
<1>2. at \in Places /\ at \notin {"idle", "route", "where"} /\ at \notin PostPlaces
    BY DEF Places, GetPlaces, PostPlaces, DeletePlaces
<1>3. job.at # "route" /\ job.at # "where"
    BY DEF GetPlaces, DeletePlaces
<1>4. ~(job.at \in GetPlaces /\ job.at \in DeletePlaces)
      /\ ~(at \in GetPlaces /\ at \in DeletePlaces)
    BY DEF GetPlaces, DeletePlaces
<1> DEFINE next == [job EXCEPT !.at = at]
<1>5. /\ next \in JobSet /\ next.at = at /\ next.req = job.req /\ next.loc = job.loc
      /\ next.path = job.path /\ next.name = job.name /\ next.minute = job.minute
    BY <1>1, <1>2 DEF JobSet
<1> HIDE DEF next
<1>6. Working(next)
    BY <1>1, <1>2, <1>3, <1>4, <1>5 DEF Working
<1>7. next # Idle
    BY <1>2, <1>5 DEF Idle
<1>8. job' = next /\ UNCHANGED answer
    BY DEF Step, next
<1> QED  BY <1>6, <1>7, <1>8, Moved

(* An error ends it. *)
LEMMA Failed ==
    ASSUME IInv, up, Looks, NEW code, getErrorPageFromConfig(code),
           code \notin {200, 201, 204, 206}
    PROVE  IInv'
BY ErrorAnswer, Ended

-----------------------------------------------------------------------------
(* GET. *)

LEMMA KeepsRouteGet ==
    ASSUME IInv, RouteGet
    PROVE  IInv'
<1> DEFINE p == job.req.path
           i == SegmentMatch(Locs, p)
           L == Locs[i]
           o == Object(L, p)
           next == [job EXCEPT !.at = "exists", !.loc = i, !.path = o]
<1>1. /\ up /\ job # Idle /\ Working(job) /\ job \in JobSet /\ job.at = "route"
      /\ Looks /\ UNCHANGED config /\ job.loc = 0 /\ job.req.method = "GET"
    BY AtWork DEF RouteGet, At, Places, Looks, world, Working
<1>2. CASE Found("exists", i, o) /\ i # 0 /\ "GET" \in L.methods
    <2>1. config \in Configs /\ job.req \in Request
        BY <1>1, InputAssumption DEF IInv, TypeOK, JobSet
    <2>2. i \in 1..Len(Locs) /\ L \in Location
        BY <1>2, <2>1, MatchIn, Locations DEF SegmentFits
    <2>3. o \in Seq(Names)
        BY <2>1, <2>2, RestType DEF Location, Request, Object
    <2> HIDE DEF i, o
    <2>4. /\ next \in JobSet /\ next.at = "exists" /\ next.loc = i /\ next.req = job.req
        <3>1. next = [[[job EXCEPT !.at = "exists"] EXCEPT !.loc = i] EXCEPT !.path = o]
            BY <1>1 DEF JobSet
        <3>2. "exists" \in Places /\ i \in 0..Len(Locs)
            BY <2>1, <2>2, Locations DEF Places, GetPlaces
        <3> QED  BY <1>1, <2>3, <3>1, <3>2 DEF JobSet
    <2> HIDE DEF next
    <2>5. /\ "exists" \in GetPlaces /\ "exists" \notin PostPlaces
          /\ "exists" \notin DeletePlaces
        BY DEF GetPlaces, PostPlaces, DeletePlaces
    <2>6. Working(next)
        BY <1>1, <1>2, <2>2, <2>4, <2>5 DEF Working
    <2>7. next # Idle
        BY <2>4 DEF Idle
    <2>8. job' = next /\ UNCHANGED answer
        BY <1>2 DEF Found, next
    <2> QED  BY <1>1, <2>6, <2>7, <2>8, Moved
<1>3. CASE \E code \in {500, 405, 403} : getErrorPageFromConfig(code)
    BY <1>1, <1>3, Failed
<1>4. CASE Plain(L.ret)
    BY <1>1, <1>4, PlainAnswer, Ended
<1> QED  BY <1>2, <1>3, <1>4 DEF RouteGet

LEMMA KeepsLooks ==
    ASSUME IInv, PathExists \/ PathIsFile \/ PathIsDirectory
    PROVE  IInv'
<1>1. /\ up /\ job # Idle /\ job.at \in GetPlaces /\ Looks
      /\ {"isfile", "size", "isdir", "index"} \subseteq GetPlaces
    BY AtWork DEF PathExists, PathIsFile, PathIsDirectory, At, Places, GetPlaces
<1>2. CASE \E at \in {"isfile", "size", "isdir", "index"} : Step(at)
    BY <1>1, <1>2, Stepped
<1>3. CASE \E code \in {404, 403} : getErrorPageFromConfig(code)
    BY <1>1, <1>3, Failed
<1> QED  BY <1>2, <1>3 DEF PathExists, PathIsFile, PathIsDirectory

(* The location at work is one of the server's. *)
LEMMA HereType ==
    ASSUME IInv, job # Idle, job.at # "route"
    PROVE  Here \in Location /\ job.loc # 0 /\ job.req \in Request /\ config \in Configs
<1>1. /\ config \in Configs /\ Working(job) /\ job \in JobSet
    BY DEF IInv, TypeOK, JobOK, Working
<1>2. job.loc \in 0..Len(Locs) /\ job.loc # 0 /\ job.req \in Request
    BY <1>1, InputAssumption DEF JobSet, Working
<1> QED  BY <1>1, <1>2, Locations DEF Here

(* What is answered at a place of GET, its location allows. *)
LEMMA GetPermitted ==
    ASSUME IInv, job # Idle, job.at \in GetPlaces, UNCHANGED config,
           NEW code, NEW data, NEW from, NEW len, Reply(code, data, from, len)
    PROVE  Permitted'
<1>1. job.req.method = "GET" /\ "GET" \in Locs[job.loc].methods
    BY DEF IInv, JobOK, Working
<1>2. answer'.req = job.req /\ answer'.loc = job.loc
    BY DEF Reply
<1>3. Locs' = Locs
    BY DEF Locs
<1> QED  BY <1>1, <1>2, <1>3 DEF Permitted

LEMMA KeepsIndexPage ==
    ASSUME IInv, IndexPage
    PROVE  IInv'
<1> DEFINE page == Append(job.path, Here.index)
           next == [job EXCEPT !.at = "size", !.path = page]
<1>1. /\ up /\ job # Idle /\ job.at = "index" /\ Looks /\ UNCHANGED config
      /\ Working(job) /\ job \in JobSet
      /\ {"size", "index"} \subseteq GetPlaces /\ "size" \notin PostPlaces
      /\ "size" \notin DeletePlaces /\ GetPlaces \subseteq Places
    BY AtWork DEF IndexPage, At, Places, GetPlaces, PostPlaces, DeletePlaces, Looks, world
<1>2. CASE job' = next /\ UNCHANGED answer
    <2>1. page \in Seq(Names)
        BY <1>1, HereType DEF JobSet, Location
    <2> HIDE DEF page
    <2>2. next = [[job EXCEPT !.at = "size"] EXCEPT !.path = page]
        BY <1>1 DEF JobSet
    <2>3. next \in JobSet /\ next.at = "size" /\ next.req = job.req /\ next.loc = job.loc
        BY <1>1, <2>1, <2>2 DEF JobSet
    <2> HIDE DEF next
    <2>4. Working(next)
        BY <1>1, <2>3 DEF Working
    <2>5. next # Idle
        BY <2>3 DEF Idle
    <2> QED  BY <1>1, <1>2, <2>4, <2>5, Moved
<1>3. CASE Plain(200)
    <2>1. Permitted'
        BY <1>1, <1>3, GetPermitted DEF Plain
    <2>2. job' = Idle /\ answer'.data = NoData
        BY <1>3 DEF Plain, Reply
    <2>3. AnswerFaithful'
        BY <2>2 DEF AnswerFaithful
    <2> QED  BY <1>1, <2>1, <2>2, <2>3, Ended
<1>4. CASE getErrorPageFromConfig(403)
    BY <1>1, <1>4, Failed
<1> QED  BY <1>2, <1>3, <1>4 DEF IndexPage

LEMMA KeepsFileSize ==
    ASSUME IInv, FileSize
    PROVE  IInv'
<1> DEFINE n == files[job.path].size
           next == [job EXCEPT !.at = "read", !.seen = n]
<1>1. /\ up /\ job # Idle /\ job.at = "size" /\ Looks
      /\ Working(job) /\ job \in JobSet
      /\ {"size", "read"} \subseteq GetPlaces /\ "read" \notin PostPlaces
      /\ "read" \notin DeletePlaces /\ GetPlaces \subseteq Places
    BY AtWork DEF FileSize, At, Places, GetPlaces, PostPlaces, DeletePlaces
<1>2. CASE IsFile(job.path) /\ job' = next /\ UNCHANGED answer
    <2>1. n \in SizeT
        BY <1>2 DEF IInv, TypeOK, IsFile, Data
    <2> HIDE DEF n
    <2>2. next = [[job EXCEPT !.at = "read"] EXCEPT !.seen = n]
        BY <1>1 DEF JobSet
    <2>3. /\ next \in JobSet /\ next.at = "read" /\ next.req = job.req /\ next.loc = job.loc
        BY <1>1, <2>1, <2>2 DEF JobSet
    <2> HIDE DEF next
    <2>4. Working(next)
        BY <1>1, <2>3 DEF Working
    <2>5. next # Idle
        BY <2>3 DEF Idle
    <2> QED  BY <1>1, <1>2, <2>4, <2>5, Moved
<1>3. CASE getErrorPageFromConfig(500)
    BY <1>1, <1>3, Failed
<1> QED  BY <1>2, <1>3 DEF FileSize

(* The arithmetic of ranges, in which nothing wraps round once it is inside. *)
LEMMA InsideRange ==
    ASSUME NEW r \in Request, NEW size \in SizeT, IsPartial(r, size)
    PROVE  /\ RangeStart(r) \in 0..RangeEnd(r, size) /\ RangeEnd(r, size) < size
           /\ RangeEnd(r, size) \in Nat
           /\ ContentLength(r, size) = RangeEnd(r, size) - RangeStart(r) + 1
<1> DEFINE s == RangeStart(r)
           e == RangeEnd(r, size)
<1>1. r.range \in Bound \X Bound /\ r.range # <<>>
    BY DEF Request, IsPartial
<1>2. r.range[1] \in Bound /\ r.range[2] \in Bound
    BY <1>1
<1>3. Word \in Nat \ {0}
    BY FileAssumption
<1>4. s \in Nat
    BY <1>1, <1>2, <1>3 DEF RangeStart, Bound, SizeT, Open
<1>5. size # 0
    BY <1>4 DEF IsPartial, SizeT
<1>6. (size - 1) % Word = size - 1
    BY <1>3, <1>5, Modulo DEF SizeT
<1>7. e \in Nat
    BY <1>1, <1>2, <1>3, <1>5, <1>6 DEF RangeEnd, Bound, SizeT, Open
<1>8. e < size /\ s <= e
    BY DEF IsPartial
<1> HIDE DEF s, e
<1>9. e - s + 1 \in 0..Word - 1
    BY <1>3, <1>4, <1>7, <1>8 DEF SizeT
<1>10. (e - s + 1) % Word = e - s + 1
    BY <1>3, <1>9, Modulo
<1> QED  BY <1>4, <1>7, <1>8, <1>10 DEF s, e, ContentLength

(* Without a range, the whole of a file that is not empty. *)
LEMMA WholeFile ==
    ASSUME NEW r \in Request, NEW size \in SizeT, size > 0, r.range = <<>>
    PROVE  RangeStart(r) = 0 /\ ContentLength(r, size) = size
<1>1. Word \in Nat \ {0}
    BY FileAssumption
<1>2. RangeStart(r) = 0 /\ RangeEnd(r, size) = (size - 1) % Word
    BY DEF RangeStart, RangeEnd
<1>3. (size - 1) % Word = size - 1 /\ size % Word = size
    BY <1>1, Modulo DEF SizeT
<1>4. size - 1 - 0 + 1 = size
    BY DEF SizeT
<1> QED  BY <1>2, <1>3, <1>4 DEF ContentLength

LEMMA KeepsReadFile ==
    ASSUME IInv, ReadFile
    PROVE  IInv'
<1> DEFINE r       == job.req
           size    == job.seen
           length  == ContentLength(r, size)
           partial == IsPartial(r, size)
           data    == files[job.path]
           start   == RangeStart(r)
           len     == BytesRead(data, start, length)
<1>1. /\ up /\ job # Idle /\ job.at = "read" /\ job.at \in GetPlaces
      /\ UNCHANGED <<files, dirs, receipts, config>> /\ UNCHANGED world
      /\ Working(job) /\ job \in JobSet /\ r \in Request /\ size \in SizeT
      /\ Word \in Nat \ {0} /\ Large \in Nat
    BY AtWork, FileAssumption, InputAssumption
       DEF ReadFile, At, Places, GetPlaces, world, JobSet
<1>2. CASE getErrorPageFromConfig(500) /\ UNCHANGED up
    BY <1>1, <1>2, Failed DEF Looks
<1>3. CASE /\ IsFile(job.path) /\ ~ReadsPart(r, size)
           /\ Reply(200, data, 0, data.size) /\ UNCHANGED up
    <2>1. Permitted'
        BY <1>1, <1>3, GetPermitted
    <2>2. /\ job' = Idle /\ answer'.code = 200 /\ answer'.from = 0 /\ answer'.data = data
          /\ answer'.len = data.size
        BY <1>3 DEF Reply
    <2>3. AnswerFaithful'
        BY <2>2 DEF AnswerFaithful
    <2> QED  BY <1>1, <1>3, <2>1, <2>2, <2>3, Ended DEF Looks
<1>4. CASE ReadsPart(r, size) /\ length > MaxAlloc /\ EndServer
    <2>1. job' = job /\ answer' = answer /\ ~up'
        BY <1>4 DEF EndServer
    <2>2. \/ size > Large /\ r.range # <<>> /\ ~IsPartial(r, size)
          \/ size > MaxAlloc
        <3>1. CASE IsPartial(r, size)
            <4>1. length = RangeEnd(r, size) - RangeStart(r) + 1 /\ RangeEnd(r, size) < size
                  /\ RangeStart(r) \in Nat /\ RangeEnd(r, size) \in Nat
                BY <1>1, <3>1, InsideRange
            <4> QED  BY <1>1, <1>4, <4>1, FileAssumption DEF SizeT
        <3>2. CASE r.range = <<>>
            <4>1. size > Large /\ size > 0
                BY <1>1, <1>4, <3>2 DEF ReadsPart, IsPartial, SizeT
            <4>2. length = size
                BY <1>1, <3>2, <4>1, WholeFile
            <4> QED  BY <1>4, <4>2
        <3>3. CASE r.range # <<>> /\ ~IsPartial(r, size)
            BY <1>4, <3>3 DEF ReadsPart
        <3> QED  BY <3>1, <3>2, <3>3
    <2>3. EndsOnly'
        BY <1>1, <2>1, <2>2 DEF EndsOnly, IsPartial, RangeStart, RangeEnd
    <2>4. TypeOK' /\ JobOK'
        BY <1>1, <1>4, <2>1
           DEF IInv, TypeOK, JobOK, Working, JobSet, Locs, UploadPath, EndServer, world
    <2>5. ReceiptsOK' /\ StoredWhole' /\ AnswerFaithful' /\ Permitted'
        BY <1>1, <2>1 DEF IInv, ReceiptsOK, StoredWhole, AnswerFaithful, Permitted, Locs
    <2> QED  BY <2>3, <2>4, <2>5 DEF IInv
<1>5. CASE /\ IsFile(job.path) /\ ReadsPart(r, size) /\ UNCHANGED up
           /\ Reply(IF partial THEN 206 ELSE 200, data, start, len)
    <2>1. Permitted'
        BY <1>1, <1>5, GetPermitted
    <2>2. /\ job' = Idle /\ answer'.code = (IF partial THEN 206 ELSE 200)
          /\ answer'.from = start /\ answer'.data = data /\ answer'.len = len
          /\ answer'.seen = size /\ answer'.req = r
        BY <1>5 DEF Reply
    <2>3. data.size \in SizeT
        BY <1>5 DEF IInv, TypeOK, IsFile, Data
    <2>4. CASE partial
        <3>1. /\ r.range # <<>> /\ start \in Nat /\ RangeEnd(r, size) \in Nat
              /\ start <= RangeEnd(r, size) /\ RangeEnd(r, size) < size
              /\ length = RangeEnd(r, size) - start + 1
            BY <1>1, <2>4, InsideRange DEF IsPartial
        <3>2. len = RangeEnd(r, size) - start + 1
              \/ (data.size < size /\ len = BytesRead(data, start, size))
            <4> HIDE DEF start, data, size, length
            <4>1. size \in Nat /\ data.size \in Nat
                BY <1>1, <2>3 DEF SizeT
            <4> QED  BY <3>1, <4>1 DEF BytesRead
        <3>3. /\ answer'.code = 206 /\ answer'.from = RangeStart(answer'.req)
              /\ answer'.req.range # <<>>
              /\ answer'.from <= RangeEnd(answer'.req, answer'.seen)
              /\ RangeEnd(answer'.req, answer'.seen) < answer'.seen
            BY <2>2, <2>4, <3>1
        <3>4. \/ answer'.len = RangeEnd(answer'.req, answer'.seen) - answer'.from + 1
              \/ /\ answer'.data.size < answer'.seen
                 /\ answer'.len = BytesRead(answer'.data, answer'.from, answer'.seen)
            BY <2>2, <3>2
        <3>5. AnswerFaithful'
            <4> DEFINE a == answer'
            <4>1. /\ a.code = 206 /\ a.req.range # <<>> /\ a.from = RangeStart(a.req)
                  /\ a.from <= RangeEnd(a.req, a.seen) /\ RangeEnd(a.req, a.seen) < a.seen
                  /\ \/ a.len = RangeEnd(a.req, a.seen) - a.from + 1
                     \/ a.data.size < a.seen /\ a.len = BytesRead(a.data, a.from, a.seen)
                BY <3>3, <3>4
            <4> QED  BY <4>1 DEF AnswerFaithful, RangeStart, RangeEnd, BytesRead
        <3> QED  BY <1>1, <1>5, <2>1, <2>2, <3>5, Ended DEF Looks
    <2>5. CASE ~partial
        <3>1. size > Large /\ size > 0 /\ size \in Nat /\ data.size \in Nat
            BY <1>1, <1>5, <2>3, <2>5 DEF ReadsPart, SizeT
        <3>2. CASE r.range # <<>>
            <4>1. AnswerFaithful'
                BY <2>2, <2>5, <3>1, <3>2 DEF AnswerFaithful
            <4> QED  BY <1>1, <1>5, <2>1, <2>2, <4>1, Ended DEF Looks
        <3>3. CASE r.range = <<>>
            <4>1. start = 0 /\ length = size
                BY <1>1, <3>1, <3>3, WholeFile
            <4>2. len = data.size \/ data.size > size
                <5> HIDE DEF start, data, size, length
                <5> QED  BY <3>1, <4>1 DEF BytesRead
            <4>3. /\ answer'.code = 200 /\ answer'.from = 0
                  /\ \/ answer'.len = answer'.data.size
                     \/ answer'.seen > Large /\ answer'.data.size > answer'.seen
                BY <2>2, <2>5, <3>1, <4>1, <4>2
            <4>4. AnswerFaithful'
                BY <4>3 DEF AnswerFaithful
            <4> QED  BY <1>1, <1>5, <2>1, <2>2, <4>4, Ended DEF Looks
        <3> QED  BY <3>2, <3>3
    <2> QED  BY <2>4, <2>5
<1> QED  BY <1>1, <1>2, <1>3, <1>4, <1>5 DEF ReadFile, Looks

-----------------------------------------------------------------------------
(* POST. *)

LEMMA UploadTypes ==
    ASSUME NEW L \in Location, NEW r \in Request, stamp \in 0..MaxStamp
    PROVE  /\ UploadPath(L, r) \in Seq(Names)
           /\ UploadName(r) \in Names
           /\ Given(r) \/ UploadName(r) = <<r.form, stamp>>
<1>1. <<r.form, stamp>> \in Names
    BY GeneratedAssumption DEF Request
<1>2. L.store \in Seq(Names) /\ L.root \in Seq(Names) /\ <<>> \in Seq(Names) /\ r.name \in Names
    BY DEF Location, Request
<1> QED  BY <1>1, <1>2 DEF UploadPath, UploadName, GeneratedName

LEMMA KeepsRoutePost ==
    ASSUME IInv, RoutePost
    PROVE  IInv'
<1> DEFINE r == job.req
           i == TextMatch(Locs, r.path)
           L == Locs[i]
           u == UploadPath(L, r)
           n == UploadName(r)
           next == [job EXCEPT !.at = "where", !.loc = i, !.path = u,
                               !.name = n, !.minute = stamp]
<1>1. /\ up /\ job # Idle /\ Working(job) /\ job \in JobSet /\ job.at = "route"
      /\ Looks /\ UNCHANGED config /\ job.loc = 0 /\ r.method = "POST"
      /\ config \in Configs /\ r \in Request /\ stamp \in 0..MaxStamp
    BY AtWork, InputAssumption
       DEF RoutePost, At, Places, Looks, world, Working, IInv, TypeOK, JobSet
<1>2. CASE i # 0 /\ "POST" \in L.methods /\ job' = next /\ UNCHANGED answer
    <2>1. i \in 1..Len(Locs) /\ L \in Location /\ i \in 0..Len(Locs)
        BY <1>1, <1>2, MatchIn, Locations DEF TextFits
    <2>2. u \in Seq(Names) /\ n \in Names /\ (Given(r) \/ n = <<r.form, stamp>>)
        BY <1>1, <2>1, UploadTypes
    <2> HIDE DEF i, u, n
    <2>3. next = [[[[[job EXCEPT !.at = "where"] EXCEPT !.loc = i] EXCEPT !.path = u]
                      EXCEPT !.name = n] EXCEPT !.minute = stamp]
        BY <1>1 DEF JobSet
    <2>4. "where" \in Places /\ "where" \in PostPlaces /\ "where" \notin GetPlaces
          /\ "where" \notin DeletePlaces
        BY DEF Places, GetPlaces, PostPlaces, DeletePlaces
    <2>5. /\ next \in JobSet /\ next.at = "where" /\ next.loc = i /\ next.path = u
          /\ next.name = n /\ next.minute = stamp /\ next.req = r
        BY <1>1, <2>1, <2>2, <2>3, <2>4 DEF JobSet
    <2> HIDE DEF next
    <2>6. Working(next)
        BY <1>1, <1>2, <2>1, <2>2, <2>4, <2>5 DEF Working, u
    <2>7. next # Idle
        BY <2>5 DEF Idle
    <2> QED  BY <1>1, <1>2, <2>6, <2>7, Moved
<1>3. CASE getErrorPageFromConfig(200)
    <2>1. PICK data, len : Reply(200, data, 0, len)
        BY <1>3, PageReply
    <2>2. job' = Idle /\ answer'.req = r /\ answer'.loc = 0
        BY <1>1, <2>1 DEF Reply
    <2>3. AnswerFaithful' /\ Permitted'
        BY <1>1, <2>2 DEF AnswerFaithful, Permitted
    <2> QED  BY <1>1, <2>2, <2>3, Ended
<1>4. CASE \E code \in {404, 405, 403, 400} : getErrorPageFromConfig(code)
    BY <1>1, <1>4, Failed
<1>5. CASE Plain(L.ret)
    BY <1>1, <1>5, PlainAnswer, Ended
<1>6. \/ getErrorPageFromConfig(404)
      \/ Plain(L.ret)
      \/ getErrorPageFromConfig(405)
      \/ getErrorPageFromConfig(200)
      \/ getErrorPageFromConfig(403)
      \/ getErrorPageFromConfig(400)
      \/ i # 0 /\ "POST" \in L.methods /\ job' = next /\ UNCHANGED answer
    BY Zenon DEF RoutePost
<1> QED  BY <1>2, <1>3, <1>4, <1>5, <1>6

LEMMA KeepsWhereToStore ==
    ASSUME IInv, WhereToStore
    PROVE  IInv'
<1> DEFINE u == job.path
           to == IF IsDir(u) THEN Append(u, job.name) ELSE u
           next == [job EXCEPT !.at = "store", !.path = to]
<1>1. /\ up /\ job # Idle /\ Working(job) /\ job \in JobSet /\ job.at = "where" /\ Looks
      /\ {"where", "store"} \subseteq PostPlaces /\ "store" \notin GetPlaces
      /\ "store" \notin DeletePlaces /\ PostPlaces \subseteq Places
    BY AtWork DEF WhereToStore, At, Places, GetPlaces, PostPlaces, DeletePlaces
<1>2. CASE job' = next /\ UNCHANGED answer
    <2>1. to \in Seq(Names) /\ to \in {u, Append(u, job.name)}
        BY <1>1 DEF JobSet
    <2> HIDE DEF to
    <2>2. next = [[job EXCEPT !.at = "store"] EXCEPT !.path = to]
        BY <1>1 DEF JobSet
    <2>3. /\ next \in JobSet /\ next.at = "store" /\ next.req = job.req /\ next.loc = job.loc
          /\ next.path = to /\ next.name = job.name /\ next.minute = job.minute
        BY <1>1, <2>1, <2>2 DEF JobSet
    <2> HIDE DEF next
    <2>4. u = UploadPath(Locs[job.loc], job.req)
        BY <1>1 DEF Working
    <2>5. Working(next)
        BY <1>1, <2>1, <2>3, <2>4 DEF Working
    <2>6. next # Idle
        BY <2>3 DEF Idle
    <2> QED  BY <1>1, <1>2, <2>5, <2>6, Moved
<1>3. CASE getErrorPageFromConfig(500)
    BY <1>1, <1>3, Failed
<1> QED  BY <1>2, <1>3 DEF WhereToStore

(* A handler ends after it has written or removed a file. *)
LEMMA Changed ==
    ASSUME IInv, up, UNCHANGED world, UNCHANGED <<receipts, up>>, dirs' \subseteq dirs,
           \A p \in DOMAIN files' : files'[p] \in Data,
           job' = Idle, AnswerFaithful', Permitted'
    PROVE  IInv'
<1> USE DEF IInv, world
<1>1. TypeOK'
    BY DEF TypeOK, Locs
<1>2. JobOK' /\ ReceiptsOK' /\ StoredWhole' /\ EndsOnly'
    BY DEF JobOK, ReceiptsOK, StoredWhole, EndsOnly
<1> QED  BY <1>1, <1>2

(* What Store writes, and what is true of it. *)
LEMMA Stored ==
    ASSUME IInv, Store, files' # files \/ receipts' # receipts
    PROVE  \E n \in 0..job.req.size :
              LET data == [by |-> jobs, size |-> n]
              IN /\ data \in Data /\ files' = Put(job.path, data)
                 /\ \/ receipts' = receipts
                    \/ ~WriteFails(n, job.req.size) /\ receipts' = receipts \cup {Receipt(data)}
<1>1. job.req \in Request /\ jobs \in Nat
    BY AtWork, InputAssumption DEF Store, At, Places, PostPlaces, JobSet, IInv, TypeOK
<1>2. job.req.size \in 0..Word - 1 /\ Word \in Nat
    BY <1>1, FileAssumption DEF Request, SizeT
<1>3. PICK n \in IF full THEN 0..job.req.size ELSE {job.req.size} :
        LET data == [by |-> jobs, size |-> n]
        IN /\ files' = Put(job.path, data)
           /\ \/ receipts' = receipts
              \/ ~WriteFails(n, job.req.size) /\ receipts' = receipts \cup {Receipt(data)}
    BY DEF Store
<1>4. n \in 0..job.req.size
    BY <1>2, <1>3
<1>5. [by |-> jobs, size |-> n] \in Data
    BY <1>1, <1>2, <1>4 DEF Data, SizeT
<1> QED  BY <1>3, <1>4, <1>5

LEMMA KeepsStore ==
    ASSUME IInv, Store
    PROVE  IInv'
<1> DEFINE r == job.req
<1>1. /\ up /\ job # Idle /\ Working(job) /\ job \in JobSet /\ job.at = "store"
      /\ UNCHANGED world /\ UNCHANGED <<dirs, up, config, jobs>> /\ r \in Request
      /\ jobs >= 1 /\ jobs \in Nat /\ job.at \in PostPlaces
    BY AtWork, InputAssumption DEF Store, At, Places, PostPlaces, JobSet, world, IInv, TypeOK
<1>2. job' = Idle /\ AnswerFaithful' /\ Permitted'
    <2>1. PICK code \in {500, 201} : getErrorPageFromConfig(code)
        BY DEF Store
    <2>2. PICK data, len : Reply(code, data, 0, len)
        BY <2>1, PageReply
    <2>3. job' = Idle /\ answer'.req = r /\ answer'.loc = job.loc /\ answer'.code = code
        BY <2>2 DEF Reply
    <2>4. r.method = "POST" /\ "POST" \in Locs[job.loc].methods /\ Locs' = Locs
        BY <1>1 DEF Working, Locs
    <2> QED  BY <2>1, <2>3, <2>4 DEF AnswerFaithful, Permitted
<1>3. CASE files' = files /\ receipts' = receipts
    BY <1>1, <1>2, <1>3, Ended DEF Looks
<1>4. CASE files' # files \/ receipts' # receipts
    <2>1. PICK n \in 0..r.size :
            LET data == [by |-> jobs, size |-> n]
            IN /\ data \in Data /\ files' = Put(job.path, data)
               /\ \/ receipts' = receipts
                  \/ ~WriteFails(n, r.size) /\ receipts' = receipts \cup {Receipt(data)}
        BY <1>4, Stored
    <2> DEFINE data == [by |-> jobs, size |-> n]
               rc == Receipt(data)
    <2>2. \A p \in DOMAIN files' : files'[p] \in Data
        BY <2>1 DEF Put, IInv, TypeOK
    <2>3. CASE receipts' = receipts
        BY <1>1, <1>2, <2>2, <2>3, Changed
    <2>4. CASE ~WriteFails(n, r.size) /\ receipts' = receipts \cup {rc}
        <3>1. /\ rc.path = job.path /\ rc.data = data /\ rc.size = r.size /\ rc.name = job.name
              /\ rc.minute = job.minute /\ rc.given = Given(r) /\ rc.area = UploadPath(Here, r)
            BY DEF Receipt
        <3>2. Here \in Location /\ r.size \in Nat
            BY <1>1, HereType, FileAssumption DEF Request, SizeT
        <3>3. UploadPath(Here, r) \in Seq(Names)
            BY <3>2 DEF UploadPath, Location
        <3>4. rc \in [path : Seq(Names), data : Data, size : SizeT, name : Names,
                       minute : 0..MaxStamp, given : BOOLEAN, area : Seq(Names)]
            BY <1>1, <2>1, <3>3 DEF Receipt, JobSet, Request, Given
        <3>5. rc.data.by \in 1..jobs /\ rc.data.size <= rc.size
            BY <1>1, <2>1, <3>1, <3>2
        <3>6. rc.data.size < rc.size => rc.size <= Buffered
            BY <2>1, <2>4, <3>1, <3>2, FileAssumption DEF WriteFails
        <3>7. /\ rc.path \in {rc.area, Append(rc.area, rc.name)}
              /\ rc.given \/ \E f \in Kinds : rc.name = <<f, rc.minute>>
            BY <1>1, <3>1 DEF Working, Here, Request
        <3> HIDE DEF rc
        <3>8. TypeOK'
            BY <1>1, <1>2, <2>2, <2>4, <3>4, <3>5 DEF IInv, TypeOK, world, Locs
        <3>9. ReceiptsOK'
            BY <2>4, <3>7 DEF IInv, ReceiptsOK
        <3>10. StoredWhole'
            BY <2>4, <3>6 DEF IInv, StoredWhole
        <3>11. JobOK' /\ EndsOnly'
            BY <1>1, <1>2 DEF JobOK, EndsOnly
        <3> QED  BY <1>2, <3>8, <3>9, <3>10, <3>11 DEF IInv
    <2> QED  BY <2>1, <2>3, <2>4
<1> QED  BY <1>3, <1>4

-----------------------------------------------------------------------------
(* DELETE. *)

(* Where checkIfAllowed allows it, the location of the object does, or the   *)
(* path is the name of that location and comes with a query.                 *)
LEMMA AllowedHere ==
    ASSUME config \in Configs, NEW r \in Request, checkIfAllowed(r),
           SegmentMatch(Locs, r.path) # 0
    PROVE  LET L == Locs[SegmentMatch(Locs, r.path)]
           IN "DELETE" \in L.methods \/ (r.query /\ L.path = r.path)
<1> DEFINE k == SegmentMatch(Locs, r.path)
           m == MethodMatch(Locs, r.path, r.query)
<1>1. Located(Locs) /\ r.path \in Paths /\ r.query \in BOOLEAN
    BY Locations DEF Request
<1>2. "DELETE" \in Locs[m].methods
    BY DEF checkIfAllowed
<1>3. CASE r.query = FALSE
    BY <1>2, <1>3 DEF MethodMatch
<1>4. CASE r.query = TRUE /\ Locs[k].path # r.path
    <2>1. m = k
        BY <1>1, <1>4, QueryAsksAbove
    <2> QED  BY <1>2, <2>1
<1> QED  BY <1>1, <1>3, <1>4

LEMMA KeepsRouteDelete ==
    ASSUME IInv, RouteDelete
    PROVE  IInv'
<1> DEFINE r == job.req
           i == TextMatch(Locs, r.path)
           k == SegmentMatch(Locs, r.path)
           L == Locs[k]
           o == Object(L, r.path)
           next == [job EXCEPT !.at = "open", !.loc = k, !.path = o]
<1>1. /\ up /\ job # Idle /\ Working(job) /\ job \in JobSet /\ job.at = "route"
      /\ UNCHANGED <<files, dirs, receipts>> /\ UNCHANGED world /\ UNCHANGED config
      /\ job.loc = 0 /\ r.method = "DELETE"
      /\ config \in Configs /\ r \in Request /\ r.path \in Paths
    BY AtWork, InputAssumption
       DEF RouteDelete, At, Places, world, Working, IInv, TypeOK, JobSet, Request
<1>2. CASE checkIfAllowed(r) /\ k # 0 /\ ~Secure(Rest(L.path, r.path)) /\ EndServer
    <2>1. L.path \in Paths
        BY <1>1, <1>2, MatchIn, Locations DEF SegmentFits, Located
    <2>2. ~Secure(r.path)
        BY <1>1, <1>2, <2>1, RestSecure
    <2>3. job' = job /\ answer' = answer /\ ~up'
        BY <1>2 DEF EndServer
    <2>4. EndsOnly'
        BY <1>1, <2>2, <2>3 DEF EndsOnly, Secure
    <2>5. TypeOK' /\ JobOK'
        BY <1>1, <1>2, <2>3
           DEF IInv, TypeOK, JobOK, Working, JobSet, Locs, UploadPath, EndServer, world
    <2>6. ReceiptsOK' /\ StoredWhole' /\ AnswerFaithful' /\ Permitted'
        BY <1>1, <2>3 DEF IInv, ReceiptsOK, StoredWhole, AnswerFaithful, Permitted, Locs
    <2> QED  BY <2>4, <2>5, <2>6 DEF IInv
<1>3. CASE checkIfAllowed(r) /\ k # 0 /\ Found("open", k, o) /\ UNCHANGED up
    <2>1. k \in 0..Len(Locs) /\ L \in Location
        BY <1>1, <1>3, MatchIn, Locations DEF SegmentFits
    <2>2. o \in Seq(Names)
        BY <1>1, <2>1, RestType DEF Location, Object
    <2>3. "DELETE" \in L.methods \/ (r.query /\ L.path = r.path)
        BY <1>1, <1>3, AllowedHere
    <2>4. job' = next /\ UNCHANGED answer
        BY <1>3 DEF Found
    <2> HIDE DEF k, o
    <2>5. next = [[[job EXCEPT !.at = "open"] EXCEPT !.loc = k] EXCEPT !.path = o]
        BY <1>1 DEF JobSet
    <2>6. "open" \in Places /\ "open" \in DeletePlaces /\ "open" \notin GetPlaces
          /\ "open" \notin PostPlaces
        BY DEF Places, GetPlaces, PostPlaces, DeletePlaces
    <2>7. next \in JobSet /\ next.at = "open" /\ next.loc = k /\ next.req = r
        BY <1>1, <2>1, <2>2, <2>5, <2>6 DEF JobSet
    <2> HIDE DEF next
    <2>8. Working(next)
        BY <1>1, <1>3, <2>1, <2>3, <2>6, <2>7 DEF Working
    <2>9. next # Idle
        BY <2>7 DEF Idle
    <2> QED  BY <1>1, <1>3, <2>4, <2>8, <2>9, Moved DEF Looks
<1>4. CASE (\E code \in {404, 405} : getErrorPageFromConfig(code)) /\ UNCHANGED up
    BY <1>1, <1>4, Failed DEF Looks
<1>5. CASE Plain(Locs[i].ret) /\ UNCHANGED up
    BY <1>1, <1>5, PlainAnswer, Ended DEF Looks
<1>6. \/ getErrorPageFromConfig(404) /\ UNCHANGED up
      \/ Plain(Locs[i].ret) /\ UNCHANGED up
      \/ getErrorPageFromConfig(405) /\ UNCHANGED up
      \/ checkIfAllowed(r) /\ k # 0 /\ ~Secure(Rest(L.path, r.path)) /\ EndServer
      \/ checkIfAllowed(r) /\ k # 0 /\ Found("open", k, o) /\ UNCHANGED up
    BY Zenon DEF RouteDelete
<1> QED  BY <1>2, <1>3, <1>4, <1>5, <1>6

LEMMA KeepsChecks ==
    ASSUME IInv, CheckFile \/ CheckIsDir \/ CheckAccess \/ IsDirEmpty
    PROVE  IInv'
<1>1. /\ up /\ job # Idle /\ job.at \in DeletePlaces /\ Looks
      /\ {"kind", "accessdir", "accessfile", "empty", "remove"} \subseteq DeletePlaces
    BY AtWork DEF CheckFile, CheckIsDir, CheckAccess, IsDirEmpty, At, Places, DeletePlaces
<1>2. CASE \E at \in {"kind", "accessdir", "accessfile", "empty", "remove"} : Step(at)
    BY <1>1, <1>2, Stepped
<1>3. CASE \E code \in {404, 403, 409} : getErrorPageFromConfig(code)
    BY <1>1, <1>3, Failed
<1> QED  BY <1>2, <1>3 DEF CheckFile, CheckIsDir, CheckAccess, IsDirEmpty

LEMMA KeepsRemove ==
    ASSUME IInv, Remove
    PROVE  IInv'
<1>1. /\ up /\ job # Idle /\ Working(job) /\ job.at = "remove" /\ job.at \in DeletePlaces
      /\ UNCHANGED world /\ UNCHANGED <<receipts, up, config>>
    BY AtWork DEF Remove, At, Places, DeletePlaces, world
<1>2. CASE getErrorPageFromConfig(500) /\ UNCHANGED <<files, dirs>>
    BY <1>1, <1>2, Failed DEF Looks
<1>3. CASE /\ files' = [q \in DOMAIN files \ {job.path} |-> files[q]]
           /\ dirs' = dirs \ {job.path} /\ Plain(204)
    <2>1. /\ job' = Idle /\ answer'.req = job.req /\ answer'.loc = job.loc
          /\ answer'.code = 204
        BY <1>3 DEF Plain, Reply
    <2>2. Locs' = Locs
        BY <1>1 DEF Locs
    <2>3. AnswerFaithful' /\ Permitted'
        BY <1>1, <2>1, <2>2 DEF AnswerFaithful, Permitted, Working
    <2>4. \A p \in DOMAIN files' : files'[p] \in Data
        BY <1>3 DEF IInv, TypeOK
    <2>5. dirs' \subseteq dirs
        BY <1>3
    <2> QED  BY <1>1, <2>1, <2>3, <2>4, <2>5, Changed
<1> QED  BY <1>2, <1>3 DEF Remove

-----------------------------------------------------------------------------
(* Requests, time and everything else on the machine. *)

LEMMA KeepsReceive ==
    ASSUME IInv, NEW r \in Requests, Receive(r)
    PROVE  IInv'
<1>1. /\ up /\ job = Idle /\ jobs' = jobs + 1 /\ jobs < MaxJobs /\ jobs \in Nat
      /\ UNCHANGED <<config, files, dirs, full, stamp, answer, receipts, outside, up>>
      /\ job' = Job(r) /\ r \in Request /\ MaxJobs \in Nat
    BY FileAssumption, InputAssumption DEF Receive, IInv, TypeOK
<1>2. Job(r) \in JobSet
    <2>1. "route" \in Places /\ Empty \in Names /\ 0 \in SizeT /\ 0 \in 0..MaxStamp
        BY NamesAssumption, FileAssumption DEF Places, SizeT
    <2>2. 0 \in 0..Len(Locs)
        BY Locations DEF IInv, TypeOK
    <2> QED  BY <2>1, <2>2 DEF Job, JobSet
<1>3. Working(Job(r))
    BY <1>2 DEF Working, Job, GetPlaces, PostPlaces, DeletePlaces
<1>4. TypeOK'
    BY <1>1, <1>2 DEF IInv, TypeOK, JobSet, Job, Locs
<1>5. JobOK'
    BY <1>1, <1>3 DEF JobOK, Working, JobSet, Locs, UploadPath, Given
<1>6. ReceiptsOK' /\ StoredWhole' /\ AnswerFaithful' /\ Permitted' /\ EndsOnly'
    BY <1>1 DEF IInv, ReceiptsOK, StoredWhole, AnswerFaithful, Permitted, EndsOnly, Locs
<1> QED  BY <1>4, <1>5, <1>6 DEF IInv

LEMMA KeepsOutside ==
    ASSUME IInv, Outside
    PROVE  IInv'
<1>1. /\ up /\ outside' = outside + 1 /\ outside < MaxOutside /\ outside \in Nat
      /\ UNCHANGED <<config, dirs, stamp, job, answer, receipts, jobs, up>>
    BY DEF Outside, IInv, TypeOK
<1> full' \in BOOLEAN
    <2>1. full \in BOOLEAN /\ (full' = ~full \/ full' = full)
        BY DEF Outside, IInv, TypeOK
    <2> QED  BY <2>1
<1>2. \A p \in DOMAIN files' : files'[p] \in Data
    <2>1. CASE UNCHANGED files
        BY <2>1 DEF IInv, TypeOK
    <2>2. CASE \E p \in Touched : \E n \in Sizes : files' = Put(p, [by |-> -outside', size |-> n])
        <3>1. PICK p \in Touched, n \in Sizes : files' = Put(p, [by |-> -outside', size |-> n])
            BY <2>2
        <3>2. [by |-> -outside', size |-> n] \in Data
            BY <1>1, FileAssumption DEF Data, SizeT
        <3> QED  BY <3>1, <3>2 DEF Put, IInv, TypeOK
    <2>3. CASE \E p \in Touched : files' = [q \in DOMAIN files \ {p} |-> files[q]]
        BY <2>3 DEF IInv, TypeOK
    <2> QED  BY <2>1, <2>2, <2>3 DEF Outside
<1>3. TypeOK'
    BY <1>1, <1>2, FileAssumption DEF IInv, TypeOK, Locs
<1>4. JobOK'
    BY <1>1 DEF IInv, JobOK, Working, JobSet, Locs, UploadPath, Given
<1>5. ReceiptsOK' /\ StoredWhole' /\ AnswerFaithful' /\ Permitted' /\ EndsOnly'
    BY <1>1 DEF IInv, ReceiptsOK, StoredWhole, AnswerFaithful, Permitted, EndsOnly, Locs
<1> QED  BY <1>3, <1>4, <1>5 DEF IInv

LEMMA KeepsTick ==
    ASSUME IInv, Tick
    PROVE  IInv'
<1>1. /\ up /\ job = Idle /\ stamp' \in 0..MaxStamp
      /\ UNCHANGED <<config, files, dirs, full, job, answer, receipts, jobs, outside, up>>
    BY FileAssumption DEF Tick, IInv, TypeOK
<1>2. TypeOK' /\ JobOK' /\ ReceiptsOK' /\ StoredWhole' /\ EndsOnly'
    BY <1>1 DEF IInv, TypeOK, JobOK, ReceiptsOK, StoredWhole, EndsOnly, Locs
<1>3. AnswerFaithful' /\ Permitted'
    BY <1>1 DEF IInv, AnswerFaithful, Permitted, Locs
<1> QED  BY <1>2, <1>3 DEF IInv

-----------------------------------------------------------------------------
(* The invariant, and what follows from it. *)

LEMMA Initially ==
    ASSUME Init
    PROVE  IInv
<1> USE DEF Init
<1>1. TypeOK
    <2>1. full \in BOOLEAN /\ up \in BOOLEAN
        OBVIOUS
    <2>2. /\ config \in Configs /\ stamp \in 0..MaxStamp
          /\ jobs \in 0..MaxJobs /\ outside \in 0..MaxOutside
          /\ dirs \subseteq StartDirs /\ job = Idle /\ receipts = {}
        BY FileAssumption
    <2>3. \A p \in DOMAIN files : files[p] \in Data
        BY InputAssumption
    <2> QED  BY <2>1, <2>2, <2>3 DEF TypeOK
<1>2. JobOK /\ ReceiptsOK /\ StoredWhole /\ EndsOnly
    BY DEF JobOK, ReceiptsOK, StoredWhole, EndsOnly
<1>3. AnswerFaithful /\ Permitted
    BY DEF AnswerFaithful, Permitted, NoAnswer
<1> QED  BY <1>1, <1>2, <1>3 DEF IInv

LEMMA Inductive ==
    ASSUME IInv, [Next]_vars
    PROVE  IInv'
<1>1. CASE UNCHANGED vars
    <2>1. TypeOK' /\ JobOK' /\ ReceiptsOK' /\ StoredWhole'
        BY <1>1 DEF vars, IInv, TypeOK, JobOK, Working, JobSet, ReceiptsOK, StoredWhole,
                    Locs, UploadPath, Given
    <2>2. AnswerFaithful' /\ Permitted' /\ EndsOnly'
        BY <1>1 DEF vars, IInv, AnswerFaithful, Permitted, EndsOnly, Locs, IsPartial,
                    RangeStart, RangeEnd, Secure
    <2> QED  BY <2>1, <2>2 DEF IInv
<1>2. CASE \E r \in Requests : Receive(r)
    BY <1>2, KeepsReceive
<1>3. CASE Get
    BY <1>3, KeepsRouteGet, KeepsLooks, KeepsIndexPage, KeepsFileSize, KeepsReadFile DEF Get
<1>4. CASE Post
    BY <1>4, KeepsRoutePost, KeepsWhereToStore, KeepsStore DEF Post
<1>5. CASE Delete
    BY <1>5, KeepsRouteDelete, KeepsChecks, KeepsRemove DEF Delete
<1>6. CASE Outside
    BY <1>6, KeepsOutside
<1>7. CASE Tick
    BY <1>7, KeepsTick
<1> QED  BY <1>1, <1>2, <1>3, <1>4, <1>5, <1>6, <1>7 DEF Next

THEOREM Invariance == Spec => []IInv
<1>1. Init => IInv
    BY Initially
<1>2. IInv /\ [Next]_vars => IInv'
    BY Inductive
<1> QED  BY <1>1, <1>2, PTL DEF Spec

(* Every variable keeps to its type. *)
THEOREM TypeCorrect == Spec => []TypeOK
<1>1. IInv => TypeOK
    BY DEF IInv
<1> QED  BY <1>1, Invariance, PTL

(* What is sent of a file is what was asked for (Get.cpp:204-319). *)
THEOREM AnswersFaithful == Spec => []AnswerFaithful
<1>1. IInv => AnswerFaithful
    BY DEF IInv
<1> QED  BY <1>1, Invariance, PTL

(* What is done with a file, its location allows; a DELETE with a query of a  *)
(* path that is the name of a location is the one exception.                  *)
THEOREM OnlyPermitted == Spec => []Permitted
<1>1. IInv => Permitted
    BY DEF IInv
<1> QED  BY <1>1, Invariance, PTL

(* A 201 is for an upload that is whole, or short enough to fail in close.    *)
THEOREM UploadsWhole == Spec => []StoredWhole
<1>1. IInv => StoredWhole
    BY DEF IInv
<1> QED  BY <1>1, Invariance, PTL

(* The server ends only in one of three ways. *)
THEOREM EndsOnlyThen == Spec => []EndsOnly
<1>1. IInv => EndsOnly
    BY DEF IInv
<1> QED  BY <1>1, Invariance, PTL

(* Of two uploads under generated names, or under names their clients chose,  *)
(* to one directory, the later replaces the earlier only when the names, or   *)
(* the minutes, are the same.                                                 *)
LEMMA Replaced ==
    ASSUME IInv, Store, NEW r \in receipts, Kept(r), ~Kept(r)'
    PROVE  /\ job.at = "store" /\ job.path = r.path
           /\ \/ /\ job.name = r.name
                 /\ r.given \/ Given(job.req) \/ job.minute = r.minute
              \/ r.path \in {UploadPath(Here, job.req), r.area}
<1> DEFINE q == job.req
           u == UploadPath(Here, q)
<1>1. /\ job # Idle /\ Working(job) /\ job.at = "store" /\ job \in JobSet
      /\ job.at \in PostPlaces /\ q \in Request
    BY AtWork, InputAssumption DEF Store, At, Places, PostPlaces, JobSet
<1>2. /\ job.path \in {u, Append(u, job.name)}
      /\ Given(q) \/ job.name = <<q.form, job.minute>>
      /\ job.name \in Names
    BY <1>1 DEF Working, Here, JobSet
<1>3. Here \in Location
    BY <1>1, HereType
<1>4. u \in Seq(Names)
    BY <1>3 DEF UploadPath, Location
<1>5. /\ r.path \in {r.area, Append(r.area, r.name)}
      /\ r.given \/ \E f \in Kinds : r.name = <<f, r.minute>>
      /\ r.area \in Seq(Names) /\ r.name \in Names
    BY DEF IInv, ReceiptsOK, TypeOK
<1>6. job.path = r.path
    <2>1. CASE files' = files
        BY <2>1 DEF Kept, IsFile
    <2>2. CASE files' # files
        <3>1. PICK data : files' = Put(job.path, data)
            BY <2>2, Stored
        <3> QED  BY <3>1 DEF Kept, IsFile, Put
    <2> QED  BY <2>1, <2>2
<1>7. CASE r.path \in {u, r.area}
    BY <1>1, <1>6, <1>7
<1>8. CASE r.path = Append(u, job.name) /\ r.path = Append(r.area, r.name)
    <2>1. job.name = r.name
        <3>1. Append(u, job.name) = Append(r.area, r.name)
            BY <1>8
        <3> HIDE DEF u
        <3> QED  BY <1>2, <1>4, <1>5, <3>1, AppendInjective
    <2>2. ASSUME ~r.given, ~Given(q)
          PROVE  job.minute = r.minute
        <3>1. PICK f \in Kinds : r.name = <<f, r.minute>>
            BY <1>5, <2>2
        <3> QED  BY <1>2, <2>1, <2>2, <3>1
    <2> QED  BY <1>1, <1>6, <2>1, <2>2
<1> QED  BY <1>2, <1>5, <1>6, <1>7, <1>8

(* A stored upload is lost only to a DELETE of its path, to another program,  *)
(* or to an upload of the same name, or in the same minute.                   *)
THEOREM UploadsKept == Spec => UploadLostOnly
<1> DEFINE Lost(r) ==
               \/ outside' # outside
               \/ job.at = "remove" /\ job.path = r.path
               \/ /\ job.at = "store" /\ job.path = r.path
                  /\ \/ /\ job.name = r.name
                        /\ r.given \/ Given(job.req) \/ job.minute = r.minute
                     \/ r.path \in {UploadPath(Here, job.req), r.area}
<1>1. ASSUME IInv, Next, NEW r \in receipts, Kept(r), ~Kept(r)'
      PROVE  Lost(r)
    <2>1. files' # files
        BY <1>1 DEF Kept, IsFile
    <2>2. CASE Outside
        BY <1>1, <2>2 DEF Outside, IInv, TypeOK
    <2>3. CASE Remove
        BY <1>1, <2>1, <2>3 DEF Remove, At, Kept, IsFile
    <2>4. CASE Store
        BY <1>1, <2>4, Replaced
    <2>5. Outside \/ Remove \/ Store
        BY <1>1, <2>1
           DEF Next, Receive, Get, Post, Delete, Tick, RouteGet, PathExists, PathIsFile,
               PathIsDirectory, IndexPage, FileSize, ReadFile, RoutePost, WhereToStore,
               RouteDelete, CheckFile, CheckIsDir, CheckAccess, IsDirEmpty, Looks
    <2> QED  BY <2>2, <2>3, <2>4, <2>5
<1>2. IInv /\ [Next]_vars => [\A r \in receipts : Kept(r) /\ ~Kept(r)' => Lost(r)]_vars
    BY <1>1
<1> QED  BY <1>2, Invariance, PTL DEF Spec, UploadLostOnly
=============================================================================
