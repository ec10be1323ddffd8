-------------------------- MODULE ConfigFileProofs --------------------------
(***************************************************************************)
(* Servers of an accepted file, for any pieces, hosts and ports: none is   *)
(* lost in the map, none shares an address with another, a request finds a *)
(* server by its first port and by no other, and locations have paths;     *)
(* redirections of an accepted file end, those of a file refused for them  *)
(* do not; and the servers are those that the brackets of the file say.    *)
(***************************************************************************)
EXTENDS ConfigFile, LocationMatchProofs, FiniteSetTheorems, WellFoundedInduction

(* A sequence, of whatever values. *)
Listed(s) == s \in Seq({s[i] : i \in 1..Len(s)})

(* A server as the second pass fills it: each directive has a list, a host *)
(* takes the place of the host before.                                     *)
WellFormed(c) ==
    /\ c = [values |-> c.values, locs |-> c.locs]
    /\ c.values = [k \in ServerKeys |-> c.values[k]]
    /\ \A k \in ServerKeys : Listed(c.values[k])
    /\ Len(c.values["host"]) <= 1

(* The server that is being filled. *)
FillingOK == at \in {"fill", "location"} => WellFormed(conf)

(* The map: each server is under its own key, and apart from the others.   *)
ClusterOK ==
    /\ \A k \in DOMAIN cluster :
          WellFormed(cluster[k]) /\ Complete(cluster[k]) /\ k = Key(cluster[k])
    /\ \A k, m \in DOMAIN cluster : k # m => ~SharesAddress(cluster[k], cluster[m])

(* A block that was closed is in the map, or being filled, or refused.     *)
Counted ==
    /\ IsFiniteSet(DOMAIN cluster) /\ blocks \in Nat
    /\ at \in {"fill", "location"} => blocks = Cardinality(DOMAIN cluster) + 1
    /\ at \in {"scan", "loops", "duplicates", "listen", "serve"} =>
          blocks = Cardinality(DOMAIN cluster)

AddressesOf(c) == {<<Host(c), Ports(c)[i]>> : i \in 1..Len(Ports(c))}

(* Sockets are opened for addresses of servers. *)
SocketsOK ==
    IF at \in {"listen", "serve"}
    THEN pending \cup listening \subseteq UNION {AddressesOf(c) : c \in Servers}
    ELSE listening = {}

IInv == FillingOK /\ ClusterOK /\ Counted /\ SocketsOK

-----------------------------------------------------------------------------
(* Lists of values. *)

LEMMA ListedEmpty == Listed(<<>>)
BY DEF Listed

LEMMA ListedOne ==
    ASSUME NEW v
    PROVE  Listed(<<v>>) /\ Len(<<v>>) = 1
BY DEF Listed

LEMMA ListedAppend ==
    ASSUME NEW s, Listed(s), NEW v
    PROVE  Listed(Append(s, v))
<1> DEFINE S == {s[i] : i \in 1..Len(s)}
           t == Append(s, v)
<1>1. s \in Seq(S) BY DEF Listed
<1>2. s \in Seq(S \cup {v}) /\ t \in Seq(S \cup {v}) /\ Len(t) = Len(s) + 1
  BY <1>1
<1> HIDE DEF t
<1>3. Len(t) \in Nat /\ t \in [1..Len(t) -> S \cup {v}] BY <1>2, LenProperties
<1>4. t \in [1..Len(t) -> {t[i] : i \in 1..Len(t)}] BY <1>3
<1>5. t \in Seq({t[i] : i \in 1..Len(t)}) BY <1>3, <1>4, SeqDef
<1> QED BY <1>5 DEF Listed, t

LEMMA NothingYet == WellFormed(NoConf)
BY ListedEmpty DEF WellFormed, NoConf, None, ServerKeys

(* One more directive. *)
LEMMA TakenWell ==
    ASSUME NEW c, WellFormed(c), NEW key \in ServerKeys, NEW v
    PROVE  WellFormed([c EXCEPT !.values = Take(@, key, v)])
<1> DEFINE new  == IF key \in Replaced THEN <<v>> ELSE Append(c.values[key], v)
           vals == Take(c.values, key, v)
           d    == [c EXCEPT !.values = Take(@, key, v)]
<1>1. d = [values |-> vals, locs |-> c.locs] BY DEF WellFormed
<1>2. vals = [k \in ServerKeys |-> IF k = key THEN new ELSE c.values[k]]
  BY DEF WellFormed, Take
<1>3. Listed(new)
  BY ListedOne, ListedAppend DEF WellFormed
<1>4. "host" \in Replaced /\ "host" \in ServerKeys BY DEF Replaced, ServerKeys
<1>5. Len(vals["host"]) <= 1
  <2>1. CASE key = "host"
    <3>1. vals["host"] = <<v>> BY <2>1, <1>2, <1>4
    <3> QED BY <3>1, ListedOne
  <2>2. CASE key # "host" BY <2>2, <1>2, <1>4 DEF WellFormed
  <2> QED BY <2>1, <2>2
<1> QED BY <1>1, <1>2, <1>3, <1>5 DEF WellFormed

-----------------------------------------------------------------------------
(* Servers of one host have the same list of hosts. *)
LEMMA SameHost ==
    ASSUME NEW c, NEW d, WellFormed(c), WellFormed(d), Complete(c), Complete(d), Host(c) = Host(d)
    PROVE  c.values["host"] = d.values["host"]
<1> DEFINE h(x) == x.values["host"]
<1>1. ASSUME NEW x, WellFormed(x), Complete(x)
      PROVE  h(x) = <<Host(x)>>
  <2> DEFINE S == {h(x)[i] : i \in 1..Len(h(x))}
  <2>1. h(x) \in Seq(S) BY <1>1 DEF WellFormed, Listed, ServerKeys
  <2>2. h(x) # <<>> /\ Len(h(x)) <= 1 BY <1>1 DEF WellFormed, Complete
  <2> QED BY <2>1, <2>2 DEF Host
<1> QED BY <1>1

LEMMA FirstPort ==
    ASSUME NEW c, WellFormed(c), Complete(c)
    PROVE  Len(Ports(c)) \in Nat /\ 1 \in 1..Len(Ports(c))
<1> DEFINE S == {Ports(c)[i] : i \in 1..Len(Ports(c))}
<1>1. Ports(c) \in Seq(S) BY DEF WellFormed, Listed, Ports, ServerKeys
<1> QED BY <1>1 DEF Complete

(* What shares an address collides, and a key is an address. *)
LEMMA ApartFromCollision ==
    ASSUME NEW c, NEW d, WellFormed(c), WellFormed(d), Complete(c), Complete(d), ~Collides(c, d)
    PROVE  ~SharesAddress(c, d) /\ ~SharesAddress(d, c) /\ Key(c) # Key(d)
<1>1. ~SharesAddress(c, d) BY SameHost DEF Collides, SharesAddress
<1>2. ~SharesAddress(d, c) BY <1>1 DEF SharesAddress
<1>3. Key(c) # Key(d) BY <1>1, FirstPort DEF SharesAddress, Key
<1> QED BY <1>1, <1>2, <1>3

-----------------------------------------------------------------------------
(* The steps that leave the map as it is. *)

LEMMA KeepsCluster ==
    ASSUME IInv, UNCHANGED cluster
    PROVE  ClusterOK'
BY DEF IInv, ClusterOK

LEMMA KeepsScan ==
    ASSUME IInv, FileGoesOn \/ EndOfFile \/ CheckRedirectionLoops
    PROVE  IInv'
<1>1. UNCHANGED <<cluster, blocks, listening>> /\ at \in {"scan", "loops"}
      /\ at' \in {"scan", "refused", "loops", "looped", "duplicates"}
  BY DEF FileGoesOn, EndOfFile, CheckRedirectionLoops, Stop, result
<1>2. ClusterOK' BY <1>1, KeepsCluster
<1> QED BY <1>1, <1>2 DEF IInv, FillingOK, Counted, SocketsOK

LEMMA KeepsReadLine ==
    ASSUME IInv, ReadLine
    PROVE  IInv'
<1>1. UNCHANGED <<cluster, listening>> /\ at = "scan" BY DEF ReadLine
<1>2. ClusterOK' BY <1>1, KeepsCluster
<1>3. CASE at' \in {"fill", "refused"} /\ conf' = NoConf /\ blocks' = blocks + 1
  BY <1>1, <1>2, <1>3, NothingYet DEF IInv, FillingOK, Counted, SocketsOK
<1>4. CASE at' \in {"scan", "refused"} /\ UNCHANGED blocks
  BY <1>1, <1>2, <1>4 DEF IInv, FillingOK, Counted, SocketsOK
<1> QED BY <1>1, <1>3, <1>4 DEF ReadLine, CloseServer

LEMMA KeepsFilling ==
    ASSUME IInv, StartLocation \/ LocationDirective \/ EndLocation \/ ServerDirective
    PROVE  IInv'
<1>1. UNCHANGED <<cluster, blocks, listening>> /\ at \in {"fill", "location"}
      /\ at' \in {"fill", "location", "refused", "crashed"}
  BY DEF StartLocation, LocationDirective, EndLocation, ServerDirective, Filling, Refuse, Stop, result
<1>2. ClusterOK' BY <1>1, KeepsCluster
<1>3. WellFormed(conf) BY <1>1 DEF IInv, FillingOK
<1>4. WellFormed(conf')
  <2>1. CASE UNCHANGED conf BY <1>3, <2>1
  <2>2. CASE EndLocation /\ conf' = [conf EXCEPT !.locs = Append(@, loc)]
    BY <1>3, <2>2 DEF WellFormed
  <2>3. CASE ServerDirective /\ ~UNCHANGED conf
    <3>1. PICK key, v : /\ key \in ServerKeys
                        /\ conf' = [conf EXCEPT !.values = Take(@, key, v)]
      BY <2>3 DEF ServerDirective, Refuse, Stop
    <3> QED BY <1>3, <3>1, TakenWell
  <2> QED
    BY <2>1, <2>2, <2>3 DEF StartLocation, LocationDirective, EndLocation, Refuse, Stop
<1> QED BY <1>1, <1>2, <1>4 DEF IInv, FillingOK, Counted, SocketsOK

(* The one step that adds a server: no key is taken, or they would collide. *)
LEMMA KeepsCreate ==
    ASSUME IInv, CreateConfigStruct
    PROVE  IInv'
<1>1. at = "fill" /\ WellFormed(conf) /\ ClusterOK /\ Counted /\ listening = {}
  BY DEF CreateConfigStruct, IInv, FillingOK, SocketsOK
<1>2. CASE Refuse
  <2>1. UNCHANGED <<cluster, blocks, listening>> /\ at' = "refused"
    BY <1>2 DEF Refuse, Stop, result
  <2>2. ClusterOK' BY <2>1, KeepsCluster
  <2> QED BY <1>1, <2>1, <2>2 DEF IInv, FillingOK, Counted, SocketsOK
<1>3. CASE ~Refuse
  <2> DEFINE D == DOMAIN cluster
             new == Key(conf)
  <2>1. /\ \A k \in D : ~Collides(conf, cluster[k])
        /\ Complete(conf)
        /\ cluster' = [k \in D \cup {new} |-> IF k \in D THEN cluster[k] ELSE conf]
        /\ at' = "scan" /\ UNCHANGED <<blocks, listening>>
    BY <1>3 DEF CreateConfigStruct
  <2>2. \A k \in D : /\ WellFormed(cluster[k]) /\ Complete(cluster[k]) /\ k = Key(cluster[k])
                     /\ ~SharesAddress(conf, cluster[k]) /\ ~SharesAddress(cluster[k], conf)
                     /\ new # k
    BY <1>1, <2>1, ApartFromCollision DEF ClusterOK
  <2>3. new \notin D BY <2>2
  <2>4. /\ DOMAIN cluster' = D \cup {new}
        /\ cluster'[new] = conf
        /\ \A k \in D : cluster'[k] = cluster[k]
    BY <2>1, <2>3
  <2>5. ClusterOK'
    <3>1. \A k \in DOMAIN cluster' :
             WellFormed(cluster'[k]) /\ Complete(cluster'[k]) /\ k = Key(cluster'[k])
      BY <1>1, <2>1, <2>2, <2>4
    <3>2. \A k, m \in DOMAIN cluster' : k # m => ~SharesAddress(cluster'[k], cluster'[m])
      BY <1>1, <2>2, <2>4 DEF ClusterOK
    <3> QED BY <3>1, <3>2 DEF ClusterOK
  <2>6. IsFiniteSet(D \cup {new}) /\ Cardinality(D \cup {new}) = Cardinality(D) + 1
    BY <1>1, <2>3, FS_AddElement DEF Counted
  <2>7. Counted' BY <1>1, <2>1, <2>4, <2>6 DEF Counted
  <2> QED BY <1>1, <2>1, <2>5, <2>7 DEF IInv, FillingOK, SocketsOK
<1> QED BY <1>2, <1>3

(* The sockets. *)
LEMMA KeepsSockets ==
    ASSUME IInv, CheckDuplicateListenAddresses \/ GetServerFd
    PROVE  IInv'
<1>1. UNCHANGED <<cluster, blocks>> BY DEF CheckDuplicateListenAddresses, GetServerFd, Refuse, Stop, result
<1>2. ClusterOK' BY <1>1, KeepsCluster
<1>3. at \in {"duplicates", "listen"} /\ at' \in {"refused", "listen", "serve"}
      /\ (at = "listen" => at' # "refused")
  BY DEF CheckDuplicateListenAddresses, GetServerFd, Refuse, Stop
<1>4. FillingOK' /\ Counted' BY <1>1, <1>3 DEF IInv, FillingOK, Counted
<1>5. SocketsOK'
  <2>1. CASE CheckDuplicateListenAddresses
    BY <1>1, <2>1 DEF CheckDuplicateListenAddresses, IInv, SocketsOK, AddressesOf, Servers, Refuse, Stop, result
  <2>2. CASE GetServerFd
    <3>1. at = "listen" /\ at' \in {"listen", "serve"}
          /\ pending' \cup listening' \subseteq pending \cup listening
      BY <2>2 DEF GetServerFd
    <3> QED BY <1>1, <3>1 DEF IInv, SocketsOK, Servers
  <2> QED BY <2>1, <2>2
<1> QED BY <1>2, <1>4, <1>5 DEF IInv

LEMMA Initially == Init => IInv
<1> SUFFICES ASSUME Init PROVE IInv
  OBVIOUS
<1>1. DOMAIN cluster = {} BY DEF Init
<1>2. IsFiniteSet({}) /\ Cardinality({}) = 0 BY FS_EmptySet
<1> QED BY <1>1, <1>2 DEF Init, IInv, FillingOK, ClusterOK, Counted, SocketsOK

LEMMA Inductive == IInv /\ [Next]_vars => IInv'
<1> SUFFICES ASSUME IInv, [Next]_vars PROVE IInv'
  OBVIOUS
<1>1. CASE UNCHANGED vars
  BY <1>1 DEF vars, IInv, FillingOK, ClusterOK, Counted, SocketsOK, Servers
<1>2. CASE Next
  BY <1>2, KeepsScan, KeepsReadLine, KeepsFilling, KeepsCreate, KeepsSockets DEF Next
<1> QED BY <1>1, <1>2

(* What the other theorems are read off: the map has the servers that were  *)
(* closed, each under its key and apart from the others.                    *)
THEOREM Invariance == Spec => []IInv
<1> QED BY Initially, Inductive, PTL DEF Spec

(* No server block of an accepted file is lost, and none shares an address  *)
(* with another, although the map is asked only by each server's first port *)
(* and ignores a second insertion (Config.cpp:70-109).                      *)
THEOREM NoServerLost == Spec => []ServersKept
<1>1. IInv => ServersKept BY DEF IInv, Counted, ClusterOK, ServersKept, Accepted
<1> QED BY <1>1, Invariance, PTL

(* A request finds the server by its first port, and an empty configuration *)
(* by any other it listens at (Config.cpp:90-96, MethodHandler.cpp:15).     *)
THEOREM OnlyFirstPort == Spec => []FirstPortServed
<1>1. ASSUME IInv, at = "serve", NEW a \in listening
      PROVE  \E c \in Servers :
                /\ Host(c) = a[1] /\ \E i \in 1..Len(Ports(c)) : Ports(c)[i] = a[2]
                /\ ConfigOf(a) = IF a[2] = Ports(c)[1] THEN c ELSE NoConf
  <2>0. PICK k \in DOMAIN cluster : a \in AddressesOf(cluster[k])
    BY <1>1 DEF IInv, SocketsOK, Servers
  <2> DEFINE c == cluster[k]
  <2>1. PICK i \in 1..Len(Ports(c)) : a = <<Host(c), Ports(c)[i]>>
    BY <2>0 DEF AddressesOf
  <2>2. /\ WellFormed(c) /\ Complete(c) /\ k = Key(c)
    BY <1>1 DEF IInv, ClusterOK
  <2>3. CASE a[2] = Ports(c)[1]
    <3>1. a = k BY <2>1, <2>2, <2>3 DEF Key
    <3> QED BY <2>1, <2>3, <3>1 DEF Servers, ConfigOf
  <2>4. CASE a[2] # Ports(c)[1]
    <3>1. ASSUME a \in DOMAIN cluster PROVE FALSE
      <4> DEFINE d == cluster[a]
      <4>1. WellFormed(d) /\ Complete(d) /\ a = Key(d) BY <1>1, <3>1 DEF IInv, ClusterOK
      <4>2. Host(d) = Host(c) /\ Ports(d)[1] = Ports(c)[i] BY <2>1, <4>1 DEF Key
      <4>3. SharesAddress(c, d) BY <4>1, <4>2, FirstPort DEF SharesAddress
      <4>4. a = k BY <1>1, <3>1, <4>3 DEF IInv, ClusterOK
      <4> QED BY <2>2, <2>4, <4>4 DEF Key
    <3> QED BY <2>1, <2>4, <3>1 DEF Servers, ConfigOf
  <2> QED BY <2>3, <2>4
<1>2. IInv => FirstPortServed BY <1>1 DEF FirstPortServed
<1> QED BY <1>2, Invariance, PTL
-----------------------------------------------------------------------------
(* Types.  Lines go from the pieces to the first pass, to the second, and   *)
(* their paths to the locations.                                            *)

AllLines     == UNION {{p[i] : i \in 1..Len(p)} : p \in Pieces}
IsPath(v)    == v = Bad \/ v \in Paths
LineOK(l)    ==
    /\ l \in AllLines
    /\ l.key = "location" => IsPath(l.val)
    /\ l.key = "server" => l.open
    /\ l.key = "close" => ~l.open
LinesFine(s) == Listed(s) /\ \A i \in 1..Len(s) : LineOK(s[i])
LocOK(l)     == l.path \in Paths /\ Listed(Returns(l))
LocsFine(s)  == Listed(s) /\ \A i \in 1..Len(s) : LocOK(s[i])
LocFine(l)   ==
    /\ l = [path |-> l.path, values |-> l.values] /\ IsPath(l.path)
    /\ l.values = [k \in LocationKeys |-> l.values[k]]
    /\ \A k \in LocationKeys : Listed(l.values[k])

(* The hosts and ports of a server are the values of lines. *)
Written(c) ==
    \A key \in {"host", "listen"} : \A i \in 1..Len(c.values[key]) :
        \E l \in AllLines : Valued(l, key) /\ c.values[key][i] = l.val

(* Listed, by its elements. *)
LEMMA ListedLength ==
    ASSUME NEW s, Listed(s)
    PROVE  Len(s) \in Nat /\ s \in [1..Len(s) -> {s[i] : i \in 1..Len(s)}]
BY LenProperties DEF Listed

LEMMA FunctionListed ==
    ASSUME NEW n \in Nat, NEW S, NEW f \in [1..n -> S]
    PROVE  Listed(f) /\ Len(f) = n
<1>1. f \in Seq(S) BY SeqDef
<1>2. Len(f) = n BY <1>1, LenProperties
<1>3. f \in [1..n -> {f[i] : i \in 1..n}] OBVIOUS
<1>4. f \in Seq({f[i] : i \in 1..n}) BY <1>3, SeqDef
<1> QED BY <1>2, <1>4 DEF Listed

LEMMA NoLines == LinesFine(<<>>) /\ LocsFine(<<>>)
BY ListedEmpty DEF LinesFine, LocsFine

LEMMA HeadFine ==
    ASSUME NEW s, LinesFine(s), s # <<>>
    PROVE  LineOK(Head(s)) /\ Head(s) = s[1]
<1>1. s \in Seq({s[i] : i \in 1..Len(s)}) BY DEF LinesFine, Listed
<1>2. Len(s) >= 1 /\ Len(s) \in Nat BY <1>1
<1>3. Head(s) = s[1] BY <1>1
<1> QED BY <1>2, <1>3 DEF LinesFine

LEMMA AppendElements ==
    ASSUME NEW s, Listed(s), NEW v
    PROVE  /\ Len(s) \in Nat /\ Len(Append(s, v)) = Len(s) + 1
           /\ \A i \in 1..Len(s) : Append(s, v)[i] = s[i]
           /\ Append(s, v)[Len(s) + 1] = v
<1> DEFINE S == {s[i] : i \in 1..Len(s)} \cup {v}
<1>1. s \in Seq(S) BY DEF Listed
<1> QED BY <1>1

LEMMA AppendFine ==
    ASSUME NEW s, NEW v
    PROVE  /\ LinesFine(s) /\ LineOK(v) => LinesFine(Append(s, v))
           /\ LocsFine(s) /\ LocOK(v) => LocsFine(Append(s, v))
<1>1. ASSUME Listed(s), NEW i \in 1..Len(Append(s, v))
      PROVE  Append(s, v)[i] = v \/ \E j \in 1..Len(s) : Append(s, v)[i] = s[j]
  BY <1>1, AppendElements
<1> QED BY <1>1, ListedAppend DEF LinesFine, LocsFine

LEMMA SubSeqFine ==
    ASSUME NEW s, LinesFine(s), NEW m \in 1..Len(s)
    PROVE  LinesFine(SubSeq(s, m + 1, Len(s)))
<1> DEFINE S == {s[i] : i \in 1..Len(s)}
           t == SubSeq(s, m + 1, Len(s))
           n == Len(s) - m
<1>1. Len(s) \in Nat /\ s \in Seq(S) BY ListedLength DEF LinesFine, Listed
<1>2. n \in Nat /\ t = [i \in 1..n |-> s[i + m]] BY <1>1
<1>3. t \in [1..n -> S]
  <2>1. \A i \in 1..n : i + m \in 1..Len(s) BY <1>1, <1>2
  <2>2. \A i \in 1..n : s[i + m] \in S BY <2>1
  <2> QED BY <1>2, <2>2
<1>4. Listed(t) /\ Len(t) = n BY <1>2, <1>3, FunctionListed
<1>5. ASSUME NEW i \in 1..n PROVE LineOK(t[i])
  <2>1. t[i] = s[i + m] /\ i + m \in 1..Len(s) BY <1>1, <1>2
  <2> QED BY <2>1 DEF LinesFine
<1> QED BY <1>4, <1>5 DEF LinesFine

LEMMA TailFine ==
    ASSUME NEW s, LinesFine(s), s # <<>>
    PROVE  LinesFine(Tail(s))
<1>1. s \in Seq({s[i] : i \in 1..Len(s)}) BY DEF LinesFine, Listed
<1>2. Len(s) \in Nat /\ 1 \in 1..Len(s) BY <1>1
<1>3. Tail(s) = SubSeq(s, 1 + 1, Len(s)) BY <1>1, <1>2
<1> QED BY <1>2, <1>3, SubSeqFine

(* A set of natural numbers has a least element, and holds them all if it   *)
(* holds 0 and the successor of each.                                       *)
LEMMA LeastIsIn ==
    ASSUME NEW S \in SUBSET Nat, S # {}
    PROVE  LET m == CHOOSE i \in S : \A j \in S : i <= j
           IN m \in S /\ \A j \in S : m <= j
<1> DEFINE Below == {ss \in Nat \X Nat : ss[1] < ss[2]}
<1>1. IsWellFoundedOn(Below, Nat) BY NatLessThanWellFounded, Zenon DEF OpToRel
<1>2. \A x, y \in Nat : y < x => <<y, x>> \in Below OBVIOUS
<1> HIDE DEF Below
<1>3. PICK x \in S : \A y \in S : ~(<<y, x>> \in Below) BY <1>1, WFMin
<1>4. ASSUME NEW y \in S PROVE x <= y
  <2>1. ~(y < x) BY <1>2, <1>3
  <2> QED BY <2>1
<1> QED BY <1>4

LEMMA AllNaturals ==
    ASSUME NEW S \in SUBSET Nat, 0 \in S, \A n \in S : n + 1 \in S
    PROVE  S = Nat
<1> SUFFICES ASSUME Nat \ S # {} PROVE FALSE
  OBVIOUS
<1>1. PICK m \in Nat \ S : \A j \in Nat \ S : m <= j
  <2>1. Nat \ S \in SUBSET Nat OBVIOUS
  <2> QED BY <2>1, LeastIsIn
<1>2. m - 1 \in S BY <1>1
<1> QED BY <1>1, <1>2

LEMMA AfterFine ==
    ASSUME NEW s, LinesFine(s), NEW H \in SUBSET (1..Len(s))
    PROVE  LinesFine(After(s, H))
<1>1. CASE H = {} BY <1>1, NoLines DEF After
<1>2. CASE H # {}
  <2> DEFINE m == CHOOSE i \in H : \A j \in H : i <= j
  <2>1. Len(s) \in Nat BY ListedLength DEF LinesFine
  <2>2. H \in SUBSET Nat BY <2>1
  <2>3. m \in 1..Len(s) BY <1>2, <2>2, LeastIsIn
  <2> QED BY <1>2, <2>3, SubSeqFine DEF After
<1> QED BY <1>1, <1>2

(* The parts of TypeOK that are not about the map. *)
Stages ==
    /\ at \in {"scan", "fill", "location", "loops", "looped", "duplicates", "listen", "serve",
               "refused", "crashed"}
    /\ openLocation => openServer \/ at = "refused"
    /\ at \in {"fill", "location"} => ~openServer /\ stream = <<>>
    /\ pieces \in 0..MaxPieces

Placed == \A k \in DOMAIN cluster : LocsFine(cluster[k].locs) /\ Written(cluster[k])

Parts ==
    /\ Stages /\ Placed /\ listening \cap pending = {}
    /\ at \notin {"listen", "serve"} => listening = {}
    /\ LinesFine(file) /\ LinesFine(rest) /\ LinesFine(stream) /\ LinesFine(todo)
    /\ at \in {"fill", "location"} => LocsFine(conf.locs) /\ Written(conf)
    /\ at = "location" => LocFine(loc)

LEMMA PieceFine ==
    ASSUME NEW p \in Pieces
    PROVE  LinesFine(p)
<1>1. Len(p) \in Nat /\ p = [i \in 1..Len(p) |-> p[i]] BY PiecesAssumption
<1>2. p \in [1..Len(p) -> {p[i] : i \in 1..Len(p)}] BY <1>1
<1>3. Listed(p) BY <1>1, <1>2, FunctionListed
<1>4. ASSUME NEW i \in 1..Len(p) PROVE LineOK(p[i])
  <2>1. p[i] \in AllLines BY DEF AllLines
  <2>2. /\ p[i].key = "location" => p[i].val = Bad \/ p[i].val \in Paths
        /\ p[i].key = "server" => p[i].open
        /\ p[i].key = "close" => ~p[i].open
    BY PiecesAssumption
  <2> QED BY <2>1, <2>2 DEF LineOK, IsPath
<1> QED BY <1>3, <1>4 DEF LinesFine

LEMMA TypedScan ==
    ASSUME Parts, FileGoesOn \/ EndOfFile \/ CheckRedirectionLoops
    PROVE  Parts'
<1>1. UNCHANGED <<file, openServer, openLocation, stream, todo, cluster, pending, listening>>
  BY DEF FileGoesOn, EndOfFile, CheckRedirectionLoops, Stop, result, scanning
<1>2. LinesFine(rest') /\ pieces' \in 0..MaxPieces
  BY PieceFine, ConfigAssumption
  DEF FileGoesOn, EndOfFile, CheckRedirectionLoops, Stop, scanning, Parts, Stages
<1>3. at \in {"scan", "loops"} /\ at' \in {"scan", "refused", "loops", "looped", "duplicates"}
      /\ (openLocation => openServer)
  BY DEF FileGoesOn, EndOfFile, CheckRedirectionLoops, Stop, Parts, Stages
<1> QED BY <1>1, <1>2, <1>3 DEF Parts, Stages, Placed

LEMMA TypedReadLine ==
    ASSUME Parts, ReadLine
    PROVE  Parts'
<1> DEFINE l == Head(rest)
           lines == Append(stream, l)
<1>1. LineOK(l) /\ LinesFine(rest') BY HeadFine, TailFine DEF Parts, ReadLine
<1>2. LinesFine(lines) BY <1>1, AppendFine DEF Parts
<1>6. LinesFine(file') BY <1>1, AppendFine DEF Parts, ReadLine
<1>3. at = "scan" /\ UNCHANGED <<pieces, cluster, pending, listening>> BY DEF ReadLine
<1>4. CASE l.key = "close" /\ ~openLocation /\ CloseServer(lines)
  <2>1. LinesFine(todo')
    <3>1. Opening(lines) \in SUBSET (1..Len(lines)) BY DEF Opening
    <3> QED BY <1>2, <1>4, <3>1, AfterFine DEF CloseServer
  <2>2. /\ at' \in {"fill", "refused"} /\ ~openServer' /\ ~openLocation' /\ stream' = <<>>
        /\ LocsFine(conf'.locs) /\ Written(conf')
    <3>1. conf' = NoConf BY <1>4 DEF CloseServer
    <3>2. LocsFine(NoConf.locs) BY NoLines DEF NoConf
    <3>3. Written(NoConf) BY DEF Written, NoConf, None, ServerKeys
    <3> QED BY <1>4, <3>1, <3>2, <3>3 DEF CloseServer
  <2>3. LinesFine(stream') BY <2>2, NoLines
  <2> HIDE DEF l, lines
  <2> QED BY <1>1, <1>3, <1>6, <2>1, <2>2, <2>3 DEF Parts, Stages, Placed
<1>5. CASE (l.key = "close" => openLocation) /\ stream' = lines /\ UNCHANGED todo
  <2>1. at' \in {"scan", "refused"} /\ (openLocation' => openServer' \/ at' = "refused")
    <3>1. openLocation => openServer BY <1>3 DEF Parts, Stages
    <3>2. \/ openServer' = TRUE /\ UNCHANGED openLocation /\ at' \in {"refused", at}
          \/ /\ at' = IF ~l.open \/ ~openServer \/ openLocation THEN "refused" ELSE at
             /\ UNCHANGED openServer
          \/ openLocation' = FALSE /\ UNCHANGED <<at, openServer>>
          \/ UNCHANGED <<at, openServer, openLocation>>
      BY <1>5, Zenon DEF ReadLine
    <3> QED BY <1>3, <3>1, <3>2
  <2>2. LinesFine(stream') /\ LinesFine(todo') BY <1>2, <1>5 DEF Parts
  <2> HIDE DEF l, lines
  <2> QED BY <1>1, <1>3, <1>6, <2>1, <2>2 DEF Parts, Stages, Placed
<1> QED BY <1>4, <1>5 DEF ReadLine

(* One more directive. *)
LEMMA TakenWritten ==
    ASSUME NEW c, NEW d, WellFormed(c), Written(c), NEW l \in AllLines, l.key \in ServerKeys, NEW v,
           l.key \in {"host", "listen"} => Valued(l, l.key) /\ v = l.val,
           d.values = Take(c.values, l.key, v)
    PROVE  Written(d)
<1> DEFINE new == IF l.key \in Replaced THEN <<v>> ELSE Append(c.values[l.key], v)
<1>1. d.values = [k \in ServerKeys |-> IF k = l.key THEN new ELSE c.values[k]]
  BY DEF WellFormed, Take
<1>2. SUFFICES ASSUME NEW key \in {"host", "listen"}, NEW i \in 1..Len(d.values[key])
               PROVE  \E m \in AllLines : Valued(m, key) /\ d.values[key][i] = m.val
  BY DEF Written
<1>3. key \in ServerKeys BY DEF ServerKeys
<1>4. CASE key # l.key
  BY <1>1, <1>3, <1>4 DEF Written
<1>5. CASE key = l.key
  <2>1. d.values[key] = new /\ Valued(l, key) /\ v = l.val BY <1>1, <1>3, <1>5
  <2>2. new[i] = v \/ \E j \in 1..Len(c.values[key]) : new[i] = c.values[key][j]
    <3>1. CASE l.key \in Replaced
      <4>1. new = <<v>> /\ i \in 1..Len(<<v>>) BY <2>1, <3>1
      <4> QED BY <4>1, ListedOne
    <3>2. CASE l.key \notin Replaced
      <4>1. new = Append(c.values[key], v) /\ i \in 1..Len(Append(c.values[key], v))
        BY <1>5, <2>1, <3>2
      <4>2. Listed(c.values[key]) BY <1>3 DEF WellFormed
      <4> HIDE DEF new
      <4> QED BY <4>1, <4>2, AppendElements
    <3> QED BY <3>1, <3>2
  <2> QED BY <2>1, <2>2 DEF Written
<1> QED BY <1>4, <1>5

LEMMA TakenFine ==
    ASSUME NEW l, LocFine(l), NEW key \in LocationKeys, NEW v
    PROVE  LocFine([l EXCEPT !.values = Take(@, key, v)])
<1> DEFINE new  == IF key \in Replaced THEN <<v>> ELSE Append(l.values[key], v)
           vals == Take(l.values, key, v)
<1>1. [l EXCEPT !.values = Take(@, key, v)] = [path |-> l.path, values |-> vals] BY DEF LocFine
<1>2. vals = [k \in LocationKeys |-> IF k = key THEN new ELSE l.values[k]]
  BY DEF LocFine, Take
<1>3. Listed(new) BY ListedOne, ListedAppend DEF LocFine
<1>4. IsPath(l.path) /\ \A k \in LocationKeys : Listed(l.values[k]) BY DEF LocFine
<1> HIDE DEF new, vals
<1> QED BY <1>1, <1>2, <1>3, <1>4 DEF LocFine

LEMMA TypedFilling ==
    ASSUME IInv, Parts, StartLocation \/ LocationDirective \/ EndLocation \/ ServerDirective
    PROVE  Parts'
<1>1. /\ UNCHANGED <<file, pieces, rest, openServer, openLocation, stream, cluster, pending,
                      listening>>
      /\ at \in {"fill", "location"}
      /\ at' \in {"fill", "location", "refused", "crashed"}
  BY DEF StartLocation, LocationDirective, EndLocation, ServerDirective, Filling, Refuse, Stop,
         result, scanning
<1>2. LinesFine(todo')
  <2>1. CASE UNCHANGED todo BY <2>1 DEF Parts
  <2>2. CASE todo # <<>> /\ todo' = Tail(todo) BY <2>2, TailFine DEF Parts
  <2>3. CASE todo # <<>> /\ todo' = After(Tail(todo), Closing(Tail(todo)))
    <3>1. Closing(Tail(todo)) \in SUBSET (1..Len(Tail(todo))) BY DEF Closing
    <3> QED BY <2>3, <3>1, TailFine, AfterFine DEF Parts
  <2> QED
    BY <2>1, <2>2, <2>3 DEF StartLocation, LocationDirective, EndLocation, ServerDirective,
                            Filling, Refuse, Stop
<1>3. WellFormed(conf) BY <1>1 DEF IInv, FillingOK
<1>4. LocsFine(conf'.locs) /\ Written(conf')
  <2>1. CASE UNCHANGED conf BY <1>1, <2>1 DEF Parts
  <2>2. CASE EndLocation /\ ~UNCHANGED conf
    <3>1. conf'.locs = Append(conf.locs, loc) /\ conf'.values = conf.values
      BY <1>3, <2>2 DEF EndLocation, Refuse, Stop, WellFormed
    <3>2. LocOK(loc)
      <4>1. LocFine(loc) /\ loc.path # Bad BY <2>2 DEF EndLocation, Refuse, Stop, Parts
      <4> QED BY <4>1 DEF LocFine, LocOK, IsPath, Returns, LocationKeys
    <3>3. LocsFine(conf'.locs) BY <1>1, <3>1, <3>2, AppendFine DEF Parts
    <3>4. Written(conf) BY <1>1 DEF Parts
    <3> QED BY <3>1, <3>3, <3>4 DEF Written
  <2>3. CASE ServerDirective /\ ~UNCHANGED conf
    <3> DEFINE l == Head(todo)
               v == IF SwallowsRest(l) THEN Glued ELSE l.val
    <3>1. /\ l.key \in ServerKeys /\ Accepts(conf.values, l.key, v)
          /\ conf' = [conf EXCEPT !.values = Take(@, l.key, v)]
      <4>1. ~Refuse /\ ~Stop("crashed") BY <2>3 DEF Refuse, Stop
      <4>2. /\ l.key \in ServerKeys /\ Accepts(conf.values, l.key, v)
            /\ conf' = [conf EXCEPT !.values = Take(@, l.key, v)]
        BY <2>3, <4>1, Zenon DEF ServerDirective
      <4> QED BY <4>2
    <3>2. conf'.locs = conf.locs /\ conf'.values = Take(conf.values, l.key, v)
      BY <1>3, <3>1 DEF WellFormed
    <3>3. l \in AllLines BY <2>3, HeadFine DEF ServerDirective, Filling, Parts, LineOK
    <3>4. l.key \in {"host", "listen"} => Valued(l, l.key) /\ v = l.val
      BY <3>1 DEF Accepts, Unchecked, Valued
    <3> HIDE DEF v
    <3>5. Written(conf) BY <1>1 DEF Parts
    <3>6. Written(conf') BY <1>3, <3>1, <3>2, <3>3, <3>4, <3>5, TakenWritten
    <3> QED BY <1>1, <3>2, <3>6 DEF Parts
  <2> QED BY <2>1, <2>2, <2>3 DEF StartLocation, LocationDirective, EndLocation, Refuse, Stop
<1>5. at' = "location" => LocFine(loc')
  <2>1. CASE StartLocation
    <3>1. loc' = [path |-> Head(todo).val, values |-> None(LocationKeys)] /\ IsPath(Head(todo).val)
      BY <2>1, HeadFine DEF StartLocation, Filling, Parts, LineOK
    <3>2. \A k \in LocationKeys : Listed(None(LocationKeys)[k]) BY ListedEmpty DEF None
    <3>3. None(LocationKeys) = [k \in LocationKeys |-> None(LocationKeys)[k]] BY DEF None
    <3> QED BY <3>1, <3>2, <3>3 DEF LocFine
  <2>2. CASE LocationDirective /\ at' = "location"
    <3>1. LocFine(loc) BY <2>2 DEF LocationDirective, Parts
    <3>2. \/ loc' = loc
          \/ \E key \in LocationKeys : \E v : loc' = [loc EXCEPT !.values = Take(@, key, v)]
      BY <2>2 DEF LocationDirective, Refuse, Stop
    <3> QED BY <3>1, <3>2, TakenFine
  <2>3. CASE (EndLocation \/ ServerDirective) /\ at' # "location" BY <2>3
  <2> QED
    BY <2>1, <2>2, <2>3 DEF EndLocation, ServerDirective, Filling, Refuse, Stop
<1> QED BY <1>1, <1>2, <1>4, <1>5 DEF Parts, Stages, Placed

LEMMA TypedCreate ==
    ASSUME IInv, Parts, CreateConfigStruct
    PROVE  Parts'
<1>1. /\ at = "fill" /\ at' \in {"scan", "refused"}
      /\ UNCHANGED <<file, pieces, rest, openServer, openLocation, stream, pending, listening>>
  BY DEF CreateConfigStruct, Refuse, Stop, result, scanning
<1>2. LinesFine(todo') BY NoLines DEF CreateConfigStruct, Refuse, Stop, Parts
<1>3. Placed'
  <2>1. \A k \in DOMAIN cluster' :
           \/ cluster'[k] = conf
           \/ k \in DOMAIN cluster /\ cluster'[k] = cluster[k]
    BY DEF CreateConfigStruct, Refuse, Stop, result
  <2>2. LocsFine(conf.locs) /\ Written(conf) BY <1>1 DEF Parts
  <2> QED BY <2>1, <2>2 DEF Parts, Placed
<1> QED BY <1>1, <1>2, <1>3 DEF Parts, Stages

LEMMA TypedSockets ==
    ASSUME Parts, CheckDuplicateListenAddresses \/ GetServerFd
    PROVE  Parts'
<1>1. /\ UNCHANGED <<file, pieces, rest, openServer, openLocation, stream, todo, cluster>>
      /\ at \in {"duplicates", "listen"} /\ at' \in {"refused", "listen", "serve"}
      /\ (at = "listen" => at' # "refused")
  BY DEF CheckDuplicateListenAddresses, GetServerFd, Refuse, Stop, result, scanning
<1>2. listening' \cap pending' = {} /\ (at' \notin {"listen", "serve"} => listening' = {})
  <2>1. CASE CheckDuplicateListenAddresses
    BY <2>1 DEF CheckDuplicateListenAddresses, Refuse, Stop, result, Parts
  <2>2. CASE GetServerFd BY <2>2 DEF GetServerFd, Parts
  <2> QED BY <2>1, <2>2
<1> QED BY <1>1, <1>2 DEF Parts, Stages, Placed

LEMMA TypedInit == Init => Parts
<1> SUFFICES ASSUME Init PROVE Parts
  OBVIOUS
<1>1. Placed BY DEF Init, Placed
<1> QED BY <1>1, NoLines, ConfigAssumption DEF Init, Parts, Stages

LEMMA TypedNext == IInv /\ Parts /\ [Next]_vars => Parts'
<1> SUFFICES ASSUME IInv, Parts, [Next]_vars PROVE Parts'
  OBVIOUS
<1>1. CASE UNCHANGED vars BY <1>1 DEF vars, Parts, Stages, Placed
<1>2. CASE Next
  BY <1>2, TypedScan, TypedReadLine, TypedFilling, TypedCreate, TypedSockets DEF Next
<1> QED BY <1>1, <1>2

(* Types, for any pieces: what a stage of the program leaves open, and that *)
(* each server is under its key with locations whose names are paths.       *)
THEOREM TypeCorrect == Spec => []TypeOK
<1>1. IInv /\ Parts => TypeOK
  BY DEF IInv, ClusterOK, Complete, Parts, Stages, Placed, LocsFine, LocOK, TypeOK
<1>2. Init => IInv /\ Parts BY Initially, TypedInit
<1>3. IInv /\ Parts /\ [Next]_vars => (IInv /\ Parts)' BY Inductive, TypedNext
<1> QED BY <1>1, <1>2, <1>3, PTL DEF Spec
-----------------------------------------------------------------------------
(* Redirections.  The number of locations bounds the hops that are made.    *)

(* What a finite set is mapped to. *)
LEMMA ImageFinite ==
    ASSUME NEW S, IsFiniteSet(S), NEW f, DOMAIN f = S, f = [x \in S |-> f[x]]
    PROVE  /\ IsFiniteSet({f[x] : x \in S})
           /\ Cardinality({f[x] : x \in S}) <= Cardinality(S)
<1> DEFINE T == {f[x] : x \in S}
<1>1. f \in Surjection(S, T) BY DEF Surjection
<1> HIDE DEF T
<1>2. IsFiniteSet(T) /\ Cardinality(T) <= Cardinality(S) BY <1>1, FS_Surjection
<1> QED BY <1>2 DEF T

LEMMA HopsBound ==
    ASSUME IInv, Parts
    PROVE  /\ MaxHops \in Nat
           /\ \A k \in DOMAIN cluster : /\ Len(cluster[k].locs) \in Nat
                                        /\ Len(cluster[k].locs) <= MaxHops
<1> DEFINE Of(k) == {<<k, i>> : i \in 1..Len(cluster[k].locs)}
           All   == UNION {Of(k) : k \in DOMAIN cluster}
<1>1. \A k \in DOMAIN cluster : Len(cluster[k].locs) \in Nat
  BY ListedLength DEF Parts, Placed, LocsFine
<1>2. ASSUME NEW k \in DOMAIN cluster PROVE IsFiniteSet(Of(k))
  <2> DEFINE n == Len(cluster[k].locs)
             g == [i \in 1..n |-> <<k, i>>]
  <2>1. n \in Nat BY <1>1
  <2> HIDE DEF n
  <2>2. IsFiniteSet(1..n) BY <2>1, FS_Interval
  <2>3. DOMAIN g = 1..n /\ g = [i \in 1..n |-> g[i]] /\ {<<k, i>> : i \in 1..n} = {g[i] : i \in 1..n}
    OBVIOUS
  <2> HIDE DEF g
  <2>4. IsFiniteSet({g[i] : i \in 1..n}) BY <2>2, <2>3, ImageFinite
  <2> QED BY <2>3, <2>4 DEF n
<1>3. IsFiniteSet(All)
  <2> DEFINE F == [k \in DOMAIN cluster |-> Of(k)]
  <2>1. IsFiniteSet(DOMAIN cluster) BY DEF IInv, Counted
  <2> HIDE DEF Of
  <2>2. DOMAIN F = DOMAIN cluster /\ F = [k \in DOMAIN cluster |-> F[k]]
        /\ {Of(k) : k \in DOMAIN cluster} = {F[k] : k \in DOMAIN cluster}
        /\ \A k \in DOMAIN cluster : IsFiniteSet(F[k])
    BY <1>2
  <2> HIDE DEF F
  <2>3. IsFiniteSet({F[k] : k \in DOMAIN cluster}) BY <2>1, <2>2, ImageFinite
  <2>4. \A T \in {F[k] : k \in DOMAIN cluster} : IsFiniteSet(T) BY <2>2
  <2>5. IsFiniteSet(UNION {F[k] : k \in DOMAIN cluster}) BY <2>3, <2>4, FS_UNION
  <2> QED BY <2>2, <2>5
<1>4. MaxHops = Cardinality(All) BY DEF MaxHops
<1>5. ASSUME NEW k \in DOMAIN cluster PROVE Len(cluster[k].locs) <= Cardinality(All)
  <2> DEFINE n == Len(cluster[k].locs)
             g == [i \in 1..n |-> <<k, i>>]
  <2>1. n \in Nat BY <1>1
  <2>2. g \in Injection(1..n, All)
    <3>1. Of(k) \subseteq All /\ \A i \in 1..n : <<k, i>> \in Of(k) OBVIOUS
    <3> HIDE DEF All, Of, n
    <3>2. g \in [1..n -> All] BY <3>1
    <3>3. \A i, j \in 1..n : g[i] = g[j] => i = j OBVIOUS
    <3> HIDE DEF g
    <3> QED BY <3>2, <3>3 DEF Injection, IsInjective
  <2> HIDE DEF g, All, n
  <2>3. Cardinality(1..n) <= Cardinality(All) BY <1>3, <2>2, FS_Injection
  <2>4. Cardinality(1..n) = n BY <2>1, FS_Interval
  <2> QED BY <2>3, <2>4 DEF n
<1> HIDE DEF All
<1> QED BY <1>1, <1>3, <1>4, <1>5, FS_CardinalityType

(* The recursive function of Hops. *)
Chain(t) == CHOOSE f : f = [n \in 0..MaxHops |-> IF n = 0 THEN t ELSE Onward(f[n - 1])]

LEMMA HopsExist ==
    ASSUME NEW t, MaxHops \in Nat
    PROVE  /\ Hops(t)[0] = t
           /\ \A n \in Nat : n + 1 <= MaxHops => Hops(t)[n + 1] = Onward(Hops(t)[n])
<1> DEFINE Upto(n) == \E f : f = [i \in 0..n |-> IF i = 0 THEN t ELSE Onward(f[i - 1])]
           H == {n \in Nat : Upto(n)}
<1>1. PICK N \in Nat : N = MaxHops OBVIOUS
<1>2. 0 \in H
  <2> DEFINE f == [i \in 0..0 |-> t]
  <2>1. f = [i \in 0..0 |-> IF i = 0 THEN t ELSE Onward(f[i - 1])] OBVIOUS
  <2> HIDE DEF f
  <2>2. Upto(0) BY <2>1
  <2> HIDE DEF Upto
  <2> QED BY <2>2
<1>3. ASSUME NEW n \in H PROVE n + 1 \in H
  <2>1. PICK f : f = [i \in 0..n |-> IF i = 0 THEN t ELSE Onward(f[i - 1])] OBVIOUS
  <2> DEFINE g == [i \in 0..(n + 1) |-> IF i = n + 1 THEN Onward(f[n]) ELSE f[i]]
  <2>2. ASSUME NEW i \in 0..(n + 1)
        PROVE  g[i] = IF i = 0 THEN t ELSE Onward(g[i - 1])
    <3>1. CASE i = n + 1
      <4>1. g[i] = Onward(f[n]) /\ i # 0 /\ i - 1 = n /\ g[i - 1] = f[n] BY <3>1
      <4> HIDE DEF g
      <4> QED BY <4>1
    <3>2. CASE i # n + 1
      <4>1. i \in 0..n /\ (i # 0 => i - 1 \in 0..n) BY <3>2
      <4>2. f[i] = IF i = 0 THEN t ELSE Onward(f[i - 1]) BY <2>1, <4>1
      <4>3. g[i] = f[i] /\ (i # 0 => g[i - 1] = f[i - 1]) BY <3>2, <4>1
      <4> HIDE DEF g
      <4> QED BY <4>2, <4>3
    <3> QED BY <3>1, <3>2
  <2>3. g = [i \in 0..(n + 1) |-> IF i = 0 THEN t ELSE Onward(g[i - 1])] BY <2>2
  <2> HIDE DEF g
  <2>4. Upto(n + 1) BY <2>3
  <2> HIDE DEF Upto
  <2> QED BY <2>4
<1> HIDE DEF Upto
<1>4. H = Nat BY <1>2, <1>3, AllNaturals
<1>5. Upto(N) BY <1>4
<1>6. PICK f : f = Chain(t) OBVIOUS
<1>7. f = [i \in 0..N |-> IF i = 0 THEN t ELSE Onward(f[i - 1])]
  BY <1>1, <1>5, <1>6 DEF Chain, Upto
<1>8. \A i \in 0..N : f[i] = IF i = 0 THEN t ELSE Onward(f[i - 1]) BY <1>7
<1>9. Hops(t) = f BY <1>6 DEF Hops, Chain
<1>10. ASSUME NEW n \in Nat, n + 1 <= N PROVE f[n + 1] = Onward(f[n])
  <2>1. n + 1 \in 0..N /\ n + 1 # 0 /\ n + 1 - 1 = n BY <1>10
  <2> QED BY <1>8, <2>1
<1> QED BY <1>1, <1>8, <1>9, <1>10

(* Where the chain has come to a target, it has come by targets only.       *)
LEMMA TargetsBefore ==
    ASSUME NEW t, MaxHops \in Nat, NEW n \in 0..MaxHops, Hops(t)[n] # NoTarget
    PROVE  \A k \in 0..n : Hops(t)[k] # NoTarget
<1> DEFINE H == {d \in Nat : d <= n => Hops(t)[n - d] # NoTarget}
<1>1. 0 \in H OBVIOUS
<1>2. ASSUME NEW d \in H PROVE d + 1 \in H
  <2> SUFFICES ASSUME d + 1 <= n PROVE Hops(t)[n - (d + 1)] # NoTarget
    OBVIOUS
  <2>1. PICK k \in Nat : k = n - (d + 1) OBVIOUS
  <2>2. k + 1 <= MaxHops /\ n - d = k + 1 /\ Hops(t)[k + 1] # NoTarget BY <1>2, <2>1
  <2>3. Hops(t)[k + 1] = Onward(Hops(t)[k]) BY <2>2, HopsExist
  <2> QED BY <2>1, <2>2, <2>3 DEF Onward
<1>3. H = Nat BY <1>1, <1>2, AllNaturals
<1>4. ASSUME NEW k \in 0..n PROVE Hops(t)[k] # NoTarget
  <2>1. PICK d \in Nat : d = n - k BY <1>4
  <2>2. d <= n /\ n - d = k BY <1>4, <2>1
  <2>3. d \in H BY <1>3, <2>1
  <2> QED BY <2>2, <2>3
<1> QED BY <1>4

(* The next target is the first of a location of this name. *)
LEMMA NextIs ==
    ASSUME NEW t, NextTarget(t) # NoTarget
    PROVE  \E k \in DOMAIN cluster : \E i \in 1..Len(cluster[k].locs) :
              /\ cluster[k].locs[i].path = t /\ Returns(cluster[k].locs[i]) # <<>>
              /\ NextTarget(t) = Returns(cluster[k].locs[i])[1]
<1> DEFINE hits == {n \in 1..Len(KeyOrder) :
                       KeyOrder[n] \in DOMAIN cluster /\ Stays(cluster[KeyOrder[n]], t) # {}}
           m == CHOOSE n \in hits : \A o \in hits : n <= o
           k == KeyOrder[m]
           c == cluster[k]
           i == CHOOSE x \in Stays(c, t) : TRUE
<1>1. hits # {} BY DEF NextTarget
<1>2. hits \in SUBSET Nat BY KeyOrderAssumption
<1>3. m \in hits
  <2> HIDE DEF hits
  <2> QED BY <1>1, <1>2, LeastIsIn
<1>4. k \in DOMAIN cluster /\ Stays(c, t) # {} BY <1>3
<1>5. i \in Stays(c, t) BY <1>4
<1>6. NextTarget(t) = IF Returns(c.locs[i]) = <<>> THEN NoTarget ELSE Returns(c.locs[i])[1]
  BY <1>1 DEF NextTarget
<1>7. i \in 1..Len(c.locs) /\ c.locs[i].path = t BY <1>5 DEF Stays
<1> HIDE DEF i, k, m
<1> QED BY <1>4, <1>6, <1>7

(* A name from which a location leads into C. *)
Continues(n, C) ==
    \E k \in DOMAIN cluster : \E i \in 1..Len(cluster[k].locs) :
        /\ cluster[k].locs[i].path = n
        /\ \E j \in 1..Len(Returns(cluster[k].locs[i])) : Returns(cluster[k].locs[i])[j] \in C

LEMMA FirstReturn ==
    ASSUME Parts, NEW k \in DOMAIN cluster, NEW i \in 1..Len(cluster[k].locs),
           Returns(cluster[k].locs[i]) # <<>>
    PROVE  1 \in 1..Len(Returns(cluster[k].locs[i]))
<1>1. Listed(Returns(cluster[k].locs[i])) BY DEF Parts, Placed, LocsFine, LocOK
<1> QED BY <1>1 DEF Listed

(* Each target on the chain leads to the next. *)
LEMMA ChainContinues ==
    ASSUME IInv, Parts, NEW t, NEW n \in 0..MaxHops, Hops(t)[n] # NoTarget, NEW k \in 0..n, k # n,
           NEW C, Hops(t)[k + 1] \in C
    PROVE  Continues(Hops(t)[k], C)
<1>1. MaxHops \in Nat BY HopsBound
<1>2. k \in Nat /\ k + 1 <= MaxHops /\ k + 1 \in 0..n BY <1>1
<1>3. Hops(t)[k] # NoTarget /\ Hops(t)[k + 1] # NoTarget BY <1>1, <1>2, TargetsBefore
<1>4. Hops(t)[k + 1] = NextTarget(Hops(t)[k]) BY <1>1, <1>2, <1>3, HopsExist DEF Onward
<1>0. PICK s \in DOMAIN cluster : \E i \in 1..Len(cluster[s].locs) :
          /\ cluster[s].locs[i].path = Hops(t)[k] /\ Returns(cluster[s].locs[i]) # <<>>
          /\ Hops(t)[k + 1] = Returns(cluster[s].locs[i])[1]
  BY <1>3, <1>4, NextIs
<1>5. PICK i \in 1..Len(cluster[s].locs) :
          /\ cluster[s].locs[i].path = Hops(t)[k] /\ Returns(cluster[s].locs[i]) # <<>>
          /\ Hops(t)[k + 1] = Returns(cluster[s].locs[i])[1]
  BY <1>0
<1>6. 1 \in 1..Len(Returns(cluster[s].locs[i])) BY <1>5, FirstReturn
<1> QED BY <1>5, <1>6 DEF Continues

(* A loop that was found is one: names that lead to each other. *)
LEMMA LoopContinues ==
    ASSUME IInv, Parts, HasLoop
    PROVE  \E C : C # {} /\ \A n \in C : Continues(n, C)
<1>1. MaxHops \in Nat BY HopsBound
<1>0. PICK s \in DOMAIN cluster :
         \E i \in 1..Len(cluster[s].locs) : \E j \in 1..Len(Returns(cluster[s].locs[i])) :
            Loop(cluster[s], i, Returns(cluster[s].locs[i])[j])
  BY DEF HasLoop, Servers
<1>2. PICK i \in 1..Len(cluster[s].locs) : \E j \in 1..Len(Returns(cluster[s].locs[i])) :
         Loop(cluster[s], i, Returns(cluster[s].locs[i])[j])
  BY <1>0
<1>3. PICK j \in 1..Len(Returns(cluster[s].locs[i])) :
         Loop(cluster[s], i, Returns(cluster[s].locs[i])[j])
  BY <1>2
<1>4. PICK t : t = Returns(cluster[s].locs[i])[j] OBVIOUS
<1>5. PICK f : f = Hops(t) OBVIOUS
<1>6. PICK p : p = cluster[s].locs[i].path OBVIOUS
<1>7. PICK n \in 0..MaxHops : f[n] # NoTarget /\ (f[n] = p \/ \E m \in 0..(n - 1) : f[m] = f[n])
  BY <1>3, <1>4, <1>5, <1>6 DEF Loop
<1>8. f[0] = t BY <1>1, <1>5, HopsExist
<1>9. ASSUME NEW k \in 0..n, k # n, NEW C, f[k + 1] \in C PROVE Continues(f[k], C)
  BY <1>5, <1>7, <1>9, ChainContinues
<1>10. CASE f[n] = p
  <2> DEFINE C == {p} \cup {f[k] : k \in 0..(n - 1)}
  <2>1. ASSUME NEW k \in 0..n PROVE f[k] \in C
    <3>1. k = n \/ k \in 0..(n - 1) BY <1>7
    <3> QED BY <1>10, <3>1
  <2>2. \A x \in C : x = p \/ \E k \in 0..(n - 1) : x = f[k] OBVIOUS
  <2>3. C # {} OBVIOUS
  <2> HIDE DEF C
  <2>4. Continues(p, C)
    <3>1. t \in C BY <1>7, <1>8, <2>1
    <3> QED BY <1>3, <1>4, <1>6, <3>1 DEF Continues
  <2>5. ASSUME NEW k \in 0..(n - 1) PROVE Continues(f[k], C)
    <3>1. k \in 0..n /\ k # n /\ k + 1 \in 0..n BY <1>7
    <3> QED BY <1>9, <2>1, <3>1
  <2>6. \A x \in C : Continues(x, C)
    <3> HIDE DEF Continues
    <3> QED BY <2>2, <2>4, <2>5, Zenon
  <2> QED BY <2>3, <2>6
<1>11. CASE \E m \in 0..(n - 1) : f[m] = f[n]
  <2>0. PICK m \in 0..(n - 1) : f[m] = f[n] BY <1>11
  <2> DEFINE C == {f[k] : k \in m..(n - 1)}
  <2>1. ASSUME NEW k \in m..n PROVE f[k] \in C
    <3>1. m \in m..(n - 1) /\ (k = n \/ k \in m..(n - 1)) BY <1>7
    <3> QED BY <2>0, <3>1
  <2>2. \A x \in C : \E k \in m..(n - 1) : x = f[k] OBVIOUS
  <2>3. m \in m..n BY <1>7
  <2> HIDE DEF C
  <2>4. ASSUME NEW k \in m..(n - 1) PROVE Continues(f[k], C)
    <3>1. k \in 0..n /\ k # n /\ k + 1 \in m..n BY <1>7
    <3> QED BY <1>9, <2>1, <3>1
  <2>5. \A x \in C : Continues(x, C)
    <3> HIDE DEF Continues
    <3> QED BY <2>2, <2>4, Zenon
  <2> QED BY <2>1, <2>3, <2>5
<1> QED BY <1>7, <1>10, <1>11

(* What CheckRedirectionLoops found out stays so. *)
Searched ==
    /\ at = "looped" => HasLoop
    /\ at = "duplicates" => ~HasLoop

LEMMA SameLoops ==
    ASSUME UNCHANGED cluster
    PROVE  HasLoop' = HasLoop
BY DEF HasLoop, Loop, Hops, Onward, MaxHops, Servers, NextTarget, Stays, Returns, NoTarget

LEMMA SearchedNext == Searched /\ [Next]_vars => Searched'
<1> SUFFICES ASSUME Searched, [Next]_vars PROVE Searched'
  OBVIOUS
<1>1. CASE UNCHANGED vars
  <2>1. UNCHANGED cluster /\ UNCHANGED at BY <1>1 DEF vars
  <2> QED BY <2>1, SameLoops DEF Searched
<1>2. CASE CheckRedirectionLoops
  <2>1. UNCHANGED cluster /\ at' = IF HasLoop THEN "looped" ELSE "duplicates"
    BY <1>2 DEF CheckRedirectionLoops, Stop, result
  <2> QED BY <2>1, SameLoops DEF Searched
<1>3. CASE Next /\ ~CheckRedirectionLoops
  <2>1. at' \notin {"looped", "duplicates"}
    BY <1>3 DEF Next, FileGoesOn, ReadLine, EndOfFile, StartLocation, LocationDirective, EndLocation,
                ServerDirective, CreateConfigStruct, CheckDuplicateListenAddresses, GetServerFd,
                Filling, CloseServer, Refuse, Stop
  <2> QED BY <2>1 DEF Searched
<1> QED BY <1>1, <1>2, <1>3

LEMMA AllInvariants == Spec => [](IInv /\ Parts /\ Searched)
<1>1. Init => IInv /\ Parts /\ Searched
  <2>1. Init => Searched BY DEF Init, Searched
  <2> QED BY <2>1, Initially, TypedInit
<1>2. IInv /\ Parts /\ Searched /\ [Next]_vars => (IInv /\ Parts /\ Searched)'
  BY Inductive, TypedNext, SearchedNext
<1> QED BY <1>1, <1>2, PTL DEF Spec

(* A file refused for a loop has one, in one server or through several      *)
(* (Config.cpp:349-353).                                                    *)
THEOREM RefusedForALoop == Spec => []LoopsReal
<1>1. ASSUME IInv, Parts, Searched PROVE LoopsReal
  <2> SUFFICES ASSUME at = "looped"
               PROVE  \E C \in (SUBSET UNION {NamesOf(c) : c \in Servers}) \ {{}} :
                        \A n \in C : \E c \in Servers : \E i \in 1..Len(c.locs) :
                            /\ c.locs[i].path = n
                            /\ \E j \in 1..Len(Returns(c.locs[i])) : Returns(c.locs[i])[j] \in C
    BY DEF LoopsReal
  <2>1. PICK C : C # {} /\ \A n \in C : Continues(n, C) BY <1>1, LoopContinues DEF Searched
  <2>2. \A n \in C : \E c \in Servers : \E i \in 1..Len(c.locs) :
           /\ c.locs[i].path = n
           /\ \E j \in 1..Len(Returns(c.locs[i])) : Returns(c.locs[i])[j] \in C
    BY <2>1 DEF Continues, Servers
  <2>3. C \subseteq UNION {NamesOf(c) : c \in Servers} BY <2>2 DEF NamesOf
  <2> QED BY <2>1, <2>2, <2>3
<1> QED BY <1>1, AllInvariants, PTL

-----------------------------------------------------------------------------
(* The other way: a server whose redirections come back has a loop.          *)
Own(c)          == \A d \in Servers \ {c} : NamesOf(c) \cap NamesOf(d) = {}
FirstOf(c, i, t) == /\ i \in 1..Len(c.locs) /\ c.locs[i].path = t
                    /\ \A j \in 1..(i - 1) : c.locs[j].path # t

(* The map's order has every key. *)
LEMMA KeyInOrder ==
    ASSUME IInv, Parts, NEW k \in DOMAIN cluster
    PROVE  \E n \in 1..Len(KeyOrder) : KeyOrder[n] = k
<1> DEFINE c == cluster[k]
<1>1. WellFormed(c) /\ Complete(c) /\ k = Key(c) /\ Written(c)
  BY DEF IInv, ClusterOK, Parts, Placed
<1>2. 1 \in 1..Len(c.values["host"]) /\ Head(c.values["host"]) = c.values["host"][1]
  <2>1. c.values["host"] \in Seq({c.values["host"][i] : i \in 1..Len(c.values["host"])})
    BY <1>1 DEF WellFormed, Listed, ServerKeys
  <2>2. c.values["host"] # <<>> BY <1>1 DEF Complete
  <2> QED BY <2>1, <2>2
<1>3. 1 \in 1..Len(c.values["listen"]) BY <1>1, FirstPort DEF Ports
<1>4. PICK l \in AllLines : Valued(l, "host") /\ Host(c) = l.val
  BY <1>1, <1>2 DEF Written, Host
<1>5. PICK m \in AllLines : Valued(m, "listen") /\ Ports(c)[1] = m.val
  BY <1>1, <1>3 DEF Written, Ports
<1>6. PICK p \in Pieces : \E i \in 1..Len(p) : l = p[i] BY DEF AllLines
<1>7. PICK i \in 1..Len(p) : l = p[i] BY <1>6
<1>8. PICK q \in Pieces : \E j \in 1..Len(q) : m = q[j] BY DEF AllLines
<1>9. PICK j \in 1..Len(q) : m = q[j] BY <1>8
<1>10. k = <<l.val, m.val>> BY <1>1, <1>4, <1>5 DEF Key
<1> QED BY <1>4, <1>5, <1>7, <1>9, <1>10, KeyOrderAssumption

(* From a name no other server has, the chain goes on in this server. *)
LEMMA NextInside ==
    ASSUME IInv, Parts, NEW k \in DOMAIN cluster, Own(cluster[k]), NEW t, NEW i,
           FirstOf(cluster[k], i, t), Local(cluster[k].locs[i])
    PROVE  NextTarget(t) = Returns(cluster[k].locs[i])[1]
<1> DEFINE c == cluster[k]
           hits == {n \in 1..Len(KeyOrder) :
                       KeyOrder[n] \in DOMAIN cluster /\ Stays(cluster[KeyOrder[n]], t) # {}}
           m == CHOOSE n \in hits : \A o \in hits : n <= o
           d == cluster[KeyOrder[m]]
           x == CHOOSE y \in Stays(d, t) : TRUE
<1>1. Stays(c, t) = {i}
  <2>1. i \in Stays(c, t) BY DEF Stays, FirstOf, Local
  <2>2. Len(c.locs) \in Nat BY HopsBound
  <2>3. ASSUME NEW j \in Stays(c, t) PROVE j = i
    <3>1. j \in 1..Len(c.locs) /\ c.locs[j].path = t /\ \A o \in 1..(j - 1) : c.locs[o].path # t
      BY <2>3 DEF Stays
    <3>2. i \in 1..Len(c.locs) /\ c.locs[i].path = t /\ \A o \in 1..(i - 1) : c.locs[o].path # t
      BY DEF FirstOf
    <3>3. ~(i < j) /\ ~(j < i) BY <2>2, <3>1, <3>2
    <3> QED BY <2>2, <3>1, <3>2, <3>3
  <2> QED BY <2>1, <2>3
<1>2. hits # {} BY <1>1, KeyInOrder
<1>3. hits \in SUBSET Nat BY KeyOrderAssumption
<1>4. m \in hits
  <2> HIDE DEF hits
  <2> QED BY <1>2, <1>3, LeastIsIn
<1>5. d \in Servers /\ Stays(d, t) # {} BY <1>4 DEF Servers
<1>6. t \in NamesOf(d) /\ t \in NamesOf(c)
  <2>1. t \in NamesOf(d) BY <1>5 DEF Stays, NamesOf
  <2>2. t \in NamesOf(c) BY <1>1 DEF Stays, NamesOf
  <2> QED BY <2>1, <2>2
<1>7. d = c BY <1>5, <1>6 DEF Own
<1>8. x = i BY <1>1, <1>7
<1>9. NextTarget(t) = IF Returns(d.locs[x]) = <<>> THEN NoTarget ELSE Returns(d.locs[x])[1]
  BY <1>2 DEF NextTarget
<1> HIDE DEF d, x, m
<1> QED BY <1>7, <1>8, <1>9 DEF Local

(* A redirection to a location's own name is served there. *)
LEMMA NameIsServed ==
    ASSUME NEW locs, Located(locs), NEW j \in 1..Len(locs), NEW t, t = locs[j].path,
           Len(locs) \in Nat, SegmentMatch(locs, t) # 0
    PROVE  /\ SegmentMatch(locs, t) \in 1..Len(locs) /\ locs[SegmentMatch(locs, t)].path = t
           /\ \A o \in 1..(SegmentMatch(locs, t) - 1) : locs[o].path # t
<1>1. PICK b : b = SegmentMatch(locs, t) OBVIOUS
<1>2. PICK fits : fits = SegmentFits(locs, t) OBVIOUS
<1>3. b = Best(locs, fits) /\ b # 0 BY <1>1, <1>2 DEF SegmentMatch
<1>4. 0 \notin fits BY <1>2 DEF SegmentFits
<1>5. /\ b \in fits /\ \A o \in fits : TextPrefix(locs[o].path, locs[b].path)
      /\ \A o \in fits : locs[o].path = locs[b].path => b <= o
  BY <1>3, <1>4, BestFits, BestIsFirst
<1>6. t \in Paths /\ Covers(t, t) BY DEF Located, Covers, Paths
<1>7. \A o \in 1..Len(locs) : locs[o].path = t => o \in fits BY <1>2, <1>6 DEF SegmentFits
<1>8. TextPrefix(t, locs[b].path) BY <1>5, <1>7
<1>9. b \in 1..Len(locs) /\ locs[b].path \in Paths /\ Covers(locs[b].path, t)
  BY <1>2, <1>5 DEF SegmentFits, Located
<1>10. locs[b].path = t BY <1>6, <1>8, <1>9, CoverOfItself
<1>11. ASSUME NEW o \in 1..(b - 1) PROVE locs[o].path # t
  <2>1. o \in 1..Len(locs) /\ ~(b <= o) BY <1>9
  <2> QED BY <1>5, <1>7, <1>10, <2>1
<1> QED BY <1>1, <1>9, <1>10, <1>11

LEMMA ComesBack ==
    ASSUME IInv, Parts, NEW k \in DOMAIN cluster, Exact(cluster[k]), Own(cluster[k]),
           NEW C \in SUBSET (1..Len(cluster[k].locs)), C # {},
           \A i \in C : LeadsTo(cluster[k], i) \in C
    PROVE  HasLoop
<1> DEFINE c == cluster[k]
           R(i) == Returns(c.locs[i])[1]
<1>1. MaxHops \in Nat /\ Len(c.locs) \in Nat /\ Len(c.locs) <= MaxHops BY HopsBound
<1>2. Located(c.locs) BY DEF Parts, Placed, LocsFine, LocOK, Located
<1>3. ASSUME NEW i \in C
      PROVE  Local(c.locs[i]) /\ LeadsTo(c, i) = SegmentMatch(c.locs, R(i)) /\ LeadsTo(c, i) # 0
  <2>1. LeadsTo(c, i) # 0 BY <1>1, <1>3
  <2> QED BY <2>1 DEF LeadsTo
<1>4. ASSUME NEW i \in C PROVE R(i) \in NamesOf(c)
  <2>1. LeadsTo(c, i) # 0 /\ Local(c.locs[LeadsTo(c, i)]) BY <1>3, <1>4
  <2> QED BY <1>4, <2>1 DEF Exact
<1>5. ASSUME NEW i \in C
      PROVE  LeadsTo(c, i) \in C /\ NextTarget(R(i)) = R(LeadsTo(c, i))
  <2>1. PICK b \in C : b = LeadsTo(c, i) BY <1>5
  <2>2. b = SegmentMatch(c.locs, R(i)) /\ b # 0 BY <1>3, <2>1
  <2>3. PICK j \in 1..Len(c.locs) : R(i) = c.locs[j].path BY <1>4 DEF NamesOf
  <2> HIDE DEF R
  <2>4. FirstOf(c, b, R(i))
    <3>1. PICK locs : locs = c.locs OBVIOUS
    <3>2. Located(locs) /\ Len(locs) \in Nat /\ j \in 1..Len(locs) /\ R(i) = locs[j].path
          /\ SegmentMatch(locs, R(i)) = b /\ b # 0
      BY <1>1, <1>2, <2>2, <2>3, <3>1
    <3>3. /\ b \in 1..Len(locs) /\ locs[b].path = R(i)
          /\ \A o \in 1..(b - 1) : locs[o].path # R(i)
      BY <3>2, NameIsServed
    <3> QED BY <3>1, <3>3 DEF FirstOf
  <2>5. Local(c.locs[b]) BY <1>3
  <2>6. NextTarget(R(i)) = Returns(c.locs[b])[1] BY <2>4, <2>5, NextInside
  <2> QED BY <2>1, <2>6 DEF R
<1>6. \A p \in NamesOf(c) : p # NoTarget BY <1>2 DEF NamesOf, Located, Paths, NoTarget
<1>7. PICK i0 \in C : TRUE OBVIOUS
<1>8. PICK t : t = R(i0) OBVIOUS
<1>9. PICK f : f = Hops(t) OBVIOUS
<1>10. f[0] = t /\ \A n \in Nat : n + 1 <= MaxHops => f[n + 1] = Onward(f[n])
  BY <1>1, <1>9, HopsExist
<1>11. ASSUME NEW n \in 0..MaxHops PROVE f[n] \in NamesOf(c)
  <2> DEFINE H == {m \in Nat : m <= MaxHops => \E i \in C : f[m] = R(i)}
  <2> HIDE DEF R
  <2>1. 0 \in H BY <1>7, <1>8, <1>10
  <2>2. ASSUME NEW m \in H PROVE m + 1 \in H
    <3> SUFFICES ASSUME m + 1 <= MaxHops PROVE \E i \in C : f[m + 1] = R(i)
      OBVIOUS
    <3>1. PICK i \in C : f[m] = R(i) BY <1>1, <2>2
    <3>2. f[m + 1] = Onward(f[m]) BY <1>10, <2>2
    <3>3. f[m] # NoTarget BY <1>4, <1>6, <3>1
    <3> QED BY <1>5, <3>1, <3>2, <3>3 DEF Onward
  <2>3. H = Nat BY <2>1, <2>2, AllNaturals
  <2>4. \E i \in C : f[n] = R(i) BY <1>1, <1>11, <2>3
  <2> QED BY <1>4, <2>4
<1>12. \E x, y \in 0..MaxHops : x # y /\ f[x] = f[y]
  <2> DEFINE S == 0..MaxHops
             T == NamesOf(c)
             g == [n \in S |-> f[n]]
             h == [i \in 1..Len(c.locs) |-> c.locs[i].path]
  <2>1. IsFiniteSet(S) /\ Cardinality(S) = MaxHops + 1 BY <1>1, FS_Interval
  <2>2. IsFiniteSet(1..Len(c.locs)) /\ Cardinality(1..Len(c.locs)) = Len(c.locs)
    <3>1. PICK N \in Nat : N = Len(c.locs) BY <1>1
    <3>2. IsFiniteSet(1..N) /\ Cardinality(1..N) = N BY FS_Interval
    <3> QED BY <3>1, <3>2
  <2>3. DOMAIN h = 1..Len(c.locs) /\ h = [i \in 1..Len(c.locs) |-> h[i]]
        /\ T = {h[i] : i \in 1..Len(c.locs)}
    BY DEF NamesOf
  <2> HIDE DEF h, T
  <2>4. IsFiniteSet(T) /\ Cardinality(T) <= Len(c.locs) BY <2>2, <2>3, ImageFinite
  <2>5. Cardinality(T) < Cardinality(S)
    <3>1. Cardinality(T) \in Nat BY <2>4, FS_CardinalityType
    <3> QED BY <1>1, <2>1, <2>4, <3>1
  <2>6. g \in [S -> T] BY <1>11 DEF T
  <2> HIDE DEF g, S
  <2>7. \E x, y \in S : x # y /\ g[x] = g[y] BY <2>1, <2>4, <2>5, <2>6, FS_PigeonHole
  <2> QED BY <2>7 DEF g, S
<1>13. PICK x \in 0..MaxHops, y \in 0..MaxHops : x < y /\ f[x] = f[y] BY <1>1, <1>12
<1>14. /\ y \in 0..MaxHops /\ f[y] # NoTarget
       /\ \E m \in 0..(y - 1) : f[m] = f[y]
  BY <1>1, <1>6, <1>11, <1>13
<1>15. Local(c.locs[i0]) BY <1>3
<1>16. Loop(c, i0, t) BY <1>8, <1>9, <1>14, <1>15 DEF Loop, Local
<1>17. i0 \in 1..Len(c.locs) /\ 1 \in 1..Len(Returns(c.locs[i0]))
  BY <1>15, FirstReturn DEF Local
<1> QED BY <1>8, <1>16, <1>17 DEF HasLoop, Servers

(* In an accepted file no chain of redirections comes back, as requests      *)
(* follow it by longest names, under what RedirectsEnd says of the targets   *)
(* (Config.cpp:327-395, Get.cpp:70-129).                                     *)
THEOREM NoWayBack == Spec => []RedirectsEnd
<1>1. ASSUME IInv, Parts, Searched, at = "duplicates", NEW c \in Servers,
             Exact(c), \A d \in Servers \ {c} : NamesOf(c) \cap NamesOf(d) = {},
             NEW C \in (SUBSET (1..Len(c.locs))) \ {{}}
      PROVE  \E i \in C : LeadsTo(c, i) \notin C
  <2>1. PICK k \in DOMAIN cluster : c = cluster[k] BY DEF Servers
  <2>2. Own(c) BY <1>1 DEF Own
  <2> SUFFICES ASSUME \A i \in C : LeadsTo(c, i) \in C PROVE FALSE
    OBVIOUS
  <2>3. Exact(cluster[k]) /\ Own(cluster[k]) BY <1>1, <2>1, <2>2
  <2>4. C \in SUBSET (1..Len(cluster[k].locs)) /\ C # {} BY <1>1, <2>1
  <2>5. \A i \in C : LeadsTo(cluster[k], i) \in C BY <2>1
  <2>6. HasLoop
    <3> HIDE <2>1
    <3> QED BY <1>1, <2>3, <2>4, <2>5, ComesBack
  <2> QED BY <1>1, <2>6 DEF Searched
<1>2. IInv /\ Parts /\ Searched => RedirectsEnd BY <1>1 DEF RedirectsEnd
<1> QED BY <1>2, AllInvariants, PTL
-----------------------------------------------------------------------------
(* Directives.  Places in a file are natural numbers; the n-th of a set of  *)
(* them is the one with n - 1 others before it.                             *)

LEMMA GreatestIsIn ==
    ASSUME NEW N \in Nat, NEW S \in SUBSET (1..N), S # {}
    PROVE  Max0(S) \in S /\ \A j \in S : j <= Max0(S)
<1> DEFINE B == {b \in Nat : \A j \in S : j <= b}
<1>1. N \in B OBVIOUS
<1>2. PICK b \in B : \A x \in B : b <= x
  <2>1. B \in SUBSET Nat /\ B # {} BY <1>1
  <2> HIDE DEF B
  <2> QED BY <2>1, LeastIsIn
<1>3. b \in S
  <2> SUFFICES ASSUME b \notin S PROVE FALSE
    OBVIOUS
  <2>1. PICK i \in S : TRUE OBVIOUS
  <2>2. b - 1 \in Nat /\ \A j \in S : j <= b - 1 BY <1>2, <2>1
  <2>3. b - 1 \in B BY <2>2
  <2> QED BY <1>2, <2>2, <2>3
<1>4. \E i \in S : \A j \in S : i >= j BY <1>2, <1>3
<1>5. Max0(S) \in S /\ \A j \in S : Max0(S) >= j BY <1>4 DEF Max0
<1> QED BY <1>5

(* The greatest is known by being in the set and above it. *)
LEMMA GreatestIs ==
    ASSUME NEW N \in Nat, NEW S \in SUBSET (1..N), NEW m \in S, \A j \in S : j <= m
    PROVE  Max0(S) = m
<1>1. Max0(S) \in S /\ \A j \in S : j <= Max0(S) BY GreatestIsIn
<1>2. Max0(S) \in Nat /\ m \in Nat
  <2>1. \A j \in S : j \in Nat OBVIOUS
  <2> QED BY <1>1, <2>1
<1>3. Max0(S) <= m /\ m <= Max0(S) BY <1>1
<1> QED BY <1>2, <1>3

Before(S, i) == {m \in S : m < i}
Ranked(S, n) == {j \in S : Cardinality(Before(S, j)) = n - 1}

LEMMA NthIs ==
    ASSUME NEW S, NEW n
    PROVE  Nth(S, n) = CHOOSE i \in Ranked(S, n) : TRUE
BY DEF Nth, Ranked, Before

LEMMA PlacesFinite ==
    ASSUME NEW N \in Nat, NEW S \in SUBSET (1..N)
    PROVE  IsFiniteSet(S) /\ Cardinality(S) \in Nat
<1>1. IsFiniteSet(1..N) BY FS_Interval
<1>2. IsFiniteSet(S) BY <1>1, FS_Subset
<1> QED BY <1>2, FS_CardinalityType

LastRanked(S, m, T) ==
    /\ Cardinality(T) = Cardinality(S) + 1
    /\ Ranked(T, Cardinality(S) + 1) = {m}
    /\ \A n \in 1..Cardinality(S) : Ranked(T, n) = Ranked(S, n)

(* One more place, after all others, is ranked last. *)
LEMMA RankedMore ==
    ASSUME NEW N \in Nat, NEW S \in SUBSET (1..N), NEW m \in Nat, N < m
    PROVE  LastRanked(S, m, S \cup {m})
<1> DEFINE T == S \cup {m}
           c == Cardinality(S)
<1>1. IsFiniteSet(S) /\ c \in Nat BY PlacesFinite
<1>2. m \notin S BY DEF Before
<1>3. Cardinality(T) = c + 1 BY <1>1, <1>2, FS_AddElement
<1>4. \A i \in S : Before(T, i) = Before(S, i) BY DEF Before
<1>5. Before(T, m) = S
  <2>1. \A i \in S : i < m OBVIOUS
  <2>2. ~(m < m) OBVIOUS
  <2> QED BY <2>1, <2>2 DEF Before
<1>6. ASSUME NEW i \in S PROVE Cardinality(Before(S, i)) \in Nat /\ Cardinality(Before(S, i)) < c
  <2>1. Before(S, i) \in SUBSET S /\ Before(S, i) # S BY DEF Before
  <2>2. IsFiniteSet(Before(S, i)) /\ Cardinality(Before(S, i)) <= c
        /\ Cardinality(Before(S, i)) # c
    BY <1>1, <2>1, FS_Subset
  <2> QED BY <1>1, <2>2, FS_CardinalityType
<1> HIDE DEF c
<1>7. Ranked(T, c + 1) = {m}
  <2>1. \A i \in S : Cardinality(Before(T, i)) # (c + 1) - 1 BY <1>1, <1>4, <1>6
  <2>2. Cardinality(Before(T, m)) = (c + 1) - 1 BY <1>1, <1>5 DEF c
  <2> QED BY <2>1, <2>2 DEF Ranked
<1>8. ASSUME NEW n \in 1..c PROVE Ranked(T, n) = Ranked(S, n)
  <2>1. \A i \in S : Cardinality(Before(T, i)) = Cardinality(Before(S, i)) BY <1>4
  <2>2. Cardinality(Before(T, m)) # n - 1 BY <1>1, <1>5 DEF c
  <2> QED BY <2>1, <2>2 DEF Ranked
<1> QED BY <1>3, <1>7, <1>8 DEF c, LastRanked

(* There is an n-th place for each n up to their number. *)
LEMMA NthIn ==
    ASSUME NEW N \in Nat, NEW S \in SUBSET (1..N), NEW n \in 1..Cardinality(S)
    PROVE  Nth(S, n) \in S
<1> DEFINE Full(T) == \A k \in 1..Cardinality(T) : Ranked(T, k) # {}
           H == {b \in Nat : \A T \in SUBSET (1..b) : Full(T)}
<1>1. 0 \in H
  <2>1. ASSUME NEW T \in SUBSET (1..0) PROVE Full(T)
    <3>1. T = {} OBVIOUS
    <3>2. Cardinality(T) = 0 BY <3>1, FS_EmptySet
    <3> QED BY <3>2
  <2> QED BY <2>1
<1>2. ASSUME NEW b \in H PROVE b + 1 \in H
  <2>1. ASSUME NEW T \in SUBSET (1..(b + 1)) PROVE Full(T)
    <3> DEFINE U == T \ {b + 1}
    <3>1. U \in SUBSET (1..b) OBVIOUS
    <3>2. Full(U) BY <1>2, <3>1
    <3>3. CASE b + 1 \notin T
      <4>1. T = U BY <3>3
      <4> QED BY <3>2, <4>1
    <3>4. CASE b + 1 \in T
      <4>1. T = U \cup {b + 1} BY <3>4
      <4> HIDE DEF U
      <4>2. /\ Cardinality(T) = Cardinality(U) + 1 /\ Cardinality(U) \in Nat
            /\ Ranked(T, Cardinality(U) + 1) = {b + 1}
            /\ \A k \in 1..Cardinality(U) : Ranked(T, k) = Ranked(U, k)
        <5>1. PICK m \in Nat : m = b + 1 OBVIOUS
        <5>2. b \in Nat /\ b < m BY <5>1
        <5>3. U \in SUBSET (1..b) BY <3>1
        <5>4. LastRanked(U, m, U \cup {m}) BY <5>2, <5>3, RankedMore
        <5>5. Cardinality(U) \in Nat BY <5>2, <5>3, PlacesFinite
        <5> QED BY <4>1, <5>1, <5>4, <5>5 DEF LastRanked
      <4> SUFFICES ASSUME NEW k \in 1..Cardinality(T) PROVE Ranked(T, k) # {}
        OBVIOUS
      <4>3. k = Cardinality(U) + 1 \/ k \in 1..Cardinality(U) BY <4>2
      <4> QED BY <3>2, <4>2, <4>3
    <3> QED BY <3>3, <3>4
  <2> HIDE DEF Full
  <2> QED BY <2>1
<1> HIDE DEF Full
<1>3. H = Nat BY <1>1, <1>2, AllNaturals
<1>4. Full(S) BY <1>3
<1>5. Ranked(S, n) # {} BY <1>4 DEF Full
<1>6. Nth(S, n) \in Ranked(S, n) BY <1>5, NthIs
<1> QED BY <1>6 DEF Ranked

LEMMA ListingEmpty ==
    ASSUME NEW v
    PROVE  Listing({}, v) = <<>>
BY FS_EmptySet DEF Listing

LEMMA ListingMore ==
    ASSUME NEW N \in Nat, NEW S \in SUBSET (1..N), NEW m \in Nat, N < m, NEW v
    PROVE  Listing(S \cup {m}, v) = Append(Listing(S, v), v[m])
<1> DEFINE T == S \cup {m}
           s == Listing(S, v)
           t == Listing(T, v)
<1>1. PICK c \in Nat : c = Cardinality(S) BY PlacesFinite
<1>2. Cardinality(T) = c + 1 /\ Ranked(T, c + 1) = {m}
      /\ \A n \in 1..c : Ranked(T, n) = Ranked(S, n)
  <2>1. LastRanked(S, m, S \cup {m}) BY RankedMore
  <2> QED BY <1>1, <2>1 DEF LastRanked
<1>3. Nth(T, c + 1) = m
  <2>1. (CHOOSE i \in {m} : TRUE) = m OBVIOUS
  <2> HIDE DEF T
  <2> QED BY <1>2, <2>1, NthIs
<1>4. \A n \in 1..c : Nth(T, n) = Nth(S, n)
  <2> HIDE DEF T
  <2> QED BY <1>2, NthIs
<1> HIDE DEF T
<1>5. t = [n \in 1..(c + 1) |-> v[Nth(T, n)]] /\ s = [n \in 1..c |-> v[Nth(S, n)]]
  BY <1>1, <1>2 DEF Listing
<1>6. t = [n \in 1..(c + 1) |-> IF n = c + 1 THEN v[m] ELSE s[n]]
  BY <1>3, <1>4, <1>5
<1>7. Listed(s) /\ Len(s) = c
  <2>1. s \in [1..c -> {v[Nth(S, n)] : n \in 1..c}] BY <1>5
  <2> QED BY <2>1, FunctionListed
<1> HIDE DEF s, t
<1>8. Append(s, v[m]) = [n \in 1..(c + 1) |-> IF n = c + 1 THEN v[m] ELSE s[n]]
  BY <1>7 DEF Listed
<1> QED BY <1>6, <1>8 DEF s, t, T

LEMMA ListingSame ==
    ASSUME NEW N \in Nat, NEW S \in SUBSET (1..N), NEW v, NEW w, \A i \in S : v[i] = w[i]
    PROVE  Listing(S, v) = Listing(S, w)
<1>1. \A n \in 1..Cardinality(S) : v[Nth(S, n)] = w[Nth(S, n)] BY NthIn
<1> QED BY <1>1 DEF Listing

-----------------------------------------------------------------------------
(* What the lines of a set give, when one line more is in the set. *)

KeptOf(key, all)   == IF key \in Replaced /\ all # {} THEN {Max0(all)} ELSE all
LinesOn(f, key, S) == {i \in S : f[i].key = key}
ValuesAt(f, S)     == [i \in S |-> f[i].val]

LEMMA GivenIs ==
    ASSUME NEW f, NEW key, NEW S
    PROVE  Given(f, key, S) = Listing(KeptOf(key, LinesOn(f, key, S)),
                                      ValuesAt(f, KeptOf(key, LinesOn(f, key, S))))
BY DEF Given, KeptOf, LinesOn, ValuesAt

LEMMA KeptIn ==
    ASSUME NEW N \in Nat, NEW S \in SUBSET (1..N), NEW key
    PROVE  KeptOf(key, S) \in SUBSET S
<1>1. CASE key \in Replaced /\ S # {}
  <2>1. Max0(S) \in S BY <1>1, GreatestIsIn
  <2> QED BY <1>1, <2>1 DEF KeptOf
<1> QED BY <1>1 DEF KeptOf

LEMMA GivenNothing ==
    ASSUME NEW f, NEW key
    PROVE  Given(f, key, {}) = <<>>
<1>1. LinesOn(f, key, {}) = {} BY DEF LinesOn
<1>2. KeptOf(key, {}) = {} BY DEF KeptOf
<1> QED BY <1>1, <1>2, GivenIs, ListingEmpty

LEMMA GivenSame ==
    ASSUME NEW f, NEW key, NEW S, NEW m, f[m].key # key
    PROVE  Given(f, key, S \cup {m}) = Given(f, key, S)
<1>1. LinesOn(f, key, S \cup {m}) = LinesOn(f, key, S) BY DEF LinesOn
<1> QED BY <1>1, GivenIs

LEMMA ListingOne ==
    ASSUME NEW m \in Nat, 0 < m, NEW v
    PROVE  Listing({m}, v) = <<v[m]>>
<1>1. {} \in SUBSET (1..0) /\ 0 \in Nat OBVIOUS
<1>2. Listing({} \cup {m}, v) = Append(Listing({}, v), v[m]) BY <1>1, ListingMore
<1>3. Append(<<>>, v[m]) = <<v[m]>> OBVIOUS
<1>4. {} \cup {m} = {m} OBVIOUS
<1> QED BY <1>2, <1>3, <1>4, ListingEmpty

GivenOneMore(f, key, S, T, v) ==
    Given(f, key, T) = IF key \in Replaced THEN <<v>> ELSE Append(Given(f, key, S), v)

Gives(f, m, key, v) == f[m].key = key /\ f[m].val = v

LEMMA GivenMore ==
    ASSUME NEW f, NEW key, NEW N \in Nat, NEW S \in SUBSET (1..N), NEW m \in Nat, N < m,
           NEW v, Gives(f, m, key, v)
    PROVE  GivenOneMore(f, key, S, S \cup {m}, v)
<1>0. f[m].key = key /\ f[m].val = v BY DEF Gives
<1> DEFINE all == LinesOn(f, key, S)
<1>1. LinesOn(f, key, S \cup {m}) = all \cup {m} BY <1>0 DEF LinesOn
<1>2. all \in SUBSET (1..N) BY DEF LinesOn
<1> HIDE DEF all
<1>3. CASE key \in Replaced
  <2>1. Max0(all \cup {m}) = m
    <3>1. PICK T : T = all \cup {m} OBVIOUS
    <3>2. T \in SUBSET (1..m) /\ m \in T /\ \A j \in T : j <= m BY <1>2, <3>1
    <3> QED BY <3>1, <3>2, GreatestIs
  <2>2. KeptOf(key, all \cup {m}) = {m} BY <1>3, <2>1 DEF KeptOf
  <2>3. Given(f, key, S \cup {m}) = Listing({m}, ValuesAt(f, {m})) BY <1>1, <2>2, GivenIs
  <2>4. ValuesAt(f, {m})[m] = f[m].val BY DEF ValuesAt
  <2>5. 0 < m OBVIOUS
  <2> QED BY <1>0, <1>3, <2>3, <2>4, <2>5, ListingOne DEF GivenOneMore
<1>4. CASE key \notin Replaced
  <2>1. KeptOf(key, all \cup {m}) = all \cup {m} /\ KeptOf(key, all) = all BY <1>4 DEF KeptOf
  <2>2. Given(f, key, S \cup {m}) = Listing(all \cup {m}, ValuesAt(f, all \cup {m}))
    BY <1>1, <2>1, GivenIs
  <2>3. Given(f, key, S) = Listing(all, ValuesAt(f, all)) BY <2>1, GivenIs DEF all
  <2>4. PICK w : w = ValuesAt(f, all \cup {m}) OBVIOUS
  <2>5. Listing(all \cup {m}, w) = Append(Listing(all, w), w[m]) BY <1>2, ListingMore
  <2>6. w[m] = f[m].val /\ \A i \in all : w[i] = ValuesAt(f, all)[i] BY <2>4 DEF ValuesAt
  <2>7. Listing(all, w) = Listing(all, ValuesAt(f, all)) BY <1>2, <2>6, ListingSame
  <2> QED BY <1>0, <1>4, <2>2, <2>3, <2>4, <2>5, <2>6, <2>7 DEF GivenOneMore
<1> QED BY <1>3, <1>4

(* Lines that are the same give the same. *)
LEMMA GivenEqual ==
    ASSUME NEW f, NEW g, NEW key, NEW N \in Nat, NEW S \in SUBSET (1..N), \A i \in S : f[i] = g[i]
    PROVE  Given(f, key, S) = Given(g, key, S)
<1>1. LinesOn(f, key, S) = LinesOn(g, key, S) /\ LinesOn(f, key, S) \in SUBSET S BY DEF LinesOn
<1>2. PICK T : T = KeptOf(key, LinesOn(f, key, S)) OBVIOUS
<1>3. T \in SUBSET S
  <2>1. PICK A : A = LinesOn(f, key, S) OBVIOUS
  <2>2. A \in SUBSET (1..N) /\ A \in SUBSET S BY <1>1, <2>1
  <2> QED BY <1>2, <2>1, <2>2, KeptIn
<1>4. ValuesAt(f, T) = ValuesAt(g, T) BY <1>3 DEF ValuesAt
<1> QED BY <1>1, <1>2, <1>4, GivenIs

-----------------------------------------------------------------------------
(* What the brackets of a file say of it does not change as it grows.       *)

Grows(n, f, g, l) ==
    /\ Len(f) = n /\ Len(g) = n + 1
    /\ \A i \in 1..n : g[i] = f[i]
    /\ g[n + 1] = l

LEMMA LinesGrow ==
    ASSUME NEW n \in Nat, NEW f, NEW g, NEW l, Grows(n, f, g, l), NEW key
    PROVE  /\ \A i \in 1..n : i \in LinesOf(g, key) <=> i \in LinesOf(f, key)
           /\ n + 1 \in LinesOf(g, key) <=> l.key = key
           /\ LinesOf(g, key) \in SUBSET (1..(n + 1))
           /\ LinesOf(f, key) \in SUBSET (1..n)
BY DEF Grows, LinesOf

LEMMA WithinGrows ==
    ASSUME NEW n \in Nat, NEW f, NEW g, NEW l, Grows(n, f, g, l), NEW a \in Nat, NEW i \in 1..(n + 1)
    PROVE  Within(g, a, i) <=> Within(f, a, i)
<1>1. \A j \in 1..n : j \in LinesOf(g, "close") <=> j \in LinesOf(f, "close") BY LinesGrow
<1>2. LinesOf(g, "close") \in SUBSET (1..(n + 1)) /\ LinesOf(f, "close") \in SUBSET (1..n)
  BY LinesGrow
<1>3. n \in Nat BY DEF Grows
<1> QED BY <1>1, <1>2, <1>3 DEF Within

LEMMA InsideGrows ==
    ASSUME NEW n \in Nat, NEW f, NEW g, NEW l, Grows(n, f, g, l), NEW i \in 1..(n + 1)
    PROVE  InLocation(g, i) <=> InLocation(f, i)
<1>1. \A j \in 1..n : j \in LinesOf(g, "location") <=> j \in LinesOf(f, "location")
  BY LinesGrow
<1>2. /\ LinesOf(g, "location") \in SUBSET (1..(n + 1))
      /\ LinesOf(f, "location") \in SUBSET (1..n)
  BY LinesGrow
<1>3. n \in Nat BY DEF Grows
<1>4. ASSUME NEW a \in LinesOf(g, "location"), Within(g, a, i) PROVE InLocation(f, i)
  <2>1. a \in Nat /\ a < i BY <1>2, <1>3, <1>4 DEF Within
  <2>2. a \in LinesOf(f, "location") BY <1>1, <1>2, <1>3, <2>1
  <2>3. Within(f, a, i) BY <1>4, <2>1, WithinGrows
  <2> QED BY <2>2, <2>3 DEF InLocation
<1>5. ASSUME NEW a \in LinesOf(f, "location"), Within(f, a, i) PROVE InLocation(g, i)
  <2>1. a \in Nat BY <1>2, <1>3
  <2>2. a \in LinesOf(g, "location") BY <1>1, <1>2
  <2>3. Within(g, a, i) BY <1>5, <2>1, WithinGrows
  <2> QED BY <2>2, <2>3 DEF InLocation
<1> QED BY <1>4, <1>5 DEF InLocation

(* The line after a line. *)
LEMMA NextInLocation ==
    ASSUME NEW n \in Nat, NEW f, Len(f) = n, NEW i \in 1..n
    PROVE  InLocation(f, i + 1) <=>
              f[i].key # "close" /\ (f[i].key = "location" \/ InLocation(f, i))
<1>1. ASSUME NEW a \in LinesOf(f, "location"), Within(f, a, i + 1)
      PROVE  f[i].key # "close" /\ (f[i].key = "location" \/ InLocation(f, i))
  <2>1. a \in 1..n /\ f[a].key = "location" BY DEF LinesOf
  <2>2. a < i + 1 /\ \A j \in LinesOf(f, "close") : ~(a < j /\ j < i + 1) BY <1>1 DEF Within
  <2>3. CASE a = i BY <2>1, <2>3
  <2>4. CASE a # i
    <3>1. a < i /\ i < i + 1 BY <2>1, <2>2, <2>4
    <3>2. i \notin LinesOf(f, "close") BY <2>2, <3>1
    <3>3. f[i].key # "close" BY <3>2 DEF LinesOf
    <3>4. \A j \in LinesOf(f, "close") : j \in Nat BY DEF LinesOf
    <3>5. Within(f, a, i) BY <2>2, <3>1, <3>4 DEF Within
    <3> QED BY <3>3, <3>5 DEF InLocation
  <2> QED BY <2>3, <2>4
<1>2. ASSUME f[i].key = "location" PROVE InLocation(f, i + 1)
  <2>1. i \in LinesOf(f, "location") BY <1>2 DEF LinesOf
  <2>2. \A j \in LinesOf(f, "close") : j \in Nat BY DEF LinesOf
  <2>3. Within(f, i, i + 1) BY <2>2 DEF Within
  <2> QED BY <2>1, <2>3 DEF InLocation
<1>3. ASSUME f[i].key # "close", InLocation(f, i) PROVE InLocation(f, i + 1)
  <2>1. PICK a \in LinesOf(f, "location") : Within(f, a, i) BY <1>3 DEF InLocation
  <2>2. \A j \in LinesOf(f, "close") : j \in Nat /\ j # i BY <1>3 DEF LinesOf
  <2>3. a \in Nat BY DEF LinesOf
  <2>4. Within(f, a, i + 1) BY <2>1, <2>2, <2>3 DEF Within
  <2> QED BY <2>4 DEF InLocation
<1> QED BY <1>1, <1>2, <1>3 DEF InLocation

LEMMA EndsGrow ==
    ASSUME NEW n \in Nat, NEW f, NEW g, NEW l, Grows(n, f, g, l)
    PROVE  /\ ServerEnds(f) \in SUBSET (1..n)
           /\ ServerEnds(g) = IF l.key = "close" /\ ~InLocation(f, n + 1)
                              THEN ServerEnds(f) \cup {n + 1} ELSE ServerEnds(f)
<1>1. n \in Nat BY DEF Grows
<1>2. ServerEnds(f) \in SUBSET (1..n) BY LinesGrow DEF ServerEnds
<1>3. ServerEnds(g) \in SUBSET (1..(n + 1)) BY LinesGrow DEF ServerEnds
<1>4. ASSUME NEW i \in 1..n PROVE i \in ServerEnds(g) <=> i \in ServerEnds(f)
  <2>1. i \in 1..(n + 1) BY <1>1
  <2>2. InLocation(g, i) <=> InLocation(f, i) BY <2>1, InsideGrows
  <2>3. i \in LinesOf(g, "close") <=> i \in LinesOf(f, "close") BY LinesGrow
  <2> QED BY <2>2, <2>3 DEF ServerEnds
<1>5. n + 1 \in ServerEnds(g) <=> l.key = "close" /\ ~InLocation(f, n + 1)
  <2>1. n + 1 \in 1..(n + 1) BY <1>1
  <2>2. InLocation(g, n + 1) <=> InLocation(f, n + 1) BY <2>1, InsideGrows
  <2>3. n + 1 \in LinesOf(g, "close") <=> l.key = "close" BY LinesGrow
  <2> QED BY <2>2, <2>3 DEF ServerEnds
<1> QED BY <1>1, <1>2, <1>3, <1>4, <1>5

LEMMA StartGrows ==
    ASSUME NEW n \in Nat, NEW f, NEW g, NEW l, Grows(n, f, g, l), NEW e \in 1..(n + 1)
    PROVE  EndBefore(g, e) = EndBefore(f, e) /\ ServerStart(g, e) = ServerStart(f, e)
<1>1. n \in Nat BY DEF Grows
<1>2. {d \in ServerEnds(g) : d < e} = {d \in ServerEnds(f) : d < e} BY <1>1, EndsGrow
<1>3. EndBefore(g, e) = EndBefore(f, e) BY <1>2 DEF EndBefore
<1>4. EndBefore(f, e) \in Nat
  <2>1. PICK T : T = {d \in ServerEnds(f) : d < e} OBVIOUS
  <2>2. T \in SUBSET (1..n) BY <2>1, EndsGrow
  <2>3. T # {} => Max0(T) \in T BY <1>1, <2>2, GreatestIsIn
  <2>4. Max0({}) = 0 BY DEF Max0
  <2>5. \A j \in T : j \in Nat BY <2>2
  <2>6. Max0(T) \in Nat BY <2>3, <2>4, <2>5
  <2> QED BY <2>1, <2>6 DEF EndBefore
<1>5. \A i \in (EndBefore(f, e) + 1)..(e - 1) : g[i] = f[i]
  BY <1>1, <1>4 DEF Grows
<1>6. {i \in (EndBefore(g, e) + 1)..(e - 1) : g[i].open} =
      {i \in (EndBefore(f, e) + 1)..(e - 1) : f[i].open}
  BY <1>3, <1>5
<1> QED BY <1>3, <1>6 DEF ServerStart

(* Nothing is added to a location whose end is in the file. *)
LEMMA LocationGrows ==
    ASSUME NEW n \in Nat, NEW f, NEW g, NEW l, Grows(n, f, g, l), NEW a \in 1..n,
           NEW e \in LinesOf(f, "close"), a < e
    PROVE  LocationOf(g, a) = LocationOf(f, a)
<1>1. n \in Nat /\ a \in Nat BY DEF Grows
<1>2. PICK S : S = {i \in 1..n : Within(f, a, i)} OBVIOUS
<1>3. {i \in 1..Len(g) : Within(g, a, i)} = S
  <2>1. ~Within(g, a, n + 1)
    <3>1. e \in 1..n BY LinesGrow
    <3>2. e \in LinesOf(g, "close") BY <3>1, LinesGrow
    <3>3. a < e /\ e < n + 1 BY <1>1, <3>1
    <3> QED BY <3>2, <3>3 DEF Within
  <2>2. Len(g) = n + 1 BY DEF Grows
  <2>3. \A i \in 1..n : Within(g, a, i) <=> Within(f, a, i)
    <3>1. \A i \in 1..n : i \in 1..(n + 1) BY <1>1
    <3> QED BY <1>1, <3>1, WithinGrows
  <2> QED BY <1>1, <1>2, <2>1, <2>2, <2>3
<1>4. S \in SUBSET (1..n) /\ \A i \in S : g[i] = f[i] BY <1>2 DEF Grows
<1>5. \A k \in LocationKeys : Given(g, k, S) = Given(f, k, S)
  <2> SUFFICES ASSUME NEW k \in LocationKeys PROVE Given(g, k, S) = Given(f, k, S)
    OBVIOUS
  <2> HIDE <1>2
  <2> QED BY <1>4, GivenEqual
<1>6. g[a].val = f[a].val BY DEF Grows
<1>7. Len(f) = n BY DEF Grows
<1> QED BY <1>2, <1>3, <1>5, <1>6, <1>7 DEF LocationOf

(* The lines of S outside locations, and the locations that begin in S. *)
Outside(f, S)       == {i \in S : ~InLocation(f, i)}
LocsIn(f, S)        == S \cap LinesOf(f, "location")
LocationsAt(f, L)   == [l \in L |-> LocationOf(f, l)]
GivenAll(f, keys, S) == [k \in keys |-> Given(f, k, S)]

LEMMA PartIs ==
    ASSUME NEW f, NEW S
    PROVE  PartOf(f, S) =
              [values |-> GivenAll(f, ServerKeys, Outside(f, S)),
               locs |-> Listing(LocsIn(f, S), LocationsAt(f, LocsIn(f, S)))]
BY DEF PartOf, Outside, LocsIn, LocationsAt, GivenAll

(* A server whose end is in the file stays what it is. *)
LEMMA PartGrows ==
    ASSUME NEW n \in Nat, NEW f, NEW g, NEW l, Grows(n, f, g, l),
           NEW e \in LinesOf(f, "close"), NEW S \in SUBSET (1..(e - 1))
    PROVE  PartOf(g, S) = PartOf(f, S)
<1>1. e \in 1..n BY LinesGrow
<1>2. \A i \in S : i \in 1..n /\ i \in 1..(n + 1) /\ i < e BY <1>1
<1>3. Outside(g, S) = Outside(f, S) BY <1>2, InsideGrows DEF Outside
<1>4. LocsIn(g, S) = LocsIn(f, S) BY <1>2, LinesGrow DEF LocsIn
<1>5. PICK L : L = LocsIn(f, S) OBVIOUS
<1>6. L \in SUBSET S BY <1>5 DEF LocsIn
<1>7. LocationsAt(g, L) = LocationsAt(f, L)
  <2>1. ASSUME NEW a \in L PROVE LocationOf(g, a) = LocationOf(f, a)
    <3>1. a \in 1..n /\ a < e BY <1>2, <1>6
    <3> QED BY <3>1, LocationGrows
  <2> QED BY <2>1 DEF LocationsAt
<1>8. PICK T : T = Outside(f, S) OBVIOUS
<1>9. \A k \in ServerKeys : Given(g, k, T) = Given(f, k, T)
  <2>1. T \in SUBSET (1..n) BY <1>2, <1>8 DEF Outside
  <2>2. \A i \in T : g[i] = f[i] BY <2>1 DEF Grows
  <2> SUFFICES ASSUME NEW k \in ServerKeys PROVE Given(g, k, T) = Given(f, k, T)
    OBVIOUS
  <2> QED BY <2>1, <2>2, GivenEqual
<1>10. GivenAll(g, ServerKeys, T) = GivenAll(f, ServerKeys, T) BY <1>9 DEF GivenAll
<1> QED BY <1>3, <1>4, <1>5, <1>7, <1>8, <1>10, PartIs

LEMMA MeaningGrows ==
    ASSUME NEW n \in Nat, NEW f, NEW g, NEW l, Grows(n, f, g, l), NEW e \in ServerEnds(f)
    PROVE  MeaningOf(g, e) = MeaningOf(f, e)
<1>1. e \in 1..n /\ e \in LinesOf(f, "close") BY LinesGrow DEF ServerEnds
<1>2. ServerStart(g, e) = ServerStart(f, e)
  <2>1. e \in 1..(n + 1) BY <1>1
  <2> QED BY <2>1, StartGrows
<1>3. PICK S : S = {i \in 1..(e - 1) : i > ServerStart(f, e)} OBVIOUS
<1>4. S \in SUBSET (1..(e - 1)) BY <1>3
<1>5. PartOf(g, S) = PartOf(f, S) BY <1>1, <1>4, PartGrows
<1> QED BY <1>2, <1>3, <1>5 DEF MeaningOf

(* No directive of a server has the text "location" in its value. *)
Plain(f) == \A i \in 1..Len(f) : f[i].mentions => f[i].key = "location" \/ InLocation(f, i)

(* No location begins in another. *)
Separate(f) == \A i \in LinesOf(f, "location") : ~InLocation(f, i)

LEMMA PlainGrows ==
    ASSUME NEW n \in Nat, NEW f, NEW g, NEW l, Grows(n, f, g, l)
    PROVE  /\ Plain(g) => Plain(f)
           /\ Separate(g) <=> Separate(f) /\ (l.key = "location" => ~InLocation(f, n + 1))
<1>1. \A i \in 1..(n + 1) : InLocation(g, i) <=> InLocation(f, i) BY InsideGrows
<1>2. Len(f) = n /\ Len(g) = n + 1 /\ \A i \in 1..n : g[i] = f[i] BY DEF Grows
<1>3. ASSUME Plain(g), NEW i \in 1..Len(f), f[i].mentions
      PROVE  f[i].key = "location" \/ InLocation(f, i)
  <2>1. i \in 1..n /\ i \in 1..(n + 1) BY <1>2
  <2>2. g[i] = f[i] /\ i \in 1..Len(g) BY <1>2, <2>1
  <2>3. g[i].key = "location" \/ InLocation(g, i) BY <1>3, <2>2 DEF Plain
  <2> QED BY <1>1, <2>1, <2>2, <2>3
<1>4. n + 1 \in 1..(n + 1) /\ \A i \in 1..n : i \in 1..(n + 1) OBVIOUS
<1>5. Separate(g) <=> Separate(f) /\ (l.key = "location" => ~InLocation(f, n + 1))
  <2>1. /\ \A i \in 1..n : i \in LinesOf(g, "location") <=> i \in LinesOf(f, "location")
        /\ n + 1 \in LinesOf(g, "location") <=> l.key = "location"
        /\ LinesOf(g, "location") \in SUBSET (1..(n + 1))
        /\ LinesOf(f, "location") \in SUBSET (1..n)
    BY LinesGrow
  <2>2. \A i \in 1..(n + 1) : i = n + 1 \/ i \in 1..n OBVIOUS
  <2> QED BY <1>1, <1>4, <2>1, <2>2 DEF Separate
<1> QED BY <1>3, <1>5 DEF Plain

-----------------------------------------------------------------------------
(* One more line of a server, or of a location. *)

AllOneMore(f, keys, key, S, T, v) ==
    GivenAll(f, keys, T) = Take(GivenAll(f, keys, S), key, v)

LEMMA TakeIs ==
    ASSUME NEW f, NEW keys, NEW key, NEW N \in Nat, NEW S, NEW m, S \in SUBSET (1..N),
           m \in Nat, N < m, key \in keys, NEW v, Gives(f, m, key, v)
    PROVE  AllOneMore(f, keys, key, S, S \cup {m}, v)
<1>1. PICK have : have = GivenAll(f, keys, S) OBVIOUS
<1>2. PICK new : new = IF key \in Replaced THEN <<v>> ELSE Append(have[key], v)
  OBVIOUS
<1>3. have = [k \in keys |-> Given(f, k, S)] BY <1>1 DEF GivenAll
<1>4. Take(have, key, v) = [k \in keys |-> IF k = key THEN new ELSE have[k]]
  BY <1>2, <1>3 DEF Take
<1>5. Given(f, key, S \cup {m}) = new
  <2>1. have[key] = Given(f, key, S) BY <1>3
  <2>2. GivenOneMore(f, key, S, S \cup {m}, v) BY GivenMore
  <2> QED BY <1>2, <2>1, <2>2 DEF GivenOneMore
<1>6. ASSUME NEW k \in keys, k # key PROVE Given(f, k, S \cup {m}) = have[k]
  <2>1. Given(f, k, S \cup {m}) = Given(f, k, S) BY <1>6, GivenSame DEF Gives
  <2> QED BY <1>3, <2>1
<1>7. GivenAll(f, keys, S \cup {m}) = [k \in keys |-> IF k = key THEN new ELSE have[k]]
  BY <1>5, <1>6 DEF GivenAll
<1> QED BY <1>1, <1>4, <1>7 DEF AllOneMore

LEMMA TakeNone ==
    ASSUME NEW f, NEW keys, NEW S, NEW m, f[m].key \notin keys
    PROVE  GivenAll(f, keys, S \cup {m}) = GivenAll(f, keys, S)
BY GivenSame DEF GivenAll

LEMMA PartNothing ==
    ASSUME NEW f
    PROVE  PartOf(f, {}) = NoConf
<1>1. Outside(f, {}) = {} /\ LocsIn(f, {}) = {} BY DEF Outside, LocsIn
<1>2. Listing({}, LocationsAt(f, {})) = <<>> BY ListingEmpty
<1>3. GivenAll(f, ServerKeys, {}) = None(ServerKeys) BY GivenNothing DEF GivenAll, None
<1> QED BY <1>1, <1>2, <1>3, PartIs DEF NoConf

LEMMA PartServer ==
    ASSUME NEW f, NEW N \in Nat, NEW S \in SUBSET (1..N), NEW m \in Nat, N < m,
           ~InLocation(f, m), f[m].key \in ServerKeys
    PROVE  PartOf(f, S \cup {m}) =
              [PartOf(f, S) EXCEPT !.values = Take(@, f[m].key, f[m].val)]
<1>1. PICK T : T = Outside(f, S) OBVIOUS
<1>2. T \in SUBSET (1..N) BY <1>1 DEF Outside
<1>3. Outside(f, S \cup {m}) = T \cup {m} BY <1>1 DEF Outside
<1>4. f[m].key # "location" BY DEF ServerKeys
<1>5. LocsIn(f, S \cup {m}) = LocsIn(f, S) BY <1>4 DEF LocsIn, LinesOf
<1>6. GivenAll(f, ServerKeys, T \cup {m}) =
      Take(GivenAll(f, ServerKeys, T), f[m].key, f[m].val)
  <2>1. PICK key \in ServerKeys : f[m].key = key OBVIOUS
  <2>2. PICK v : f[m].val = v OBVIOUS
  <2>3. Gives(f, m, key, v) BY <2>1, <2>2 DEF Gives
  <2>4. AllOneMore(f, ServerKeys, key, T, T \cup {m}, v) BY <1>2, <2>3, TakeIs
  <2> QED BY <2>1, <2>2, <2>4 DEF AllOneMore
<1> QED BY <1>1, <1>3, <1>5, <1>6, PartIs

PartOneMore(f, S, T, m) ==
    PartOf(f, T) = [PartOf(f, S) EXCEPT !.locs = Append(@, LocationOf(f, m))]

(* A location is over: the server has it, after the others. *)
LEMMA PartLocation ==
    ASSUME NEW f, NEW N \in Nat, NEW S \in SUBSET (1..N), NEW m \in Nat, N < m,
           m \in LinesOf(f, "location"), ~InLocation(f, m),
           NEW R, \A i \in R : InLocation(f, i) /\ i \notin LinesOf(f, "location")
    PROVE  PartOneMore(f, S, S \cup {m} \cup R, m)
<1>1. PICK T : T = Outside(f, S) OBVIOUS
<1>2. PICK L : L = LocsIn(f, S) OBVIOUS
<1>3. Outside(f, S \cup {m} \cup R) = T \cup {m} BY <1>1 DEF Outside
<1>4. LocsIn(f, S \cup {m} \cup R) = L \cup {m} BY <1>2 DEF LocsIn
<1>5. GivenAll(f, ServerKeys, T \cup {m}) = GivenAll(f, ServerKeys, T)
  <2>1. f[m].key \notin ServerKeys
    <3>1. f[m].key = "location" BY DEF LinesOf
    <3> QED BY <3>1 DEF ServerKeys
  <2> QED BY <2>1, TakeNone
<1>6. L \in SUBSET (1..N) BY <1>2 DEF LocsIn
<1>7. PICK w : w = LocationsAt(f, L \cup {m}) OBVIOUS
<1>8. Listing(L \cup {m}, w) = Append(Listing(L, w), w[m]) BY <1>6, ListingMore
<1>9. w[m] = LocationOf(f, m) /\ \A i \in L : w[i] = LocationsAt(f, L)[i]
  BY <1>7 DEF LocationsAt
<1>10. Listing(L, w) = Listing(L, LocationsAt(f, L)) BY <1>6, <1>9, ListingSame
<1>11. PartOf(f, S \cup {m} \cup R) =
        [values |-> GivenAll(f, ServerKeys, T),
         locs |-> Append(Listing(L, LocationsAt(f, L)), LocationOf(f, m))]
  BY <1>3, <1>4, <1>5, <1>7, <1>8, <1>9, <1>10, PartIs
<1> QED BY <1>1, <1>2, <1>11, PartIs DEF PartOneMore

-----------------------------------------------------------------------------
(* What the second pass has done, in terms of the brackets: which lines are  *)
(* not read yet, and the part of the server that the others give.            *)

(* s has the lines of f after the first p. *)
RestOf(n, f, s, p) == p \in 0..n /\ Len(s) = n - p /\ \A i \in 1..(n - p) : s[i] = f[p + i]

LastEnd(f)          == Max0(ServerEnds(f))
Began(f, a, b)      == \E i \in a..b : f[i].open
Understood(S, f, E) == S = {MeaningOf(f, e) : e \in E}

(* The first pass: u are the lines since the last server, open and inside    *)
(* what it takes the next line to be in.                                     *)
Scanned(n, f, u, open, inside) ==
    /\ inside <=> InLocation(f, n + 1)
    /\ RestOf(n, f, u, LastEnd(f))
    /\ open => Began(f, LastEnd(f) + 1, n)
    /\ \A i \in (LastEnd(f) + 1)..n : f[i].key = "location" => Began(f, LastEnd(f) + 1, i - 1)

(* The second pass: c is the server being filled, m its location, t the      *)
(* lines not read again yet.                                                 *)
Started(n, f, t, s, p) ==
    /\ s = ServerStart(f, n) /\ s \in (EndBefore(f, n) + 1)..(n - 1)
    /\ p \in s..(n - 1) /\ RestOf(n, f, t, p)

OnServer(f, c, s, p) == ~InLocation(f, p + 1) /\ c = PartOf(f, (s + 1)..p)

OnLocation(f, c, m, s, p, a) ==
    /\ a \in (s + 1)..p /\ f[a].key = "location" /\ Within(f, a, p + 1)
    /\ c = PartOf(f, (s + 1)..(a - 1))
    /\ m = [path |-> f[a].val, values |-> GivenAll(f, LocationKeys, (a + 1)..p)]

Filled(n, f, stage, t, c, m) ==
    /\ n \in ServerEnds(f)
    /\ \/ stage = "fill" /\ t = <<>> /\ c = NoConf
       \/ \E s, p \in 0..n :
             /\ Started(n, f, t, s, p)
             /\ \/ stage = "fill" /\ OnServer(f, c, s, p)
                \/ stage = "location" /\ \E a \in 0..n : OnLocation(f, c, m, s, p, a)

Attributed ==
    Plain(file) =>
        /\ at \in {"scan", "loops", "duplicates", "listen", "serve"} =>
              Understood(Servers, file, ServerEnds(file))
        /\ at \in {"fill", "location"} =>
              /\ Understood(Servers, file, ServerEnds(file) \ {Len(file)})
              /\ Filled(Len(file), file, at, todo, conf, loc)
        /\ at = "scan" => Scanned(Len(file), file, stream, openServer, openLocation)
        /\ at \notin {"refused", "crashed"} => Separate(file)

LEMMA RestNext ==
    ASSUME NEW n \in Nat, NEW f, NEW s, LinesFine(s), s # <<>>, NEW p, RestOf(n, f, s, p)
    PROVE  p \in Nat /\ p + 1 \in 1..n /\ Head(s) = f[p + 1] /\ RestOf(n, f, Tail(s), p + 1)
<1>1. PICK S : s \in Seq(S) BY DEF LinesFine, Listed
<1>2. p \in 0..n /\ Len(s) = n - p /\ \A i \in 1..(n - p) : s[i] = f[p + i] BY DEF RestOf
<1>3. n - p \in Nat /\ n - p # 0 BY <1>1, <1>2
<1>4. p + 1 \in 1..n BY <1>2, <1>3
<1>5. Head(s) = s[1] BY HeadFine
<1>6. Head(s) = f[p + 1]
  <2>1. 1 \in 1..(n - p) BY <1>3
  <2> QED BY <1>2, <1>5, <2>1
<1>7. Len(Tail(s)) = n - (p + 1) /\ \A i \in 1..(n - (p + 1)) : Tail(s)[i] = s[i + 1]
  BY <1>1, <1>2, <1>3
<1>8. \A i \in 1..(n - (p + 1)) : Tail(s)[i] = f[(p + 1) + i]
  <2> SUFFICES ASSUME NEW i \in 1..(n - (p + 1)) PROVE Tail(s)[i] = f[(p + 1) + i]
    OBVIOUS
  <2>1. i + 1 \in 1..(n - p) /\ p + (i + 1) = (p + 1) + i BY <1>2
  <2>2. s[i + 1] = f[p + (i + 1)] BY <1>2, <2>1
  <2> QED BY <1>7, <2>1, <2>2
<1>9. p + 1 \in 0..n /\ p \in Nat BY <1>2, <1>4
<1> QED BY <1>4, <1>6, <1>7, <1>8, <1>9 DEF RestOf

LEMMA RestGrows ==
    ASSUME NEW n \in Nat, NEW f, NEW g, NEW l, Grows(n, f, g, l),
           NEW s, Listed(s), NEW p, RestOf(n, f, s, p)
    PROVE  RestOf(n + 1, g, Append(s, l), p)
<1>1. p \in 0..n /\ Len(s) = n - p /\ \A i \in 1..(n - p) : s[i] = f[p + i] BY DEF RestOf
<1>2. PICK t : t = Append(s, l) OBVIOUS
<1>3. Len(t) = (n - p) + 1 /\ t[(n - p) + 1] = l /\ \A i \in 1..(n - p) : t[i] = s[i]
  BY <1>1, <1>2, AppendElements
<1>4. ASSUME NEW i \in 1..((n + 1) - p) PROVE t[i] = g[p + i]
  <2>1. CASE i = (n - p) + 1
    <3>1. p + i = n + 1 BY <1>1, <2>1
    <3> QED BY <1>3, <2>1, <3>1 DEF Grows
  <2>2. CASE i # (n - p) + 1
    <3>1. i \in 1..(n - p) /\ p + i \in 1..n BY <1>1, <2>2
    <3> QED BY <1>1, <1>3, <3>1 DEF Grows
  <2> QED BY <2>1, <2>2
<1>5. p \in 0..(n + 1) /\ Len(t) = (n + 1) - p BY <1>1, <1>3
<1> QED BY <1>2, <1>4, <1>5 DEF RestOf

(* The lines after the one that opens the server. *)
LEMMA RestOpens ==
    ASSUME NEW n \in Nat, NEW f, NEW s, LinesFine(s), NEW d, RestOf(n, f, s, d), Opening(s) # {},
           NEW b, b = Min1({i \in (d + 1)..n : f[i].open})
    PROVE  /\ b \in (d + 1)..n /\ f[b].open
           /\ \A i \in (d + 1)..(b - 1) : ~f[i].open
           /\ RestOf(n, f, After(s, Opening(s)), b)
<1>1. d \in 0..n /\ Len(s) = n - d /\ \A i \in 1..(n - d) : s[i] = f[d + i] BY DEF RestOf
<1>2. PICK H : H = Opening(s) OBVIOUS
<1>3. PICK m : m = CHOOSE i \in H : \A j \in H : i <= j OBVIOUS
<1>4. H = {i \in 1..(n - d) : s[i].open} BY <1>1, <1>2 DEF Opening
<1>5. m \in H /\ \A j \in H : m <= j
  <2>1. H \in SUBSET Nat BY <1>1, <1>4
  <2> QED BY <1>2, <1>3, <2>1, LeastIsIn
<1>6. m \in 1..(n - d) /\ s[m].open BY <1>4, <1>5
<1>7. PICK a : a = d + m OBVIOUS
<1>8. a \in (d + 1)..n /\ f[a].open /\ a \in Nat BY <1>1, <1>6, <1>7
<1>9. ASSUME NEW i \in (d + 1)..n, f[i].open PROVE a <= i
  <2>1. PICK j : j = i - d OBVIOUS
  <2>2. j \in 1..(n - d) /\ d + j = i BY <1>1, <2>1
  <2>3. j \in H BY <1>1, <1>4, <1>9, <2>2
  <2>4. m <= j BY <1>5, <2>3
  <2> QED BY <1>1, <1>6, <1>7, <2>2, <2>4
<1>10. Min1({i \in (d + 1)..n : f[i].open}) = a
  <2>1. PICK O : O = {i \in (d + 1)..n : f[i].open} OBVIOUS
  <2>2. a \in O /\ \A j \in O : a <= j BY <1>8, <1>9, <2>1
  <2>3. O \in SUBSET Nat BY <1>1, <2>1
  <2>4. Min1(O) \in O /\ \A j \in O : Min1(O) <= j BY <2>2, <2>3, LeastIsIn DEF Min1
  <2>5. Min1(O) <= a /\ a <= Min1(O) /\ Min1(O) \in Nat BY <2>2, <2>3, <2>4
  <2> QED BY <1>8, <2>1, <2>5
<1>11. \A i \in (d + 1)..(a - 1) : ~f[i].open
  <2> SUFFICES ASSUME NEW i \in (d + 1)..(a - 1), f[i].open PROVE FALSE
    OBVIOUS
  <2>1. i \in (d + 1)..n /\ i < a BY <1>1, <1>8
  <2> QED BY <1>8, <1>9, <2>1
<1>12. RestOf(n, f, After(s, H), a)
  <2>1. After(s, H) = SubSeq(s, m + 1, n - d) BY <1>1, <1>3, <1>5 DEF After
  <2>2. PICK S : s \in Seq(S) BY DEF LinesFine, Listed
  <2>3. PICK t : t = SubSeq(s, m + 1, n - d) OBVIOUS
  <2>4. PICK c \in Nat : c = n - d BY <1>1
  <2>5. m \in 1..c /\ Len(s) = c BY <1>1, <1>6, <2>4
  <2>6. Len(t) = c - m /\ \A i \in 1..(c - m) : t[i] = s[m + i] BY <2>2, <2>3, <2>4, <2>5
  <2>7. c - m = n - a BY <1>1, <1>6, <1>7, <2>4
  <2>8. \A i \in 1..(n - a) : t[i] = f[a + i]
    <3> SUFFICES ASSUME NEW i \in 1..(n - a) PROVE t[i] = f[a + i]
      OBVIOUS
    <3>1. m + i \in 1..(n - d) /\ d + (m + i) = a + i BY <1>1, <1>6, <1>7, <1>8
    <3>2. s[m + i] = f[d + (m + i)] BY <1>1, <3>1
    <3> QED BY <2>6, <2>7, <3>1, <3>2
  <2>9. a \in 0..n BY <1>1, <1>8
  <2> QED BY <2>1, <2>3, <2>6, <2>7, <2>8, <2>9 DEF RestOf
<1> QED BY <1>2, <1>8, <1>10, <1>11, <1>12

(* A server's "}", in the first pass: the second begins. *)
LEMMA ServerCloses ==
    ASSUME NEW n \in Nat, NEW f, NEW g, NEW l, Grows(n, f, g, l), NEW u, LinesFine(u), LineOK(l),
           NEW open, NEW inside, Scanned(n, f, u, open, inside), ~inside, l.key = "close",
           NEW t, t = After(Append(u, l), Opening(Append(u, l))), NEW m
    PROVE  /\ ServerEnds(g) \ {n + 1} = ServerEnds(f)
           /\ Filled(n + 1, g, "fill", t, NoConf, m)
<1>1. PICK d : d = LastEnd(f) OBVIOUS
<1>2. /\ ~InLocation(f, n + 1) /\ RestOf(n, f, u, d)
      /\ \A i \in (d + 1)..n : f[i].key = "location" => Began(f, d + 1, i - 1)
  BY <1>1 DEF Scanned
<1>3. /\ Len(g) = n + 1 /\ g[n + 1] = l /\ \A i \in 1..n : g[i] = f[i]
  BY DEF Grows
<1>4. ServerEnds(f) \in SUBSET (1..n) /\ ServerEnds(g) = ServerEnds(f) \cup {n + 1}
  BY <1>2, EndsGrow
<1>5. PICK x : x = Append(u, l) OBVIOUS
<1>6. LinesFine(x) /\ RestOf(n + 1, g, x, d)
  BY <1>2, <1>5, AppendFine, RestGrows DEF LinesFine
<1>7. d \in 0..n BY <1>2 DEF RestOf
<1>8. n + 1 \in ServerEnds(g) /\ ServerEnds(g) \ {n + 1} = ServerEnds(f) BY <1>4
<1>9. CASE Opening(x) = {}
  <2>1. t = <<>> BY <1>5, <1>9 DEF After
  <2> QED BY <1>8, <2>1 DEF Filled
<1>10. CASE Opening(x) # {}
  <2>1. PICK a : a = Min1({i \in (d + 1)..(n + 1) : g[i].open}) OBVIOUS
  <2>2. /\ a \in (d + 1)..(n + 1) /\ g[a].open
        /\ \A i \in (d + 1)..(a - 1) : ~g[i].open
        /\ RestOf(n + 1, g, t, a)
    <3>1. PICK k \in Nat : k = n + 1 OBVIOUS
    <3>2. /\ a \in (d + 1)..k /\ g[a].open
          /\ \A i \in (d + 1)..(a - 1) : ~g[i].open
          /\ RestOf(k, g, After(x, Opening(x)), a)
      BY <1>6, <1>10, <2>1, <3>1, RestOpens
    <3> QED BY <1>5, <3>1, <3>2
  <2>3. ~g[n + 1].open BY <1>3 DEF LineOK
  <2>4. a \in (d + 1)..n /\ a \in 1..(n + 1) BY <1>7, <2>2, <2>3
  <2>5. EndBefore(g, n + 1) = d
    <3>1. {e \in ServerEnds(g) : e < n + 1} = ServerEnds(f) BY <1>4
    <3> QED BY <1>1, <3>1 DEF EndBefore, LastEnd
  <2>6. ServerStart(g, n + 1) = a
    <3>1. {i \in (d + 1)..((n + 1) - 1) : g[i].open} = {i \in (d + 1)..(n + 1) : g[i].open}
      BY <1>7, <2>3
    <3> QED BY <2>1, <2>5, <3>1 DEF ServerStart
  <2>7. ASSUME NEW b \in (d + 1)..a PROVE f[b].key # "location"
    <3> SUFFICES ASSUME f[b].key = "location" PROVE FALSE
      OBVIOUS
    <3>1. b \in (d + 1)..n BY <1>7, <2>4
    <3>2. Began(f, d + 1, b - 1) BY <1>2, <3>1
    <3>3. PICK i \in (d + 1)..(b - 1) : f[i].open BY <3>2 DEF Began
    <3>4. i \in (d + 1)..(a - 1) /\ i \in 1..n BY <1>7, <2>4, <3>1
    <3> QED BY <1>3, <2>2, <3>3, <3>4
  <2>8. ~InLocation(f, a)
    <3> SUFFICES ASSUME NEW b \in LinesOf(f, "location"), Within(f, b, a) PROVE FALSE
      BY DEF InLocation
    <3>1. b \in 1..n /\ f[b].key = "location" BY LinesGrow DEF LinesOf
    <3>2. b < a /\ \A j \in LinesOf(f, "close") : ~(b < j /\ j < a) BY DEF Within
    <3>3. ~(b \in (d + 1)..a) BY <2>7, <3>1
    <3>4. b <= d BY <1>7, <2>4, <3>1, <3>2, <3>3
    <3>5. d \in LinesOf(f, "close")
      <4>1. ServerEnds(f) # {}
        <5>1. Max0({}) = 0 BY DEF Max0
        <5> QED BY <1>1, <3>1, <3>4, <5>1 DEF LastEnd
      <4>2. d \in ServerEnds(f) BY <1>1, <1>4, <4>1, GreatestIsIn DEF LastEnd
      <4> QED BY <4>2 DEF ServerEnds
    <3>6. b # d BY <3>1, <3>5 DEF LinesOf
    <3>7. b < d /\ d < a BY <1>7, <2>4, <3>1, <3>4, <3>6
    <3> QED BY <3>2, <3>5, <3>7
  <2>9. ~InLocation(g, a + 1)
    <3>1. ~InLocation(g, a) BY <2>4, <2>8, InsideGrows
    <3>2. g[a].key # "location"
      <4>1. a \in (d + 1)..a /\ a \in 1..n BY <1>7, <2>4
      <4> QED BY <1>3, <2>7, <4>1
    <3>3. PICK k \in Nat : k = n + 1 OBVIOUS
    <3>4. a \in 1..k /\ Len(g) = k BY <1>3, <2>4, <3>3
    <3> QED BY <3>1, <3>2, <3>4, NextInLocation
  <2>10. NoConf = PartOf(g, (a + 1)..a)
    <3>1. (a + 1)..a = {} BY <1>7, <2>4
    <3> QED BY <3>1, PartNothing
  <2>11. Started(n + 1, g, t, a, a)
    <3>1. a \in (d + 1)..((n + 1) - 1) /\ a \in a..((n + 1) - 1) BY <1>7, <2>4
    <3> QED BY <2>2, <2>5, <2>6, <3>1 DEF Started
  <2>12. a \in 0..(n + 1) BY <2>4
  <2> QED BY <1>8, <2>9, <2>10, <2>11, <2>12 DEF Filled, OnServer
<1> QED BY <1>8, <1>9, <1>10

(* Any other line, in the first pass. *)
LEMMA ScanGrows ==
    ASSUME NEW n \in Nat, NEW f, NEW g, NEW l, Grows(n, f, g, l), NEW u, LinesFine(u),
           NEW open, NEW inside, Scanned(n, f, u, open, inside),
           l.key = "close" => inside, l.key = "location" => open,
           NEW open2, NEW inside2, open2 => open \/ l.open,
           inside2 <=> l.key # "close" /\ (l.key = "location" \/ inside)
    PROVE  /\ ServerEnds(g) = ServerEnds(f)
           /\ Scanned(n + 1, g, Append(u, l), open2, inside2)
<1>1. PICK d : d = LastEnd(f) OBVIOUS
<1>2. /\ inside <=> InLocation(f, n + 1)
      /\ RestOf(n, f, u, d) /\ (open => Began(f, d + 1, n))
      /\ \A i \in (d + 1)..n : f[i].key = "location" => Began(f, d + 1, i - 1)
  BY <1>1 DEF Scanned
<1>3. /\ Len(g) = n + 1 /\ g[n + 1] = l /\ \A i \in 1..n : g[i] = f[i]
  BY DEF Grows
<1>4. ServerEnds(g) = ServerEnds(f) BY <1>2, EndsGrow
<1>5. LastEnd(g) = d BY <1>1, <1>4 DEF LastEnd
<1>6. d \in 0..n BY <1>2 DEF RestOf
<1>7. inside2 <=> InLocation(g, (n + 1) + 1)
  <2>1. PICK k \in Nat : k = n + 1 OBVIOUS
  <2>2. k \in 1..k /\ k \in 1..(n + 1) /\ Len(g) = k BY <1>3, <2>1
  <2>3. InLocation(g, k + 1) <=> l.key # "close" /\ (l.key = "location" \/ InLocation(g, k))
    BY <1>3, <2>1, <2>2, NextInLocation
  <2>4. InLocation(g, k) <=> InLocation(f, k) BY <2>2, InsideGrows
  <2> QED BY <1>2, <2>1, <2>3, <2>4
<1>8. RestOf(n + 1, g, Append(u, l), d) BY <1>2, RestGrows DEF LinesFine
<1>9. ASSUME NEW b \in 0..n, Began(f, d + 1, b)
      PROVE  Began(g, d + 1, b) /\ Began(g, d + 1, n + 1)
  <2>1. PICK i \in (d + 1)..b : f[i].open BY <1>9 DEF Began
  <2>2. i \in 1..n /\ i \in (d + 1)..(n + 1) BY <1>6, <2>1
  <2> QED BY <1>3, <2>1, <2>2 DEF Began
<1>10. open2 => Began(g, d + 1, n + 1)
  <2>1. ASSUME open PROVE Began(g, d + 1, n + 1)
    <3>1. n \in 0..n OBVIOUS
    <3> QED BY <1>2, <1>9, <2>1, <3>1
  <2>2. ASSUME l.open PROVE Began(g, d + 1, n + 1)
    <3>1. n + 1 \in (d + 1)..(n + 1) BY <1>6
    <3> QED BY <1>3, <2>2, <3>1 DEF Began
  <2> QED BY <2>1, <2>2
<1>11. ASSUME NEW i \in (d + 1)..(n + 1), g[i].key = "location"
       PROVE  Began(g, d + 1, i - 1)
  <2>1. CASE i = n + 1
    <3>1. n \in 0..n /\ i - 1 = n BY <2>1
    <3> QED BY <1>2, <1>3, <1>9, <1>11, <2>1, <3>1
  <2>2. CASE i # n + 1
    <3>1. i \in (d + 1)..n /\ i \in 1..n /\ i - 1 \in 0..n BY <1>6, <2>2
    <3> QED BY <1>2, <1>3, <1>9, <1>11, <3>1
  <2> QED BY <2>1, <2>2
<1> QED BY <1>4, <1>5, <1>7, <1>8, <1>10, <1>11 DEF Scanned

(* The second pass goes on by one line. *)
LEMMA FillNext ==
    ASSUME NEW n \in Nat, NEW f, Len(f) = n, n \in ServerEnds(f), NEW t, LinesFine(t), t # <<>>,
           NEW s, NEW p, Started(n, f, t, s, p),
           Head(t).key # "close" \/ InLocation(f, p + 1)
    PROVE  /\ s \in 1..n /\ p \in s..(n - 1) /\ p + 1 \in s..(n - 1) /\ p + 1 \in 1..n
           /\ Head(t) = f[p + 1] /\ Started(n, f, Tail(t), s, p + 1)
<1>1. /\ s = ServerStart(f, n) /\ s \in (EndBefore(f, n) + 1)..(n - 1)
      /\ p \in s..(n - 1) /\ RestOf(n, f, t, p)
  BY DEF Started
<1>2. p \in Nat /\ p + 1 \in 1..n /\ Head(t) = f[p + 1] /\ RestOf(n, f, Tail(t), p + 1)
  BY <1>1, RestNext
<1>3. EndBefore(f, n) \in Nat
  <2>1. PICK T : T = {d \in ServerEnds(f) : d < n} OBVIOUS
  <2>2. T \in SUBSET (1..n) BY <2>1 DEF ServerEnds, LinesOf
  <2>3. T # {} => Max0(T) \in T BY <2>2, GreatestIsIn
  <2>4. Max0({}) = 0 BY DEF Max0
  <2>5. \A j \in T : j \in Nat BY <2>2
  <2>6. Max0(T) \in Nat BY <2>3, <2>4, <2>5
  <2> QED BY <2>1, <2>6 DEF EndBefore
<1>4. p + 1 # n
  <2> SUFFICES ASSUME p + 1 = n PROVE FALSE
    OBVIOUS
  <2>1. f[n].key = "close" /\ ~InLocation(f, n) BY DEF ServerEnds, LinesOf
  <2> QED BY <1>2, <2>1
<1>5. s \in 1..n /\ p + 1 \in s..(n - 1) BY <1>1, <1>2, <1>3, <1>4
<1> QED BY <1>1, <1>2, <1>5 DEF Started

LEMMA FillStartsLocation ==
    ASSUME NEW n \in Nat, NEW f, Len(f) = n, NEW t, LinesFine(t), t # <<>>, NEW c, NEW m,
           Filled(n, f, "fill", t, c, m), Head(t).key = "location", NEW m2,
           m2 = [path |-> Head(t).val, values |-> None(LocationKeys)]
    PROVE  Filled(n, f, "location", Tail(t), c, m2)
<1>1. n \in ServerEnds(f) BY DEF Filled
<1>2. PICK s, p \in 0..n : Started(n, f, t, s, p) /\ OnServer(f, c, s, p) BY DEF Filled
<1>3. /\ s \in 1..n /\ p \in s..(n - 1) /\ p + 1 \in s..(n - 1) /\ p + 1 \in 1..n
      /\ Head(t) = f[p + 1] /\ Started(n, f, Tail(t), s, p + 1)
  BY <1>1, <1>2, FillNext
<1>4. PICK a : a = p + 1 OBVIOUS
<1>5. a \in (s + 1)..a /\ a \in 0..n /\ f[a].key = "location" /\ a - 1 = p BY <1>3, <1>4
<1>6. Within(f, a, a + 1)
  <2>1. \A j \in LinesOf(f, "close") : j \in Nat BY DEF LinesOf
  <2> QED BY <1>5, <2>1 DEF Within
<1>7. GivenAll(f, LocationKeys, (a + 1)..a) = None(LocationKeys)
  <2>1. (a + 1)..a = {} BY <1>3, <1>4
  <2> QED BY <2>1, GivenNothing DEF GivenAll, None
<1>8. OnLocation(f, c, m2, s, a, a)
  <2>1. c = PartOf(f, (s + 1)..(a - 1)) BY <1>2, <1>5 DEF OnServer
  <2>2. m2 = [path |-> f[a].val, values |-> GivenAll(f, LocationKeys, (a + 1)..a)]
    BY <1>3, <1>4, <1>7
  <2> QED BY <1>5, <1>6, <2>1, <2>2 DEF OnLocation
<1>9. s \in 0..n /\ a \in 0..n BY <1>3, <1>5
<1>10. Started(n, f, Tail(t), s, a) BY <1>3, <1>4
<1> QED BY <1>1, <1>8, <1>9, <1>10 DEF Filled

HasTaken(c, l, d) == d = [c EXCEPT !.values = Take(@, l.key, l.val)]

LEMMA FillServer ==
    ASSUME NEW n \in Nat, NEW f, Len(f) = n, NEW t, LinesFine(t), t # <<>>, NEW c, NEW m,
           Filled(n, f, "fill", t, c, m), NEW l, l = Head(t), l.key \in ServerKeys, NEW c2,
           HasTaken(c, l, c2)
    PROVE  Filled(n, f, "fill", Tail(t), c2, m)
<1>1. n \in ServerEnds(f) BY DEF Filled
<1>2. PICK s, p \in 0..n : Started(n, f, t, s, p) /\ OnServer(f, c, s, p) BY DEF Filled
<1>3. l.key # "close" /\ l.key # "location" BY DEF ServerKeys
<1>4. /\ s \in 1..n /\ p \in s..(n - 1) /\ p + 1 \in s..(n - 1) /\ p + 1 \in 1..n
      /\ l = f[p + 1] /\ Started(n, f, Tail(t), s, p + 1)
  BY <1>1, <1>2, <1>3, FillNext
<1>5. PICK a : a = p + 1 OBVIOUS
<1>6. ~InLocation(f, a) /\ c = PartOf(f, (s + 1)..p) BY <1>2, <1>5 DEF OnServer
<1>7. a \in Nat /\ p \in Nat /\ p < a /\ a \in 1..n BY <1>4, <1>5
<1>8. ~InLocation(f, a + 1) BY <1>3, <1>4, <1>5, <1>6, <1>7, NextInLocation
<1>9. c2 = PartOf(f, (s + 1)..a)
  <2>1. PICK S : S = (s + 1)..p OBVIOUS
  <2>2. S \in SUBSET (1..p) /\ (s + 1)..a = S \cup {a} BY <1>4, <1>5, <2>1
  <2>3. f[a].key \in ServerKeys BY <1>4, <1>5
  <2>4. PartOf(f, S \cup {a}) = [PartOf(f, S) EXCEPT !.values = Take(@, f[a].key, f[a].val)]
    BY <1>6, <1>7, <2>2, <2>3, PartServer
  <2> QED BY <1>4, <1>5, <1>6, <2>1, <2>2, <2>4 DEF HasTaken
<1>10. Started(n, f, Tail(t), s, a) /\ s \in 0..n /\ a \in 0..n BY <1>4, <1>5
<1> QED BY <1>1, <1>8, <1>9, <1>10 DEF Filled, OnServer

LEMMA FillLocation ==
    ASSUME NEW n \in Nat, NEW f, Len(f) = n, NEW t, LinesFine(t), t # <<>>, NEW c, NEW m,
           Filled(n, f, "location", t, c, m), NEW l, l = Head(t), l.key # "close", NEW m2,
           \/ l.key \in LocationKeys /\ m2 = [m EXCEPT !.values = Take(@, l.key, l.val)]
           \/ l.key \notin LocationKeys /\ m2 = m
    PROVE  Filled(n, f, "location", Tail(t), c, m2)
<1>1. n \in ServerEnds(f) BY DEF Filled
<1>2. PICK s, p \in 0..n : Started(n, f, t, s, p) /\ \E a \in 0..n : OnLocation(f, c, m, s, p, a)
  BY DEF Filled
<1>3. PICK a \in 0..n : OnLocation(f, c, m, s, p, a) BY <1>2
<1>4. /\ s \in 1..n /\ p \in s..(n - 1) /\ p + 1 \in s..(n - 1) /\ p + 1 \in 1..n
      /\ l = f[p + 1] /\ Started(n, f, Tail(t), s, p + 1)
  BY <1>1, <1>2, FillNext
<1>5. PICK q : q = p + 1 OBVIOUS
<1>6. /\ a \in (s + 1)..p /\ f[a].key = "location" /\ Within(f, a, q)
      /\ c = PartOf(f, (s + 1)..(a - 1))
      /\ m = [path |-> f[a].val, values |-> GivenAll(f, LocationKeys, (a + 1)..p)]
  BY <1>3, <1>5 DEF OnLocation
<1>7. q \in Nat /\ p \in Nat /\ p < q /\ q \in 0..n /\ a \in Nat /\ s \in 0..n /\ l = f[q]
      /\ a \in (s + 1)..q
  BY <1>4, <1>5, <1>6
<1>8. Within(f, a, q + 1)
  <2>1. \A j \in LinesOf(f, "close") : j \in Nat /\ j # q BY <1>7 DEF LinesOf
  <2> QED BY <1>6, <1>7, <2>1 DEF Within
<1>9. m2 = [path |-> f[a].val, values |-> GivenAll(f, LocationKeys, (a + 1)..q)]
  <2>1. PICK S : S = (a + 1)..p OBVIOUS
  <2>2. S \in SUBSET (1..p) /\ (a + 1)..q = S \cup {q} BY <1>5, <1>6, <1>7, <2>1
  <2>3. CASE l.key \in LocationKeys
    <3>1. PICK k, v : k = l.key /\ v = l.val OBVIOUS
    <3>2. Gives(f, q, k, v) BY <1>7, <3>1 DEF Gives
    <3>3. AllOneMore(f, LocationKeys, k, S, S \cup {q}, v) BY <1>7, <2>2, <2>3, <3>1, <3>2, TakeIs
    <3>4. GivenAll(f, LocationKeys, S \cup {q}) = Take(GivenAll(f, LocationKeys, S), k, v)
      BY <3>3 DEF AllOneMore
    <3> QED BY <1>6, <2>1, <2>2, <2>3, <3>1, <3>4
  <2>4. CASE l.key \notin LocationKeys
    <3>1. GivenAll(f, LocationKeys, S \cup {q}) = GivenAll(f, LocationKeys, S)
      BY <1>7, <2>4, TakeNone
    <3> QED BY <1>6, <2>1, <2>2, <2>4, <3>1
  <2> QED BY <2>3, <2>4
<1>10. OnLocation(f, c, m2, s, q, a) BY <1>6, <1>7, <1>8, <1>9 DEF OnLocation
<1>11. Started(n, f, Tail(t), s, q) BY <1>4, <1>5
<1> QED BY <1>1, <1>7, <1>10, <1>11 DEF Filled

LEMMA FillEndsLocation ==
    ASSUME NEW n \in Nat, NEW f, Len(f) = n, NEW t, LinesFine(t), t # <<>>, NEW c, NEW m,
           Filled(n, f, "location", t, c, m), Separate(f), Head(t).key = "close", NEW c2,
           c2 = [c EXCEPT !.locs = Append(@, m)]
    PROVE  Filled(n, f, "fill", Tail(t), c2, m)
<1>1. n \in ServerEnds(f) BY DEF Filled
<1>2. PICK s, p \in 0..n : Started(n, f, t, s, p) /\ \E a \in 0..n : OnLocation(f, c, m, s, p, a)
  BY DEF Filled
<1>3. PICK a \in 0..n : OnLocation(f, c, m, s, p, a) BY <1>2
<1>4. PICK q : q = p + 1 OBVIOUS
<1>5. /\ a \in (s + 1)..p /\ f[a].key = "location" /\ Within(f, a, q)
      /\ c = PartOf(f, (s + 1)..(a - 1))
      /\ m = [path |-> f[a].val, values |-> GivenAll(f, LocationKeys, (a + 1)..p)]
  BY <1>3, <1>4 DEF OnLocation
<1>6. p \in 0..n /\ p + 1 \in 1..n /\ Head(t) = f[p + 1]
  <2>1. RestOf(n, f, t, p) BY <1>2 DEF Started
  <2> QED BY <2>1, RestNext
<1>7. a \in 1..n /\ a \in LinesOf(f, "location")
  <2>1. a # 0
    <3>1. s \in 0..n BY <1>2
    <3> QED BY <1>5, <3>1
  <2>2. a \in 1..n BY <2>1
  <2> QED BY <1>5, <2>2 DEF LinesOf
<1>8. InLocation(f, q) BY <1>5, <1>7 DEF InLocation
<1>9. /\ s \in 1..n /\ p \in s..(n - 1) /\ q \in s..(n - 1) /\ q \in 1..n
      /\ f[q].key = "close" /\ Started(n, f, Tail(t), s, q)
  BY <1>1, <1>2, <1>4, <1>8, FillNext
<1>10. ~InLocation(f, q + 1) BY <1>9, NextInLocation
<1>11. c2 = PartOf(f, (s + 1)..q)
  <2>1. PICK S : S = (s + 1)..(a - 1) OBVIOUS
  <2>2. PICK R : R = (a + 1)..q OBVIOUS
  <2>3. PICK b \in Nat : b = a - 1 BY <1>7
  <2>4. S \in SUBSET (1..b) /\ b < a /\ a \in Nat /\ (s + 1)..q = S \cup {a} \cup R
    BY <1>4, <1>5, <1>7, <1>9, <2>1, <2>2, <2>3
  <2>5. ASSUME NEW i \in R PROVE Within(f, a, i) /\ i \in 1..n
    <3>1. i \in Nat /\ a < i /\ i <= q BY <1>7, <1>9, <2>2
    <3>2. \A j \in LinesOf(f, "close") : j \in Nat BY DEF LinesOf
    <3>3. \A j \in LinesOf(f, "close") : ~(a < j /\ j < q) BY <1>5 DEF Within
    <3>4. q \in Nat /\ i \in 1..n BY <1>7, <1>9, <3>1
    <3> QED BY <1>7, <3>1, <3>2, <3>3, <3>4 DEF Within
  <2>6. \A i \in R : InLocation(f, i) BY <1>7, <2>5 DEF InLocation
  <2>7. \A i \in R : i \notin LinesOf(f, "location") BY <2>6 DEF Separate
  <2>8. ~InLocation(f, a) BY <1>7 DEF Separate
  <2>9. PartOneMore(f, S, S \cup {a} \cup R, a)
    BY <1>7, <2>3, <2>4, <2>6, <2>7, <2>8, PartLocation
  <2>10. LocationOf(f, a) = m
    <3>1. {i \in 1..Len(f) : Within(f, a, i)} = R
      <4>1. ASSUME NEW i \in 1..n, Within(f, a, i) PROVE i \in R
        <5>1. q \in LinesOf(f, "close") BY <1>9 DEF LinesOf
        <5>2. a < i /\ ~(a < q /\ q < i) BY <4>1, <5>1 DEF Within
        <5>3. a < q BY <1>5 DEF Within
        <5> QED BY <1>7, <1>9, <2>2, <5>2, <5>3
      <4> QED BY <2>5, <4>1
    <3>2. PICK T : T = (a + 1)..p OBVIOUS
    <3>3. R = T \cup {q} BY <1>4, <1>5, <1>7, <1>9, <2>2, <3>2
    <3>4. f[q].key \notin LocationKeys BY <1>9 DEF LocationKeys
    <3>5. GivenAll(f, LocationKeys, R) = GivenAll(f, LocationKeys, T)
      <4>1. GivenAll(f, LocationKeys, T \cup {q}) = GivenAll(f, LocationKeys, T) BY <3>4, TakeNone
      <4> QED BY <3>3, <4>1
    <3> QED BY <1>5, <3>1, <3>2, <3>5 DEF LocationOf, GivenAll
  <2> QED BY <1>5, <2>1, <2>4, <2>9, <2>10 DEF PartOneMore
<1>12. s \in 0..n /\ q \in 0..n BY <1>9
<1> QED BY <1>1, <1>9, <1>10, <1>11, <1>12 DEF Filled, OnServer

(* The server is complete: it is what its brackets say. *)
LEMMA FillEnds ==
    ASSUME NEW n \in Nat, NEW f, Len(f) = n, NEW t, LinesFine(t), NEW c, NEW m,
           Filled(n, f, "fill", t, c, m), c # NoConf, t # <<>> => Head(t).key = "close"
    PROVE  c = MeaningOf(f, n) /\ n \in ServerEnds(f)
<1>1. n \in ServerEnds(f) BY DEF Filled
<1>2. PICK s, p \in 0..n : Started(n, f, t, s, p) /\ OnServer(f, c, s, p) BY DEF Filled
<1>3. /\ s = ServerStart(f, n) /\ s \in (EndBefore(f, n) + 1)..(n - 1)
      /\ p \in s..(n - 1) /\ RestOf(n, f, t, p)
  BY <1>2 DEF Started
<1>4. ~InLocation(f, p + 1) /\ c = PartOf(f, (s + 1)..p) BY <1>2 DEF OnServer
<1>5. s \in Nat /\ p \in Nat /\ p < n /\ s <= p BY <1>2, <1>3
<1>6. t # <<>>
  <2>1. Len(t) = n - p BY <1>3 DEF RestOf
  <2>2. Len(t) # 0 BY <1>5, <2>1
  <2> QED BY <2>2
<1>7. p + 1 \in 1..n /\ Head(t) = f[p + 1] BY <1>3, <1>6, RestNext
<1>8. p + 1 \in ServerEnds(f) BY <1>4, <1>6, <1>7 DEF ServerEnds, LinesOf
<1>9. p + 1 = n
  <2> SUFFICES ASSUME p + 1 # n PROVE FALSE
    OBVIOUS
  <2>1. PICK T : T = {d \in ServerEnds(f) : d < n} OBVIOUS
  <2>2. T \in SUBSET (1..n) BY <2>1 DEF ServerEnds, LinesOf
  <2>3. p + 1 \in T BY <1>5, <1>7, <1>8, <2>1
  <2>4. Max0(T) \in T /\ \A j \in T : j <= Max0(T) BY <2>2, <2>3, GreatestIsIn
  <2>5. EndBefore(f, n) = Max0(T) BY <2>1 DEF EndBefore
  <2>6. Max0(T) \in Nat
    <3>1. \A j \in T : j \in Nat BY <2>2
    <3> QED BY <2>4, <3>1
  <2>7. EndBefore(f, n) \in Nat /\ p + 1 <= EndBefore(f, n) BY <2>3, <2>4, <2>5, <2>6
  <2> QED BY <1>3, <1>5, <2>7
<1>10. {i \in 1..(n - 1) : i > ServerStart(f, n)} = (s + 1)..p BY <1>3, <1>5, <1>9
<1> QED BY <1>1, <1>4, <1>10 DEF MeaningOf

-----------------------------------------------------------------------------
(* The steps. *)

Outcomes == {"loops", "duplicates", "listen", "serve"}

LEMMA FileGrows ==
    ASSUME Parts, ReadLine
    PROVE  LET n == Len(file) l == Head(rest)
           IN n \in Nat /\ LineOK(l) /\ Grows(n, file, file', l) /\ Len(file') = n + 1
<1>1. LinesFine(file) /\ LinesFine(rest) BY DEF Parts
<1>2. LineOK(Head(rest)) BY <1>1, HeadFine DEF ReadLine
<1>3. file' = Append(file, Head(rest)) BY DEF ReadLine
<1>4. Listed(file) BY <1>1 DEF LinesFine
<1> QED BY <1>2, <1>3, <1>4, AppendElements DEF Grows

LEMMA UnderstoodGrows ==
    ASSUME NEW n \in Nat, NEW f, NEW g, NEW l, Grows(n, f, g, l), NEW S,
           Understood(S, f, ServerEnds(f))
    PROVE  Understood(S, g, ServerEnds(f))
<1>1. \A e \in ServerEnds(f) : MeaningOf(g, e) = MeaningOf(f, e) BY MeaningGrows
<1> QED BY <1>1 DEF Understood

LEMMA AttributedRead ==
    ASSUME IInv, Parts, Attributed, ReadLine
    PROVE  Attributed'
<1> DEFINE l == Head(rest)
<1>1. PICK n, f, g : n = Len(file) /\ f = file /\ g = file' OBVIOUS
<1>2. n \in Nat /\ LineOK(l) /\ Grows(n, f, g, l) /\ Len(g) = n + 1 BY <1>1, FileGrows
<1>3. SUFFICES ASSUME Plain(g)
               PROVE  /\ at' = "scan" =>
                            /\ Understood(Servers, g, ServerEnds(g)) /\ Separate(g)
                            /\ Scanned(n + 1, g, stream', openServer', openLocation')
                      /\ at' = "fill" =>
                            /\ Understood(Servers, g, ServerEnds(g) \ {n + 1}) /\ Separate(g)
                            /\ Filled(n + 1, g, "fill", todo', conf', loc')
  <2>1. at' \in {"scan", "fill", "refused"} BY DEF ReadLine, CloseServer
  <2>2. Servers' = Servers BY DEF ReadLine, Servers
  <2> HIDE DEF l
  <2> QED BY <1>1, <1>2, <2>1, <2>2 DEF Attributed
<1>4. at = "scan" /\ LinesFine(stream) BY DEF ReadLine, Parts
<1>5. Plain(f) BY <1>2, <1>3, PlainGrows
<1>6. /\ Understood(Servers, f, ServerEnds(f)) /\ Separate(f)
      /\ Scanned(n, f, stream, openServer, openLocation)
  BY <1>1, <1>4, <1>5 DEF Attributed
<1>7. Understood(Servers, g, ServerEnds(f)) BY <1>2, <1>6, UnderstoodGrows
<1>8. openLocation <=> InLocation(f, n + 1) BY <1>6 DEF Scanned
<1>9. CASE l.key = "close" /\ ~openLocation
  <2>1. CloseServer(Append(stream, l)) BY <1>9 DEF ReadLine
  <2>2. /\ at' \in {"fill", "refused"} /\ conf' = NoConf
        /\ todo' = After(Append(stream, l), Opening(Append(stream, l)))
    BY <2>1 DEF CloseServer
  <2>3. ~openLocation BY <1>9
  <2>4. Separate(g)
    <3>1. l.key # "location" BY <1>9
    <3> HIDE DEF l
    <3> QED BY <1>2, <1>6, <3>1, PlainGrows
  <2>5. l.key = "close" BY <1>9
  <2> HIDE DEF l
  <2>6. /\ ServerEnds(g) \ {n + 1} = ServerEnds(f)
        /\ Filled(n + 1, g, "fill", todo', NoConf, loc')
    BY <1>2, <1>4, <1>6, <2>2, <2>3, <2>5, ServerCloses
  <2> QED BY <1>7, <2>2, <2>4, <2>6
<1>10. CASE l.key = "close" => openLocation
  <2>1. stream' = Append(stream, l) /\ at' \in {"scan", "refused"}
    BY <1>4, <1>10 DEF ReadLine
  <2>2. SUFFICES ASSUME at' = "scan"
                 PROVE  /\ Understood(Servers, g, ServerEnds(g)) /\ Separate(g)
                        /\ Scanned(n + 1, g, stream', openServer', openLocation')
    BY <2>1
  <2>3. /\ l.key = "location" => openServer /\ ~openLocation
        /\ openServer' => openServer \/ l.open
        /\ openLocation' <=> l.key # "close" /\ (l.key = "location" \/ openLocation)
    <3>1. CASE l.key = "server"
      <4>1. l.open BY <1>2, <3>1 DEF LineOK
      <4>2. UNCHANGED openLocation BY <3>1 DEF ReadLine
      <4> QED BY <3>1, <4>1, <4>2
    <3>2. CASE l.key = "location"
      <4>1. /\ at' = IF ~l.open \/ ~openServer \/ openLocation THEN "refused" ELSE at
            /\ openLocation' = TRUE /\ UNCHANGED openServer
        BY <3>2 DEF ReadLine
      <4> QED BY <2>2, <3>2, <4>1
    <3>3. CASE l.key = "close"
      <4>1. openLocation' = FALSE /\ UNCHANGED openServer BY <1>10, <3>3 DEF ReadLine
      <4> QED BY <3>3, <4>1
    <3>4. CASE l.key \notin {"server", "location", "close"}
      <4>1. UNCHANGED <<openServer, openLocation>> BY <3>4 DEF ReadLine
      <4> QED BY <3>4, <4>1
    <3> QED BY <3>1, <3>2, <3>3, <3>4
  <2>4. l.key = "close" => openLocation BY <1>10
  <2> HIDE DEF l
  <2>5. /\ ServerEnds(g) = ServerEnds(f)
        /\ Scanned(n + 1, g, stream', openServer', openLocation')
    BY <1>2, <1>4, <1>6, <2>1, <2>3, <2>4, ScanGrows
  <2>6. Separate(g)
    <3>1. l.key = "location" => ~InLocation(f, n + 1) BY <1>8, <2>3
    <3> QED BY <1>2, <1>6, <3>1, PlainGrows
  <2> QED BY <1>7, <2>5, <2>6
<1> QED BY <1>9, <1>10

LEMMA AttributedFilling ==
    ASSUME IInv, Parts, Attributed,
           StartLocation \/ LocationDirective \/ EndLocation \/ ServerDirective
    PROVE  Attributed'
<1>1. PICK n, f : n = Len(file) /\ f = file OBVIOUS
<1>2. UNCHANGED <<file, cluster>> /\ at \in {"fill", "location"}
  BY DEF StartLocation, LocationDirective, EndLocation, ServerDirective, Filling, Refuse, Stop,
         scanning, result
<1>3. LinesFine(file) /\ LinesFine(todo) BY DEF Parts
<1>4. n \in Nat /\ Len(f) = n BY <1>1, <1>3, ListedLength DEF LinesFine
<1>5. SUFFICES ASSUME Plain(f), at' \notin {"refused", "crashed"}
               PROVE  at' \in {"fill", "location"} /\ Filled(n, f, at', todo', conf', loc')
  <2>1. Servers' = Servers BY <1>2 DEF Servers
  <2>2. file' = f BY <1>1, <1>2
  <2> QED BY <1>1, <1>2, <2>1, <2>2 DEF Attributed
<1>6. Filled(n, f, at, todo, conf, loc) /\ Separate(f) BY <1>1, <1>2, <1>5 DEF Attributed
<1>7. CASE StartLocation
  <2>1. /\ at = "fill" /\ todo # <<>> /\ Head(todo).key = "location" /\ at' = "location"
        /\ loc' = [path |-> Head(todo).val, values |-> None(LocationKeys)]
        /\ todo' = Tail(todo) /\ conf' = conf
    BY <1>7 DEF StartLocation, Filling
  <2>2. Filled(n, f, "fill", todo, conf, loc) BY <1>6, <2>1
  <2>3. Filled(n, f, "location", todo', conf', loc')
    BY <1>3, <1>4, <2>1, <2>2, FillStartsLocation
  <2> QED BY <2>1, <2>3
<1>8. CASE LocationDirective
  <2>1. PICK l : l = Head(todo) OBVIOUS
  <2>2. /\ at = "location" /\ at' = "location" /\ todo # <<>> /\ l.key # "close"
        /\ todo' = Tail(todo) /\ conf' = conf
    BY <1>5, <1>8, <2>1 DEF LocationDirective, Refuse, Stop, Closes
  <2>3. \/ l.key \in LocationKeys /\ loc' = [loc EXCEPT !.values = Take(@, l.key, l.val)]
        \/ l.key \notin LocationKeys /\ loc' = loc
    <3>1. "#" \notin LocationKeys BY DEF LocationKeys
    <3> QED BY <1>5, <1>8, <2>1, <3>1 DEF LocationDirective, Refuse, Stop
  <2>4. Filled(n, f, "location", todo, conf, loc) BY <1>6, <2>2
  <2>5. Filled(n, f, "location", todo', conf', loc')
    BY <1>3, <1>4, <2>1, <2>2, <2>3, <2>4, FillLocation
  <2> QED BY <2>2, <2>5
<1>9. CASE EndLocation
  <2>1. /\ at = "location" /\ at' = "fill" /\ todo # <<>> /\ Head(todo).key = "close"
        /\ todo' = Tail(todo) /\ loc' = loc /\ conf' = [conf EXCEPT !.locs = Append(@, loc)]
    BY <1>5, <1>9 DEF EndLocation, Refuse, Stop, Closes
  <2>2. Filled(n, f, "location", todo, conf, loc) BY <1>6, <2>1
  <2>3. Filled(n, f, "fill", todo', conf', loc')
    BY <1>3, <1>4, <1>6, <2>1, <2>2, FillEndsLocation
  <2> QED BY <2>1, <2>3
<1>10. CASE ServerDirective
  <2>1. PICK l : l = Head(todo) OBVIOUS
  <2>2. /\ at = "fill" /\ todo # <<>> /\ l.key # "location"
        /\ LET v == IF SwallowsRest(l) THEN Glued ELSE l.val
           IN /\ l.key \in ServerKeys
              /\ conf' = [conf EXCEPT !.values = Take(@, l.key, v)]
              /\ todo' = IF SwallowsRest(l) THEN After(Tail(todo), Closing(Tail(todo)))
                         ELSE Tail(todo)
              /\ UNCHANGED <<at, loc>>
    BY <1>5, <1>10, <2>1 DEF ServerDirective, Filling, Refuse, Stop
  <2>3. ~l.mentions
    <3>1. PICK s, p \in 0..n : Started(n, f, todo, s, p) /\ OnServer(f, conf, s, p)
      BY <1>6, <2>2 DEF Filled
    <3>2. RestOf(n, f, todo, p) /\ ~InLocation(f, p + 1) BY <3>1 DEF Started, OnServer
    <3>3. p + 1 \in 1..n /\ l = f[p + 1] BY <1>3, <1>4, <2>1, <2>2, <3>2, RestNext
    <3> QED BY <1>4, <1>5, <2>2, <3>2, <3>3 DEF Plain
  <2>4. /\ l.key \in ServerKeys /\ conf' = [conf EXCEPT !.values = Take(@, l.key, l.val)]
        /\ todo' = Tail(todo) /\ at' = "fill" /\ loc' = loc
    BY <2>2, <2>3 DEF SwallowsRest
  <2>5. Filled(n, f, "fill", todo, conf, loc) BY <1>6, <2>2
  <2>6. Filled(n, f, "fill", todo', conf', loc')
    <3>1. HasTaken(conf, l, conf') BY <2>4 DEF HasTaken
    <3>2. Filled(n, f, "fill", Tail(todo), conf', loc)
      BY <1>3, <1>4, <2>1, <2>2, <2>4, <2>5, <3>1, FillServer
    <3> QED BY <2>4, <3>2
  <2> QED BY <2>4, <2>6
<1> QED BY <1>7, <1>8, <1>9, <1>10

(* The map has one server more. *)
LEMMA AddsServer ==
    ASSUME IInv, CreateConfigStruct, at' = "scan"
    PROVE  Servers' = Servers \cup {conf}
<1>1. /\ at = "fill" /\ Complete(conf)
      /\ \A k \in DOMAIN cluster : ~Collides(conf, cluster[k])
      /\ cluster' = [k \in DOMAIN cluster \cup {Key(conf)} |->
                        IF k \in DOMAIN cluster THEN cluster[k] ELSE conf]
  BY DEF CreateConfigStruct, Refuse, Stop
<1>2. WellFormed(conf) BY <1>1 DEF IInv, FillingOK
<1>3. ASSUME NEW k \in DOMAIN cluster PROVE Key(conf) # k
  <2>1. WellFormed(cluster[k]) /\ Complete(cluster[k]) /\ k = Key(cluster[k])
    BY DEF IInv, ClusterOK
  <2> QED BY <1>1, <1>2, <2>1, ApartFromCollision
<1>4. DOMAIN cluster' = DOMAIN cluster \cup {Key(conf)} BY <1>1
<1>5. cluster'[Key(conf)] = conf /\ \A k \in DOMAIN cluster : cluster'[k] = cluster[k]
  BY <1>1, <1>3
<1> QED BY <1>4, <1>5 DEF Servers

LEMMA AttributedCreate ==
    ASSUME IInv, Parts, Attributed, CreateConfigStruct
    PROVE  Attributed'
<1>1. PICK n, f : n = Len(file) /\ f = file OBVIOUS
<1>2. at = "fill" /\ at' \in {"scan", "refused"}
      /\ UNCHANGED <<file, stream, openServer, openLocation>>
      /\ (todo # <<>> => Head(todo).key = "close")
  BY DEF CreateConfigStruct, Refuse, Stop, result, scanning, Closes
<1>3. LinesFine(file) /\ LinesFine(todo) BY DEF Parts
<1>4. n \in Nat /\ Len(f) = n BY <1>1, <1>3, ListedLength DEF LinesFine
<1>5. SUFFICES ASSUME Plain(f), at' = "scan"
               PROVE  /\ Understood(Servers', f, ServerEnds(f))
                      /\ Scanned(n, f, stream, openServer, openLocation)
                      /\ Separate(f)
  <2>1. file' = f BY <1>1, <1>2
  <2> QED BY <1>1, <1>2, <2>1 DEF Attributed
<1>6. /\ Filled(n, f, "fill", todo, conf, loc) /\ Separate(f)
      /\ Understood(Servers, f, ServerEnds(f) \ {n})
  BY <1>1, <1>2, <1>5 DEF Attributed
<1>7. conf # NoConf
  <2>1. Complete(conf) BY <1>2, <1>5 DEF CreateConfigStruct, Refuse, Stop
  <2> QED BY <2>1 DEF Complete, NoConf
<1>8. conf = MeaningOf(f, n) /\ n \in ServerEnds(f)
  BY <1>2, <1>3, <1>4, <1>6, <1>7, FillEnds
<1>9. Understood(Servers', f, ServerEnds(f))
  <2>1. Servers' = Servers \cup {conf} BY <1>5, AddsServer
  <2> QED BY <1>6, <1>8, <2>1 DEF Understood
<1>10. Scanned(n, f, stream, openServer, openLocation)
  <2>1. stream = <<>> /\ ~openServer /\ ~openLocation BY <1>2 DEF Parts, Stages
  <2>2. ServerEnds(f) \in SUBSET (1..n) /\ f[n].key = "close" /\ n \in 1..n
    BY <1>4, <1>8 DEF ServerEnds, LinesOf
  <2>3. LastEnd(f) = n
    <3>1. \A j \in ServerEnds(f) : j <= n BY <1>4, <2>2
    <3> QED BY <1>4, <1>8, <2>2, <3>1, GreatestIs DEF LastEnd
  <2>4. ~InLocation(f, n + 1) BY <1>4, <2>2, NextInLocation
  <2>5. RestOf(n, f, <<>>, n)
    <3>1. n \in 0..n /\ n - n = 0 /\ Len(<<>>) = 0 BY <1>4
    <3>2. 1..(n - n) = {} BY <3>1
    <3> QED BY <3>1, <3>2 DEF RestOf
  <2>6. (n + 1)..n = {} BY <1>4
  <2> QED BY <2>1, <2>3, <2>4, <2>5, <2>6 DEF Scanned
<1> QED BY <1>6, <1>9, <1>10

(* The steps that read no line and fill no server. *)
LEMMA AttributedRest ==
    ASSUME Attributed,
           \/ UNCHANGED vars \/ FileGoesOn \/ EndOfFile \/ CheckRedirectionLoops
           \/ CheckDuplicateListenAddresses \/ GetServerFd
    PROVE  Attributed'
<1>1. CASE UNCHANGED vars
  BY <1>1 DEF vars, Attributed, Servers
<1>2. CASE FileGoesOn \/ EndOfFile \/ CheckRedirectionLoops
           \/ CheckDuplicateListenAddresses \/ GetServerFd
  <2>1. /\ UNCHANGED <<file, cluster, stream, openServer, openLocation>>
        /\ at \in {"scan"} \cup Outcomes /\ at' \in {"scan", "looped", "refused"} \cup Outcomes
        /\ at' = "scan" => at = "scan"
    BY <1>2 DEF FileGoesOn, EndOfFile, CheckRedirectionLoops, CheckDuplicateListenAddresses,
                GetServerFd, Refuse, Stop, scanning, result, Outcomes
  <2>2. Servers' = Servers BY <2>1 DEF Servers
  <2> QED BY <2>1, <2>2 DEF Attributed, Outcomes
<1> QED BY <1>1, <1>2

LEMMA AttributedInit == Init => Attributed
<1> SUFFICES ASSUME Init PROVE Attributed
  OBVIOUS
<1>1. /\ file = <<>> /\ at = "scan" /\ stream = <<>> /\ ~openServer /\ ~openLocation
      /\ cluster = <<>>
  BY DEF Init
<1>2. Len(file) = 0 /\ \A key : LinesOf(file, key) = {}
  <2>1. Len(file) = 0 /\ 1..0 = {} BY <1>1
  <2> QED BY <2>1 DEF LinesOf
<1>3. ServerEnds(file) = {} /\ LastEnd(file) = 0
  <2>1. ServerEnds(file) = {} BY <1>2 DEF ServerEnds
  <2> QED BY <2>1 DEF LastEnd, Max0
<1>4. Servers = {} BY <1>1 DEF Servers
<1>5. ~InLocation(file, 0 + 1) /\ Separate(file) BY <1>2 DEF InLocation, Separate
<1>6. RestOf(0, file, stream, 0)
  <2>1. Len(stream) = 0 /\ 0 \in 0..0 /\ 0 - 0 = 0 /\ 1..0 = {} BY <1>1
  <2> QED BY <2>1 DEF RestOf
<1>7. (0 + 1)..0 = {} OBVIOUS
<1>8. Scanned(0, file, stream, openServer, openLocation)
  BY <1>1, <1>3, <1>5, <1>6, <1>7 DEF Scanned
<1>9. Understood(Servers, file, ServerEnds(file)) BY <1>3, <1>4 DEF Understood
<1> QED BY <1>1, <1>2, <1>5, <1>8, <1>9 DEF Attributed

(* Both passes agree on which block a directive is in, whatever the file     *)
(* (Config.cpp:183-219, singleserver.cpp:130-191).                           *)
THEOREM BothPassesAgree == Spec => []DirectivesAttributed
<1>1. Attributed => DirectivesAttributed
  BY DEF Attributed, DirectivesAttributed, Plain, Accepted, Understood
<1>2. Init => IInv /\ Parts /\ Attributed BY Initially, TypedInit, AttributedInit
<1>3. IInv /\ Parts /\ Attributed /\ [Next]_vars => (IInv /\ Parts /\ Attributed)'
  <2> SUFFICES ASSUME IInv, Parts, Attributed, [Next]_vars
               PROVE  (IInv /\ Parts /\ Attributed)'
    OBVIOUS
  <2>1. IInv' /\ Parts' BY Inductive, TypedNext
  <2>2. Attributed'
    BY AttributedRead, AttributedFilling, AttributedCreate, AttributedRest DEF Next
  <2> QED BY <2>1, <2>2
<1> QED BY <1>1, <1>2, <1>3, PTL DEF Spec
=============================================================================
