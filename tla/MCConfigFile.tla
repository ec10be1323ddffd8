---------------------------- MODULE MCConfigFile ----------------------------
(* Files put together from the openings of three servers, locations with and  *)
(* without redirections, single directives and lone brackets.                 *)
EXTENDS ConfigFile, TLC

Ln(key, val)  == [key |-> key, val |-> val, open |-> FALSE, mentions |-> FALSE]
Head1         == [key |-> "server", val |-> "", open |-> TRUE, mentions |-> FALSE]
Loc(path)     == [key |-> "location", val |-> path, open |-> TRUE, mentions |-> TRUE]
Close         == Ln("close", "")

A  == <<"a">>
B  == <<"b">>
AB == <<"a", "b">>
MCNames  == {"", "a", "b"}
MCBegins == {}

Server(host, ports) ==
    <<Head1, Ln("server_name", "n"), Ln("host", host)>>
    \o [i \in 1..Len(ports) |-> Ln("listen", ports[i])]
Location(path, lines) == <<Loc(path)>> \o lines \o <<Close>>
To(t) == Ln("_return", t)

MCPieces == {
    Server("h", <<1>>), Server("h", <<2, 1>>), Server("name", <<1>>) \o <<Ln("host", "h")>>,
    Location(A, <<To(B)>>), Location(B, <<To(A), To(Away)>>), Location(A, <<To(AB)>>),
    Location(AB, <<>>), Location(<<"">>, <<To(Away), To(B), Ln("autoindex", "on"), Ln("autoindex", "off")>>),
    <<Close>>,
    <<Ln("root", "r")>>,
    <<[Ln("root", "x") EXCEPT !.mentions = TRUE]>>,
    <<Loc(B)>>,
    <<Ln("listen", 3)>>,
    <<Ln("other", "x")>>,
    Location(A, <<To(B)>>) \o Location(B, <<To(A)>>) \o <<Close>>,
    Location(B, <<To(A)>>) \o Location(AB, <<Ln("#", "x"), Ln("method", "m"), Ln("method", "n")>>) \o <<Close>>,
    Location(AB, <<Ln("root", "x"), Ln("root", "y")>>),
    Location(Bad, <<>>),
    <<[Loc(A) EXCEPT !.open = FALSE]>>,
    <<Ln("host", Bad)>>,
    <<Ln("root", Bare)>>
}
MCKeyOrder == <<<<"h", 1>>, <<"h", 2>>, <<"h", 3>>, <<"name", 1>>, <<"name", 2>>, <<"name", 3>>>>
MCAddresses == {"h"}
=============================================================================
