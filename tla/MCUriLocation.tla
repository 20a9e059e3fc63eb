--------------------------- MODULE MCUriLocation ---------------------------
(* A small instance of UriLocation: "a" names a location, ".x" is the        *)
(* extension of a CGI location; every kind of location block at "/a" below  *)
(* a plain "/", and the kinds that matter for a lost target at "/".         *)
EXTENDS UriLocation, TLC

MCLetter == {"a", "x", "%2F"}
MCEncoded == {"%2F"}
MCDecode == [c \in {"%2F"} |-> "/"]

Strings(chars, n) == UNION {[1 .. k -> chars] : k \in 0 .. n}
MCUris ==
    {<<"/">> \o path : path \in Strings({"/", "a", ".", "x"}, 5)}
    \union {<<"/">> \o path \o <<"?", "a", "#", "?">> :
                path \in Strings({"/", "a", ".", "x"}, 3)}
    \union {<<"/">> \o s : s \in Strings({"/", "a", ".", "x", "?", "#", "%2F"}, 3)}

Location(name, dir) ==
    [uri |-> name, root |-> dir, index |-> <<>>, saved_path |-> <<"s">>, cgi_pass |-> <<>>,
     cgi_path_info |-> <<>>, accepted_methods |-> {"GET", "POST"}]
Kinds(l) ==
    [plain |-> l,
     index |-> [l EXCEPT !.index = <<"i">>],
     pass |-> [l EXCEPT !.cgi_pass = <<"p", ".", "x">>],
     otherpass |-> [l EXCEPT !.cgi_pass = <<"p", ".", "y">>],
     dotless |-> [l EXCEPT !.cgi_pass = <<"p">>],
     pathinfo |-> [l EXCEPT !.cgi_path_info = <<"g">>, !.accepted_methods = {"GET"}]]

AtRoot == Kinds(Location(<<"/">>, <<"R">>))
AtA == Kinds(Location(<<"/", "a">>, <<"A">>))
DotX == [Location(<<".", "x">>, <<"X">>) EXCEPT !.cgi_pass = <<"p", ".", "x">>,
                                               !.cgi_path_info = <<"g">>]
Block(root, a) ==
    [uri_case |-> (<<"/">> :> AtRoot[root]) @@ (<<"/", "a">> :> AtA[a]),
     cgi_case |-> <<".", "x">> :> DotX]
MCConfigs ==
    {Block("plain", a) : a \in DOMAIN AtA} \union {Block(root, "plain") : root \in {"pass", "pathinfo"}}
=============================================================================
