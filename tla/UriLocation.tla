---------------------------- MODULE UriLocation ----------------------------
(***************************************************************************)
(* server_info_t::get_uri_location_t_ (spx_port_info.cpp): the state       *)
(* machine that walks over the target of a request, splits it into script  *)
(* name, path info, query and fragment, picks the location block that      *)
(* serves it and decides whether a CGI program answers.                    *)
(*                                                                         *)
(* A target is a sequence of characters that starts with a slash and holds *)
(* no space, as spx_http_syntax_start_line leaves it (module StartLine).   *)
(* File names are sequences of characters too, so that joining two of them *)
(* and path_resolve_ mean what they mean in the code.                      *)
(***************************************************************************)
EXTENDS Naturals, Sequences

CONSTANTS
    Letter,      \* the characters of usual_for_uri_parse_
    Encoded,     \* those of them that stand for a percent-encoded octet
    Decode,      \* [Encoded -> the character path_resolve_ puts in its place]
    Uris,        \* the request targets
    Configs,     \* the server blocks: records of uri_case and cgi_case
    Methods,     \* the request methods
    NULL         \* the null pointer

(* uri_location_t, as far as the resolution looks at it. *)
LocationType(l) ==
    /\ l.uri \in Seq(STRING) /\ l.root \in Seq(STRING)
    /\ l.index \in Seq(STRING) /\ l.saved_path \in Seq(STRING)
    /\ l.cgi_pass \in Seq(STRING) /\ l.cgi_path_info \in Seq(STRING)
    /\ l.accepted_methods \in SUBSET Methods

(* What ends a run of them. *)
Delimiters == {"/", ".", "?", "#"}

(* The request targets that spx_http_syntax_start_line accepts begin with a *)
(* slash; path_resolve_ decodes what was written with letters.              *)
ASSUME TargetAssumption ==
    /\ Letter \union Delimiters \subseteq STRING /\ Letter \intersect Delimiters = {}
    /\ Encoded \subseteq Letter
    /\ Uris \subseteq Seq(Letter \union Delimiters)
    /\ \A u \in Uris : u # <<>> /\ u[1] = "/"

(* What the configuration parser guarantees: every server block has a "/"   *)
(* location, a location that is named by a path has one slash, the first,   *)
(* and no dot ("location uri doesn't support '.' character to prevent       *)
(* ambiguous"), and one that is named by an extension names its program.    *)
ASSUME ConfigAssumption ==
    \A c \in Configs :
          /\ <<"/">> \in DOMAIN c.uri_case
          /\ \A p \in DOMAIN c.uri_case :
                /\ LocationType(c.uri_case[p]) /\ c.uri_case[p].uri = p
                /\ p # <<>> /\ p[1] = "/" /\ \A k \in 2 .. Len(p) : p[k] \notin {"/", "."}
          /\ \A e \in DOMAIN c.cgi_case :
                /\ LocationType(c.cgi_case[e])
                /\ c.cgi_case[e].cgi_pass # <<>>
                /\ c.cgi_case[e].cgi_path_info # <<>>
          /\ NULL \notin {c.uri_case[p] : p \in DOMAIN c.uri_case}
          /\ NULL \notin {c.cgi_case[e] : e \in DOMAIN c.cgi_case}

VARIABLES
    conf,             \* uri_case and cgi_case of the server block
    method,           \* request_method
    uri, it,          \* the target and the position the walk has reached
    state,            \* where the switch stands; "thrown" once substr throws
    flags,            \* flag_for_uri_status
    return_location,
    return_location_root,
    r                 \* uri_resolved_sets

vars == <<conf, method, uri, it, state, flags, return_location, return_location_root, r>>

(* The character at i; "end" stands for it == uri.end(). *)
At(i) == IF i <= Len(uri) THEN uri[i] ELSE "end"

(* The character tables of spx_core_type.hpp. (Mutations: the '?' of usual_  *)
(* left in the first, no dot in the second.)                                 *)
UsualWithQuery == Letter \union {"?"}
usual_for_uri_parse_ == Letter
ExceptDot == Letter
except_slash_query_fragment_ == Letter \union {"."}
except_query_fragment_ == Letter \union {".", "/"}

(* while (it != uri.end() && *it is in the table) ++it; *)
Past(i, table) ==
    CHOOSE j \in i .. Len(uri) + 1 :
        /\ j > Len(uri) \/ uri[j] \notin table
        /\ \A k \in i .. j - 1 : uri[k] \in table

From(i, j) == SubSeq(uri, i, j - 1)

(* temp.substr(temp.find_last_of('.')), for a temp that has a dot. *)
HasDot(s) == \E i \in DOMAIN s : s[i] = "."
Extension(s) ==
    LET last == CHOOSE i \in DOMAIN s : s[i] = "." /\ \A k \in i + 1 .. Len(s) : s[k] # "."
    IN  SubSeq(s, last, Len(s))

(* path_resolve_: a run of slashes becomes one, an encoded octet is decoded  *)
(* (and a slash that comes out of the decoding is left as it is).            *)
path_resolve_(s) ==
    LET resolved[k \in 0 .. Len(s)] ==
            IF k = 0 THEN <<>>
            ELSE IF s[k] = "/" /\ k > 1 /\ s[k - 1] = "/" THEN resolved[k - 1]
            ELSE Append(resolved[k - 1], IF s[k] \in Encoded THEN Decode[s[k]] ELSE s[k])
    IN  resolved[Len(s)]

NothingResolved ==
    [is_cgi_ |-> FALSE, cgi_loc_ |-> NULL, cgi_path_info_ |-> <<>>,
     script_name_ |-> <<>>, script_filename_ |-> <<>>, path_info_ |-> <<>>,
     query_string_ |-> <<>>, fragment_ |-> <<>>,
     resolved_request_uri_ |-> <<>>, path_translated_ |-> <<>>]

Init ==
    /\ conf \in Configs /\ method \in Methods /\ uri \in Uris
    /\ it = 1
    /\ state = IF uri = <<>> THEN "uri_end" ELSE "uri_main"
    /\ flags = {}
    /\ return_location = NULL /\ return_location_root = NULL
    /\ r = NothingResolved

(* The first component of the path names the location, unless a dot follows *)
(* it; whatever names no location belongs to "/".                           *)
uri_main ==
    /\ state = "uri_main"
    /\ LET first == Past(it, {"/"})
           after == Past(first, usual_for_uri_parse_)
           name == <<"/">> \o From(first, after)
           known == name \in DOMAIN conf.uri_case /\ At(after) # "."
           loc == IF known THEN conf.uri_case[name] ELSE conf.uri_case[<<"/">>]
           missed == IF known THEN {} ELSE {"notfound_uri"}
           named == [r EXCEPT !.script_name_ = IF known THEN @ ELSE @ \o name]
       IN  /\ it' = after
           /\ return_location' = loc
           /\ return_location_root' = loc
           /\ \/ /\ loc.cgi_pass = <<>>
                 /\ flags' = flags \union missed
                 /\ r' = named
                 /\ state' = "uri_find_delimeter_case"
              \/ /\ loc.cgi_pass # <<>> /\ HasDot(loc.cgi_pass)
                 /\ flags' = flags \union missed \union {"cgi", "cgi_pass"}
                 /\ r' = [named EXCEPT !.is_cgi_ = TRUE, !.cgi_loc_ = loc,
                            !.cgi_path_info_ =
                                LET extension == Extension(loc.cgi_pass)
                                IN  IF extension \in DOMAIN conf.cgi_case
                                    THEN conf.cgi_case[extension].cgi_path_info
                                    ELSE loc.cgi_pass]
                 /\ state' = "uri_find_delimeter_case"
              \/ \* substr(npos) throws std::out_of_range, which nobody catches
                 /\ loc.cgi_pass # <<>> /\ ~HasDot(loc.cgi_pass)
                 /\ flags' = flags \union missed
                 /\ r' = named
                 /\ state' = "thrown"
    /\ UNCHANGED <<conf, method, uri>>

uri_find_delimeter_case ==
    /\ state = "uri_find_delimeter_case"
    /\ \/ At(it) = "?" /\ it' = it + 1 /\ state' = "uri_query"
       \/ At(it) = "#" /\ it' = it + 1 /\ state' = "uri_fragment"
       \/ At(it) = "." /\ it' = it /\ state' = "uri_cgi"
       \/ At(it) = "/" /\ it' = it /\ state' = "uri_depth"
       \/ At(it) \notin {"?", "#", ".", "/"} /\ it' = it /\ state' = "uri_done"
    /\ UNCHANGED <<conf, method, uri, flags, return_location, return_location_root, r>>

(* One more component of the path. Behind a CGI program everything up to the *)
(* query or the fragment is its path info.                                   *)
uri_depth ==
    /\ state = "uri_depth"
    /\ LET first == Past(it, {"/"})
           after == Past(first, usual_for_uri_parse_)
           name == <<"/">> \o From(first, after)
           rest == Past(after, except_query_fragment_)
       IN  \/ /\ "cgi" \in flags
              /\ flags' = flags \union {"path_info"}
              /\ r' = [r EXCEPT !.path_info_ = @ \o name \o From(after, rest)]
              /\ it' = rest
           \/ /\ "cgi" \notin flags
              /\ flags' = flags \union {"depth_uri"}
              /\ r' = [r EXCEPT !.script_name_ = @ \o name]
              /\ it' = after
    /\ state' = "uri_find_delimeter_case"
    /\ UNCHANGED <<conf, method, uri, return_location, return_location_root>>

(* A component with a dot: its extension may name a CGI location. *)
uri_cgi ==
    /\ state = "uri_cgi"
    /\ LET after == Past(it, except_slash_query_fragment_)
           temp == From(it, after)
           cgi == HasDot(temp) /\ Extension(temp) \in DOMAIN conf.cgi_case
           loc == conf.cgi_case[Extension(temp)]
           named == [r EXCEPT !.script_name_ = @ \o temp]
       IN  /\ it' = after
           /\ \/ /\ "cgi" \in flags
                 /\ r' = [r EXCEPT !.path_info_ = @ \o temp]
                 /\ UNCHANGED <<flags, return_location>>
              \/ /\ "cgi" \notin flags /\ cgi
                 /\ r' = [named EXCEPT !.cgi_loc_ = loc, !.is_cgi_ = TRUE,
                                       !.cgi_path_info_ = loc.cgi_path_info]
                 /\ return_location' = loc
                 /\ flags' = flags \union {"cgi"}
              \/ /\ "cgi" \notin flags /\ ~cgi
                 /\ r' = named
                 /\ flags' = flags \union {"check_extension"}
                 /\ UNCHANGED return_location
    /\ state' = "uri_find_delimeter_case"
    /\ UNCHANGED <<conf, method, uri, return_location_root>>

(* (Mutation: the '#' is stepped over without a look at the end.) *)
QueryAndDelimeter ==
    /\ state = "uri_query"
    /\ it' = Past(it, STRING \ {"#"}) + 1
    /\ r' = [r EXCEPT !.query_string_ = @ \o From(it, it' - 1)]
    /\ state' = "uri_find_delimeter_case"
    /\ UNCHANGED <<conf, method, uri, flags, return_location, return_location_root>>
uri_query ==
    /\ state = "uri_query"
    /\ it' = Past(it, STRING \ {"#"})
    /\ r' = [r EXCEPT !.query_string_ = @ \o From(it, it')]
    /\ state' = "uri_find_delimeter_case"
    /\ UNCHANGED <<conf, method, uri, flags, return_location, return_location_root>>

uri_fragment ==
    /\ state = "uri_fragment"
    /\ it' = Len(uri) + 1
    /\ r' = [r EXCEPT !.fragment_ = @ \o From(it, it')]
    /\ state' = "uri_done"
    /\ UNCHANGED <<conf, method, uri, flags, return_location, return_location_root>>

(* The file name a request for a directory is completed with. *)
candidate_surfix_index ==
    IF method \in {"POST", "PUT"} THEN return_location_root.saved_path
    ELSE return_location_root.index

(* An unknown first component followed by more of a path is served by no     *)
(* location, so no CGI program runs for it; a location with a cgi_path_info  *)
(* of its own answers by CGI. (Mutations: a script further down makes up for *)
(* the unknown component; is_cgi_ stays set when no location is left.)       *)
NowhereButCgi == {"depth_uri", "notfound_uri"} \subseteq flags /\ "cgi" \notin flags
Nowhere == {"depth_uri", "notfound_uri"} \subseteq flags
CgiByPathInfo ==
    /\ flags \intersect {"cgi", "notfound_uri"} = {}
    /\ method \in return_location.accepted_methods
    /\ return_location.cgi_path_info # <<>>
DecidedStillCgi ==
    [loc |-> IF Nowhere THEN NULL ELSE return_location,
     r |-> IF Nowhere THEN [r EXCEPT !.cgi_loc_ = NULL]
           ELSE IF CgiByPathInfo
           THEN [r EXCEPT !.cgi_loc_ = return_location, !.is_cgi_ = TRUE]
           ELSE r]
Decided ==
    [loc |-> IF Nowhere THEN NULL ELSE return_location,
     r |-> IF Nowhere THEN [r EXCEPT !.cgi_loc_ = NULL, !.is_cgi_ = FALSE]
           ELSE IF CgiByPathInfo
           THEN [r EXCEPT !.cgi_loc_ = return_location, !.is_cgi_ = TRUE]
           ELSE r]

(* The environment answers opendir (is it a directory?) and the attempt to   *)
(* open the script (does it exist?).                                         *)
uri_done ==
    /\ state = "uri_done"
    /\ \E is_dir, exists \in BOOLEAN :
        LET d == Decided
            root == return_location_root
            filename == path_resolve_(root.root \o r.script_name_)
            name == path_resolve_(root.uri \o r.script_name_)
            index == /\ flags \intersect {"notfound_uri", "cgi", "check_extension"} = {}
                     /\ candidate_surfix_index # <<>>
                     /\ \/ method \in {"GET", "HEAD"}
                        \/ method \in {"POST", "PUT"} /\ is_dir
            complete(s) == IF index THEN path_resolve_(s \o <<"/">> \o candidate_surfix_index)
                           ELSE s
            script == d.loc # NULL /\ "cgi" \in flags
            info == path_resolve_(d.r.path_info_)
        IN  /\ return_location' =
                   IF script /\ exists /\ "notfound_uri" \notin flags
                   THEN return_location_root ELSE d.loc
            /\ r' = [d.r EXCEPT
                   !.script_name_ = complete(name),
                   !.script_filename_ =
                       IF "cgi_pass" \in flags \/ (script /\ ~exists)
                       THEN d.r.cgi_loc_.cgi_pass ELSE complete(filename),
                   !.path_info_ = info,
                   !.resolved_request_uri_ = complete(name) \o info,
                   !.path_translated_ =
                       IF info = <<>> THEN <<>>
                       ELSE path_resolve_(root.root \o <<"/">> \o info)]
    /\ state' = "uri_end"
    /\ UNCHANGED <<conf, method, uri, it, flags, return_location_root>>

Next ==
    \/ uri_main \/ uri_find_delimeter_case \/ uri_depth \/ uri_cgi
    \/ uri_query \/ uri_fragment \/ uri_done

Spec == Init /\ [][Next]_vars
(* The walk is one call that runs to its end. *)
FairSpec == Spec /\ WF_vars(Next)

-----------------------------------------------------------------------------
(***************************************************************************)
(* Properties                                                              *)
(***************************************************************************)

TypeOK ==
    LET locations == {conf.uri_case[p] : p \in DOMAIN conf.uri_case}
                        \union {conf.cgi_case[e] : e \in DOMAIN conf.cgi_case}
    IN  /\ conf \in Configs /\ method \in Methods /\ uri \in Seq(STRING)
        /\ it \in 1 .. Len(uri) + 1
        /\ state \in {"uri_main", "uri_find_delimeter_case", "uri_depth", "uri_cgi",
                      "uri_query", "uri_fragment", "uri_done", "uri_end", "thrown"}
        /\ flags \subseteq {"notfound_uri", "depth_uri", "check_extension", "cgi",
                            "path_info", "cgi_pass"}
        /\ return_location \in locations \union {NULL}
        /\ return_location_root \in locations \union {NULL}
        /\ r.is_cgi_ \in BOOLEAN
        /\ r.cgi_loc_ \in locations \union {NULL}

(* get_uri_location_t_ dereferences cgi_loc_ when the cgi_pass flag is set   *)
(* or a script does not exist, return_location whenever the target is not    *)
(* lost, and its caller starts a CGI program for is_cgi_: no pointer is      *)
(* followed that an earlier component, or the decision that no location      *)
(* serves the target, left NULL.                                             *)
CgiHasLocation ==
    /\ r.is_cgi_ <=> r.cgi_loc_ # NULL
    /\ state = "uri_done" =>
          /\ return_location # NULL
          /\ "cgi_pass" \in flags => ~Nowhere
    /\ state = "uri_end" /\ return_location = NULL => ~r.is_cgi_

(* The reference: what the target says, read off without walking over it.    *)
First(chars) ==
    LET at == {i \in DOMAIN uri : uri[i] \in chars}
    IN  IF at = {} THEN Len(uri) + 1 ELSE CHOOSE i \in at : \A j \in at : i <= j
Path == SubSeq(uri, 1, First({"?", "#"}) - 1)
Query == IF At(First({"?", "#"})) = "?"
         THEN SubSeq(uri, First({"?", "#"}) + 1, First({"#"}) - 1) ELSE <<>>
Fragment == SubSeq(uri, First({"#"}) + 1, Len(uri))

(* The walk splits the target: the script name (the location's own name in   *)
(* front when one was found) and the path info make up the path, slashes     *)
(* squeezed, and nothing of the query or the fragment is lost or mistaken    *)
(* for a piece of the path, however many '?', '#', '.' and slashes there are.*)
PiecesMakeTheUri ==
    state = "uri_done" =>
        LET front == IF "notfound_uri" \in flags THEN <<>> ELSE return_location_root.uri
        IN  /\ path_resolve_(front \o r.script_name_ \o r.path_info_) = path_resolve_(Path)
            /\ r.query_string_ = Query
            /\ r.fragment_ = Fragment

(* The components of the path, each as <<first, last>> position. *)
Components ==
    {c \in (DOMAIN Path) \X (DOMAIN Path) :
        /\ c[1] <= c[2] /\ \A k \in c[1] .. c[2] : Path[k] # "/"
        /\ c[1] = 1 \/ Path[c[1] - 1] = "/"
        /\ c[2] = Len(Path) \/ Path[c[2] + 1] = "/"}
Text(c) == SubSeq(Path, c[1], c[2])
FirstComponent == CHOOSE c \in Components : \A d \in Components : c[1] <= d[1]
Name == IF Components = {} THEN <<"/">> ELSE <<"/">> \o Text(FirstComponent)
Found == Name \in DOMAIN conf.uri_case
Home == conf.uri_case[IF Found THEN Name ELSE <<"/">>]
Scripts == {c \in Components : HasDot(Text(c)) /\ Extension(Text(c)) \in DOMAIN conf.cgi_case}
Script == CHOOSE c \in Scripts : \A d \in Scripts : c[1] <= d[1]
Lost ==
    /\ ~Found /\ Home.cgi_pass = <<>>
    /\ IF Scripts = {} THEN \E k \in FirstComponent[2] .. Len(Path) : Path[k] = "/"
                       ELSE Script # FirstComponent

(* The location that serves a target is the one its first component names,   *)
(* else "/"; a script found along the path is served by the CGI location of  *)
(* its extension, and a path below an unknown first component by nobody.     *)
(* A CGI program runs exactly for a location with a cgi_pass, a script, or a *)
(* named location with a cgi_path_info that accepts the method.              *)
LocationAsConfigured ==
    state = "uri_end" =>
        IF Lost THEN return_location = NULL /\ ~r.is_cgi_
        ELSE IF Home.cgi_pass = <<>> /\ Scripts # {}
        THEN /\ r.is_cgi_
             /\ r.cgi_loc_ = conf.cgi_case[Extension(Text(Script))]
             /\ return_location \in {r.cgi_loc_} \union (IF Found THEN {Home} ELSE {})
        ELSE /\ return_location = Home
             /\ r.is_cgi_ <=> \/ Home.cgi_pass # <<>>
                              \/ Found /\ Home.cgi_path_info # <<>> /\ method \in Home.accepted_methods

(* Every walk ends: no delimiter sends the switch back to a case that        *)
(* consumes nothing.                                                         *)
WalkEnds == <>(state \in {"uri_end", "thrown"})
=============================================================================
