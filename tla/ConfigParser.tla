---------------------------- MODULE ConfigParser ----------------------------
(***************************************************************************)
(* spx_config_syntax_checker: the state machine that reads the configuration *)
(* file and builds, per port, the server blocks the program serves.          *)
(*                                                                         *)
(* The file is chosen while it is read: it holds the lexemes the iterator    *)
(* may be at until a state looks at it and settles for one: "ws" for a run of *)
(* white space, "#" for a comment, a punctuation character, "end", or "word", *)
(* whose text is chosen by the state that consumes it.  Texts are abstracted  *)
(* to what a state tells apart; a word no state accepts ends in "error" like  *)
(* every other refusal.                                                      *)
(***************************************************************************)
EXTENDS Naturals, Sequences, FiniteSets

CONSTANTS
  Ports,         \* the port numbers a file may listen on
  Names,         \* the server names it may give
  Uris,          \* the location URIs and redirect targets it may name
  Extensions,    \* those of Uris that start with a dot
  Numbers,       \* three-digit error numbers
  Methods,       \* the methods a location may accept
  MaxNumbers,    \* bound on the error numbers read before a page's path
  Files          \* the kinds of file: the words, ports and URIs one uses, and its bounds

DefaultWords  == {"root", "listen", "location", "error_page", "server_name"}
LocationWords == {"root", "index", "cgi_pass", "redirect", "autoindex", "saved_path",
                  "cgi_path_info", "max_body_size", "accepted_methods"}

ASSUME ConfigParserAssumption ==
  /\ Files \subseteq [directives : SUBSET (DefaultWords \cup LocationWords),
                     ports : SUBSET Ports, uris : SUBSET Uris, servers : Nat, locations : Nat]
  /\ Extensions \subseteq Uris
  /\ "" \notin Uris
  /\ "/" \in Uris \ Extensions
  /\ MaxNumbers \in Nat

VARIABLES
  file,                     \* the kind of file that is read
  it,                       \* the lexemes the iterator may be at
  state, prev_state, next_state,
  server_count, location_count,
  flag_default_part,        \* Kflag_* seen in this server block
  flag_location_part,       \* Kflag_* seen in this location
  server_info,              \* temp_basic_server_info
  uri_location,             \* temp_uri_location_info
  error_numbers,            \* temp_error_page_number
  flag_error_page_default,
  error_pages,              \* saved_error_page_map_0: the numbers that have a page
  locations,                \* saved_location_uri_map_1: [URI -> redirect]
  cgis,                     \* saved_cgi_list_map_1: [extension -> flags]
  ports,                    \* saved_total_port_map_3: [port -> [name -> server]]
  plain                     \* ghost: every `;' so far ended a setting (see Endline)

settings == <<flag_default_part, server_info, error_numbers, flag_error_page_default, error_pages>>
location == <<flag_location_part, uri_location>>
saved    == <<locations, cgis>>
counts   == <<server_count, location_count>>
vars     == <<file, it, state, prev_state, next_state, counts, settings, location, saved, ports, plain>>

Lexemes == {"ws", "#", ";", "{", "}", "word", "end"}

Stopped == {"conf_done", "error", "thrown", "overrun"}
States  ==
  {"conf_zero", "conf_start", "conf_endline", "conf_waiting_default_value", "conf_server",
   "conf_server_CB_open", "conf_server_CB_close", "conf_listen", "conf_listen_default",
   "conf_server_name", "conf_error_page", "conf_client_max_body_size",
   "conf_waiting_location_value", "conf_location_zero", "conf_location_uri",
   "conf_location_CB_open", "conf_location_CB_close", "conf_accepted_methods", "conf_root",
   "conf_index", "conf_autoindex", "conf_redirect", "conf_saved_path", "conf_cgi_pass",
   "conf_cgi_path_info", "conf_error_page_number", "conf_main_root"}

NewServer   == [port |-> 0, name |-> "", default |-> FALSE]
NewLocation == [uri |-> "", redirect |-> "", methods |-> {}, saved_path |-> "", module |-> "none"]
Empty       == [x \in {} |-> x]

\* f with x mapped to y; std::map::insert where x is not in f yet.
Insert(f, x, y) == [z \in DOMAIN f \cup {x} |-> IF z = x THEN y ELSE f[z]]

WalkOK ==
  /\ file \in Files
  /\ it \subseteq Lexemes
  /\ state \in States \cup Stopped
  /\ prev_state \in States /\ next_state \in States
  /\ server_count \in 0 .. file.servers /\ location_count \in 0 .. file.locations

BlockOK ==
  /\ flag_default_part \subseteq {"root", "listen", "server_name", "error_page", "root_slash"}
  /\ flag_location_part \subseteq LocationWords
  /\ server_info \in [port : Ports \cup {0}, name : Names \cup {"", "localhost"}, default : BOOLEAN]
  /\ uri_location \in [uri : Uris \cup {""}, redirect : Uris \cup {""}, methods : SUBSET Methods,
                       saved_path : {"", "dotted", "other"}, module : {"none", "redirect"}]
  /\ error_numbers \in Seq(Numbers) /\ error_pages \subseteq Numbers

SavedOK ==
  /\ DOMAIN locations \subseteq Uris \ Extensions
  /\ DOMAIN cgis \subseteq Extensions
  /\ DOMAIN ports \subseteq Ports
  /\ \A p \in DOMAIN ports : DOMAIN ports[p] \subseteq Names \cup {"localhost"}

TypeOK ==
  /\ WalkOK /\ BlockOK /\ SavedOK
  /\ flag_error_page_default \in BOOLEAN /\ plain \in BOOLEAN

Init ==
  /\ file \in Files
  /\ it = Lexemes
  /\ state = "conf_zero" /\ prev_state = "conf_zero" /\ next_state = "conf_start"
  /\ server_count = 0 /\ location_count = 0
  /\ flag_default_part = {} /\ flag_location_part = {}
  /\ server_info = NewServer
  /\ uri_location = NewLocation
  /\ error_numbers = <<>> /\ flag_error_page_default = FALSE /\ error_pages = {}
  /\ locations = Empty /\ cgis = Empty
  /\ ports = Empty
  /\ plain = TRUE

-----------------------------------------------------------------------------
(* The ways a state ends.                                                    *)

Goto(s, n) == prev_state' = state /\ state' = s /\ next_state' = n

Stop(outcome) ==
  /\ state' = outcome
  /\ UNCHANGED <<it, prev_state, next_state, counts, settings, location, saved, ports, plain>>

\* What conf_zero clears.
ClearBlock ==
  /\ flag_default_part' = {} /\ flag_location_part' = {}
  /\ server_info' = NewServer
  /\ uri_location' = NewLocation
  /\ error_numbers' = <<>> /\ flag_error_page_default' = FALSE /\ error_pages' = {}
  /\ locations' = Empty /\ cgis' = Empty
  /\ location_count' = 0

\* The program exits, and with it all that was read.
Error ==
  /\ state' = "error" /\ it' = {"end"}
  /\ prev_state' = "conf_zero" /\ next_state' = "conf_start"
  /\ ClearBlock
  /\ server_count' = 0 /\ ports' = Empty /\ plain' = TRUE

\* A value ends with white space or `;', and the state n reads what follows it.
Value(n) ==
  /\ "word" \in it
  /\ it' = {"ws", ";"}
  /\ Goto("conf_start", n)

-----------------------------------------------------------------------------
(* Between the lexemes.                                                      *)

\* What is under the iterator once white space is skipped.
Reached == IF "ws" \in it THEN Lexemes \ {"ws"} ELSE it

\* Where a `#' starts a comment; elsewhere it is a character of a word.
CommentAllowed ==
  next_state \in {"conf_waiting_default_value", "conf_waiting_location_value", "conf_server"}

conf_start ==
  /\ state = "conf_start"
  /\ \/ /\ ";" \in Reached
        /\ prev_state \notin {"conf_server_CB_open", "conf_location_CB_open"}
        /\ it' = {";"}
        /\ prev_state' = next_state
        /\ state' = "conf_endline"
     \/ /\ "#" \in Reached /\ CommentAllowed
        /\ it' = Lexemes
        /\ UNCHANGED <<state, prev_state>>
     \/ /\ Reached \ {"#", ";"} # {}
        /\ it' = Reached \ {"#", ";"}
        /\ state' = next_state
        /\ UNCHANGED prev_state
  /\ UNCHANGED <<next_state, counts, settings, location, saved, ports, plain>>

\* What conf_start refuses, and a comment no line end follows.
conf_start_ends ==
  /\ state = "conf_start"
  /\ \/ ";" \in Reached /\ Error
     \/ "#" \in Reached /\ CommentAllowed /\ Stop("overrun")

\* mutant: the `;' of a server setting goes the way of a location's
AfterEndlineSwapped == "conf_waiting_location_value"

\* The state that waits after a `;', by what conf_start had waited for.
AfterEndline ==
  IF prev_state \in {"conf_waiting_default_value", "conf_listen_default"}
  THEN "conf_waiting_default_value" ELSE "conf_waiting_location_value"

conf_endline ==
  /\ state = "conf_endline"
  /\ it' = Lexemes
  /\ Goto("conf_start", AfterEndline)
  /\ plain' = (plain /\ prev_state \in {"conf_waiting_default_value", "conf_listen_default",
                                        "conf_waiting_location_value", "conf_accepted_methods"})
  /\ UNCHANGED <<counts, settings, location, saved, ports>>

-----------------------------------------------------------------------------
(* Server blocks.                                                            *)

conf_server ==
  /\ state = "conf_server"
  /\ \/ /\ "word" \in it
        /\ server_count < file.servers
        /\ it' = Lexemes
        /\ Goto("conf_start", "conf_server_CB_open")
        /\ UNCHANGED <<counts, settings, location, saved, ports, plain>>
     \/ "end" \in it /\ server_count # 0 /\ Stop("conf_done")
     \/ Error

conf_server_CB_open ==
  /\ state = "conf_server_CB_open"
  /\ \/ /\ "{" \in it
        /\ it' = Lexemes
        /\ Goto("conf_start", "conf_waiting_default_value")
        /\ server_count' = server_count + 1
        /\ UNCHANGED <<location_count, settings, location, saved, ports, plain>>
     \/ it # {"{"} /\ Error

conf_server_CB_close ==
  /\ state = "conf_server_CB_close"
  /\ \/ /\ location_count # 0 /\ "listen" \in flag_default_part
        /\ it' = Lexemes
        /\ Goto("conf_zero", "conf_start")
        /\ UNCHANGED <<counts, settings, location, saved, ports, plain>>
     \/ (location_count = 0 \/ "listen" \notin flag_default_part) /\ Error

\* mutant: only a server that says default_server becomes one
BecomesDefaultIfSaid == server_info.default

\* The first server on a port is its default server.
BecomesDefault == server_info.default \/ server_info.port \notin DOMAIN ports

\* mutant: no default for a server without a name
ServerNameAsRead == server_info.name

ServerName == IF "server_name" \in flag_default_part THEN server_info.name ELSE "localhost"

\* The block is saved and every variable of a block cleared.
conf_zero_saves ==
  LET p     == server_info.port
      known == p \in DOMAIN ports
      here  == IF known THEN ports[p] ELSE Empty
  IN  /\ "root_slash" \in flag_default_part
      /\ ~(known /\ server_info.default)
      /\ ServerName \notin DOMAIN here
      /\ ports' = Insert(ports, p,
                         Insert(here, ServerName,
                                [default |-> BecomesDefault, locations |-> locations, cgis |-> cgis]))

conf_zero ==
  /\ state = "conf_zero"
  /\ \/ /\ \/ server_count = 0 /\ UNCHANGED ports
           \/ server_count # 0 /\ conf_zero_saves
        /\ ClearBlock
        /\ Goto(next_state, "conf_server")
        /\ UNCHANGED <<it, server_count, plain>>
     \/ server_count # 0 /\ Error       \* one of the checks, or the root is no directory

\* A setting's name, followed by white space; the state that reads its value.
conf_waiting_default_value ==
  /\ state = "conf_waiting_default_value"
  /\ \/ /\ "word" \in it
        /\ it' = {"ws"}
        /\ \/ /\ "root" \in file.directives \ flag_default_part
              /\ Goto("conf_start", "conf_main_root")
           \/ /\ "listen" \in file.directives \ flag_default_part
              /\ Goto("conf_start", "conf_listen")
           \/ /\ "location" \in file.directives /\ "listen" \in flag_default_part
              /\ Goto("conf_start", "conf_location_uri")
           \/ /\ "error_page" \in file.directives
              /\ Goto("conf_start", "conf_error_page_number")
           \/ /\ "server_name" \in file.directives \ flag_default_part
              /\ Goto("conf_start", "conf_server_name")
     \/ /\ "}" \in it
        /\ Goto("conf_server_CB_close", "conf_start")
        /\ UNCHANGED it
  /\ UNCHANGED <<counts, settings, location, saved, ports, plain>>

conf_main_root ==
  /\ state = "conf_main_root"
  /\ Value("conf_waiting_default_value")
  /\ flag_default_part' = flag_default_part \cup {"root"}
  /\ UNCHANGED <<server_info, error_numbers, flag_error_page_default, error_pages>>
  /\ UNCHANGED <<counts, location, saved, ports, plain>>

\* A port; the `;' right behind it is consumed here and not by conf_endline.
conf_listen ==
  /\ state = "conf_listen"
  /\ "word" \in it
  /\ \/ it' = {"ws"} /\ Goto("conf_start", "conf_listen_default")
     \/ it' = Lexemes /\ Goto("conf_start", "conf_waiting_default_value")
  /\ \E p \in file.ports : server_info' = [server_info EXCEPT !.port = p]
  /\ flag_default_part' = flag_default_part \cup {"listen"}
  /\ UNCHANGED <<error_numbers, flag_error_page_default, error_pages>>
  /\ UNCHANGED <<counts, location, saved, ports, plain>>

conf_listen_default ==
  /\ state = "conf_listen_default"
  /\ Value("conf_waiting_default_value")
  /\ server_info' = [server_info EXCEPT !.default = TRUE]
  /\ UNCHANGED <<flag_default_part, error_numbers, flag_error_page_default, error_pages>>
  /\ UNCHANGED <<counts, location, saved, ports, plain>>

conf_server_name ==
  /\ state = "conf_server_name"
  /\ Value("conf_waiting_default_value")
  /\ \E n \in Names : server_info' = [server_info EXCEPT !.name = n]
  /\ flag_default_part' = flag_default_part \cup {"server_name"}
  /\ UNCHANGED <<error_numbers, flag_error_page_default, error_pages>>
  /\ UNCHANGED <<counts, location, saved, ports, plain>>

\* A number, or the path behind the numbers: with none before it, the default page.
conf_error_page_number ==
  /\ state = "conf_error_page_number"
  /\ "word" \in it
  /\ \/ /\ Len(error_numbers) < MaxNumbers
        /\ it' = {"ws"}
        /\ \E n \in Numbers : error_numbers' = Append(error_numbers, n)
        /\ Goto("conf_start", "conf_error_page_number")
        /\ UNCHANGED flag_error_page_default
     \/ /\ prev_state \in {"conf_error_page_number", "conf_waiting_default_value"}
        /\ flag_error_page_default' =
              (flag_error_page_default \/ prev_state = "conf_waiting_default_value")
        /\ prev_state' = state
        /\ state' = "conf_error_page"
        /\ UNCHANGED <<it, next_state, error_numbers>>
  /\ UNCHANGED <<flag_default_part, server_info, error_pages>>
  /\ UNCHANGED <<counts, location, saved, ports, plain>>

conf_error_page ==
  /\ state = "conf_error_page"
  /\ Value("conf_waiting_default_value")
  /\ \/ /\ flag_error_page_default
        /\ "error_page" \notin flag_default_part
        /\ flag_default_part' = flag_default_part \cup {"error_page"}
        /\ flag_error_page_default' = FALSE
     \/ /\ ~flag_error_page_default
        /\ UNCHANGED <<flag_default_part, flag_error_page_default>>
  /\ \A i, j \in DOMAIN error_numbers :
        /\ error_numbers[i] \notin error_pages
        /\ error_numbers[i] = error_numbers[j] => i = j
  /\ error_pages' = error_pages \cup {error_numbers[i] : i \in DOMAIN error_numbers}
  /\ error_numbers' = <<>>
  /\ UNCHANGED server_info
  /\ UNCHANGED <<counts, location, saved, ports, plain>>

-----------------------------------------------------------------------------
(* Locations.                                                                *)

conf_location_uri ==
  /\ state = "conf_location_uri"
  /\ "word" \in it
  /\ it' = {"ws", "{"}
  /\ Goto("conf_start", "conf_location_CB_open")
  /\ \E u \in file.uris :
        /\ uri_location' = [uri_location EXCEPT !.uri = u]
        /\ flag_default_part' = IF u = "/" THEN flag_default_part \cup {"root_slash"}
                                ELSE flag_default_part
  /\ UNCHANGED <<server_info, error_numbers, flag_error_page_default, error_pages>>
  /\ UNCHANGED <<counts, flag_location_part, saved, ports, plain>>

conf_location_CB_open ==
  /\ state = "conf_location_CB_open"
  /\ "{" \in it
  /\ location_count < file.locations
  /\ it' = Lexemes
  /\ Goto("conf_start", "conf_waiting_location_value")
  /\ location_count' = location_count + 1
  /\ UNCHANGED <<server_count, settings, location, saved, ports, plain>>

\* The state that reads the value of a location's setting.
ValueState(w) ==
  CASE w = "root"             -> "conf_root"
    [] w = "index"            -> "conf_index"
    [] w = "cgi_pass"         -> "conf_cgi_pass"
    [] w = "redirect"         -> "conf_redirect"
    [] w = "autoindex"        -> "conf_autoindex"
    [] w = "saved_path"       -> "conf_saved_path"
    [] w = "cgi_path_info"    -> "conf_cgi_path_info"
    [] w = "max_body_size"    -> "conf_client_max_body_size"
    [] w = "accepted_methods" -> "conf_accepted_methods"

conf_waiting_location_value ==
  /\ state = "conf_waiting_location_value"
  /\ \/ /\ "word" \in it
        /\ it' = {"ws"}
        /\ \E w \in (LocationWords \cap file.directives) \ flag_location_part :
              Goto("conf_start", ValueState(w))
     \/ /\ "}" \in it
        /\ "accepted_methods" \in flag_location_part
        /\ Goto("conf_location_CB_close", "conf_start")
        /\ UNCHANGED it
  /\ UNCHANGED <<counts, settings, location, saved, ports, plain>>

conf_location_CB_close ==
  /\ state = "conf_location_CB_close"
  /\ it' = Lexemes
  /\ Goto("conf_location_zero", "conf_start")
  /\ UNCHANGED <<counts, settings, location, saved, ports, plain>>

\* The settings nothing but their presence is kept of.
conf_location_value ==
  /\ \E w \in {"root", "index", "autoindex", "cgi_pass", "cgi_path_info", "max_body_size"} :
        /\ state = ValueState(w)
        /\ flag_location_part' = flag_location_part \cup {w}
  /\ Value("conf_waiting_location_value")
  /\ UNCHANGED uri_location
  /\ UNCHANGED <<counts, settings, saved, ports, plain>>

\* Whether a saved path starts with a dot.
conf_saved_path ==
  /\ state = "conf_saved_path"
  /\ Value("conf_waiting_location_value")
  /\ \E path \in {"dotted", "other"} :
        uri_location' = [uri_location EXCEPT !.saved_path = path]
  /\ flag_location_part' = flag_location_part \cup {"saved_path"}
  /\ UNCHANGED <<counts, settings, saved, ports, plain>>

\* The method, or every method; one that is set already is refused.
conf_accepted_methods ==
  /\ state = "conf_accepted_methods"
  /\ Value("conf_accepted_methods")
  /\ \/ \E m \in Methods \ uri_location.methods :
          uri_location' = [uri_location EXCEPT !.methods = @ \cup {m}]
     \/ uri_location' = [uri_location EXCEPT !.methods = Methods]
  /\ flag_location_part' = flag_location_part \cup {"accepted_methods"}
  /\ UNCHANGED <<counts, settings, saved, ports, plain>>

\* path_resolve_('/' + uri): a redirect that is not set leads to the root.
Resolved(uri) == IF uri = "" THEN "/" ELSE uri

\* mutant: the location found is asked for its own URI
LeadsBackItself(r) == r \in DOMAIN locations /\ Resolved(r) = uri_location.uri

\* The location r names, if it is saved already, redirects to this one; '/' and
\* an extension are the URI of none.
LeadsBack(r) ==
  /\ r \in DOMAIN locations /\ locations[r] \notin Extensions
  /\ Resolved(locations[r]) = uri_location.uri

conf_redirect ==
  /\ state = "conf_redirect"
  /\ Value("conf_waiting_location_value")
  /\ \E r \in file.uris :
        /\ ~LeadsBack(r)
        /\ uri_location' = [uri_location EXCEPT !.redirect = r, !.module = "redirect"]
  /\ flag_location_part' = flag_location_part \cup {"redirect"}
  /\ UNCHANGED <<counts, settings, saved, ports, plain>>

\* mutant: the program of an extension is not asked for
CgiAcceptedUnnamed(F) == F \cap {"index", "autoindex", "redirect"} = {}

\* What an extension's settings must and must not hold.
CgiAccepted(F) ==
  /\ F \cap {"index", "autoindex", "redirect"} = {}
  /\ "saved_path" \in F => uri_location.saved_path = "dotted"
  /\ {"cgi_path_info", "cgi_pass"} \subseteq F

PathAccepted(F) ==
  /\ "cgi_pass" \in F => F \cap {"cgi_path_info", "redirect", "index", "autoindex"} = {}
  /\ ("saved_path" \in F /\ "cgi_pass" \notin F) => uri_location.saved_path # "dotted"

\* The location is saved, unless none has been opened in this block.
conf_location_zero_saves ==
  LET u == uri_location.uri
      F == flag_location_part
  IN  \/ location_count = 0 /\ UNCHANGED saved
      \/ /\ location_count # 0
         /\ u \in Extensions \ DOMAIN cgis
         /\ "accepted_methods" \in F /\ CgiAccepted(F)
         /\ uri_location.module = "none"
         /\ cgis' = Insert(cgis, u, F)
         /\ UNCHANGED locations
      \/ /\ location_count # 0
         /\ u \in Uris \ (Extensions \cup DOMAIN locations)
         /\ "accepted_methods" \in F /\ PathAccepted(F)
         /\ locations' = Insert(locations, u, uri_location.redirect)
         /\ UNCHANGED cgis

conf_location_zero ==
  /\ state = "conf_location_zero"
  /\ \/ /\ conf_location_zero_saves
        /\ flag_location_part' = {}
        /\ uri_location' = NewLocation
        /\ Goto(next_state, "conf_waiting_default_value")
        /\ UNCHANGED <<it, counts, settings, ports, plain>>
     \/ /\ location_count # 0 /\ "accepted_methods" \in flag_location_part
        /\ uri_location.uri = "" /\ Stop("thrown")   \* uri.at(0)

-----------------------------------------------------------------------------
\* In every state that reads, what it does not accept is an error; so are a
\* file that is not there and a directory that cannot be opened.
Refuse ==
  /\ state \notin Stopped \cup {"conf_start", "conf_endline", "conf_server", "conf_server_CB_open",
                                "conf_server_CB_close", "conf_zero", "conf_location_CB_close"}
  /\ Error

Parse ==
  \/ conf_start \/ conf_start_ends \/ conf_endline
  \/ conf_zero \/ conf_server \/ conf_server_CB_open \/ conf_server_CB_close
  \/ conf_waiting_default_value \/ conf_main_root \/ conf_listen \/ conf_listen_default
  \/ conf_server_name \/ conf_error_page_number \/ conf_error_page
  \/ conf_location_uri \/ conf_location_CB_open \/ conf_location_CB_close
  \/ conf_waiting_location_value \/ conf_location_value \/ conf_saved_path
  \/ conf_accepted_methods \/ conf_redirect \/ conf_location_zero
  \/ Refuse

Next == Parse /\ UNCHANGED file

Spec == Init /\ [][Next]_vars

-----------------------------------------------------------------------------
(* Properties.                                                               *)

\* On every port one server block is the default server (test_syntax/...:
\* "the first server in the list"), so that a socket is opened for the port and a
\* request without a known Host is answered.
OneDefaultPerPort ==
  \A p \in DOMAIN ports :
    Cardinality({n \in DOMAIN ports[p] : ports[p][n].default}) = 1

\* A plain file that is accepted gives UriLocation what it relies on: a root
\* location in every server block, a program for every extension.
ServersComplete ==
  (state = "conf_done" /\ plain) =>
     \A p \in DOMAIN ports : \A n \in DOMAIN ports[p] :
        /\ "/" \in DOMAIN ports[p][n].locations
        /\ \A e \in DOMAIN ports[p][n].cgis :
              {"cgi_pass", "cgi_path_info"} \subseteq ports[p][n].cgis[e]

\* No two locations of a server redirect to each other ("recursive redirect found").
NoRedirectPair ==
  \A u, v \in DOMAIN locations :
     (u # v /\ locations[u] = v) => locations[v] # u

\* A plain file never makes the parser take the first character of no URI.
NeverThrown == plain => state # "thrown"
=============================================================================
