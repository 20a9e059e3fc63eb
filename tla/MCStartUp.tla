----------------------------- MODULE MCStartUp -----------------------------
(* Four kinds of files: several servers on two ports, pages, redirects, and   *)
(* programs; and the descriptors a process may be started with: the three     *)
(* usual ones, without a standard input, and with a gap behind number 3.      *)
EXTENDS StartUp

\* What a file of the given words, ports and URIs may hold, besides what it must.
KindOfFile(words, p, uris, servers, maxLocations) ==
  [directives |-> {"listen", "location", "accepted_methods"} \cup words,
   ports |-> p, uris |-> uris, servers |-> servers, locations |-> maxLocations]

Several   == KindOfFile({"server_name"}, {80, 81}, {"/"}, 3, 1)
Pages     == KindOfFile({"root", "error_page", "index", "autoindex"}, {80}, {"/"}, 1, 1)
Redirects == KindOfFile({"redirect"}, {80}, {"/", "/a"}, 1, 2)
Programs  == KindOfFile({"saved_path", "cgi_pass", "cgi_path_info"}, {80}, {"/", ".x"}, 1, 2)

MCFiles     == {Several, Pages, Redirects, Programs}
MCInherited == {{0, 1, 2}, {1, 2}, {0, 1, 2, 4}}
=============================================================================
