------------------------- MODULE ConfigParserProofs -------------------------
(***************************************************************************)
(* Theorems about ConfigParser, for every vocabulary and every kind of file. *)
(*                                                                         *)
(* What is preserved is stated of the state that reads what comes next (At): *)
(* conf_start and conf_endline stand between two lexemes and remember it in  *)
(* next_state and prev_state.                                                *)
(***************************************************************************)
EXTENDS ConfigParser, FiniteSetTheorems, TLAPS

At == IF state = "conf_start" THEN next_state
      ELSE IF state = "conf_endline" THEN prev_state ELSE state

LocationLevel ==
  {"conf_waiting_location_value", "conf_root", "conf_index", "conf_autoindex", "conf_redirect",
   "conf_saved_path", "conf_cgi_pass", "conf_cgi_path_info", "conf_client_max_body_size",
   "conf_accepted_methods", "conf_location_CB_close", "conf_location_zero"}

\* A server that is about to be opened is within the bound; one that has said
\* `listen' has a port, one that has said `server_name' a name.
ServerKnown ==
  /\ next_state \notin {"conf_zero", "conf_endline", "conf_location_zero"}
  /\ state \in {"conf_zero", "conf_location_zero"} => next_state = "conf_start"
  /\ At = "conf_server_CB_open" => server_count < file.servers
  /\ "listen" \in flag_default_part => server_info.port \in Ports
  /\ "server_name" \in flag_default_part => server_info.name \in Names
  /\ (state = "conf_zero" /\ server_count # 0) => "listen" \in flag_default_part

\* What holds of every file: with it, types are kept and ports have a default.
Typed == TypeOK /\ ServerKnown /\ OneDefaultPerPort

-----------------------------------------------------------------------------
(* The parts all actions are made of.                                        *)

\* What a kind of file is made of.
LEMMA FileTyped ==
  ASSUME file \in Files
  PROVE  /\ file.directives \subseteq DefaultWords \cup LocationWords
         /\ file.ports \subseteq Ports /\ file.uris \subseteq Uris
         /\ file.servers \in Nat /\ file.locations \in Nat
<1>1. file \in [directives : SUBSET (DefaultWords \cup LocationWords),
                ports : SUBSET Ports, uris : SUBSET Uris, servers : Nat, locations : Nat]
  BY ConfigParserAssumption
<1>. QED
  BY <1>1

\* The states a location's settings are read in.
LEMMA ValueStates ==
  \A w \in LocationWords :
    ValueState(w) \in LocationLevel \ {"conf_location_CB_close", "conf_location_zero"}
  BY DEF LocationWords, ValueState, LocationLevel

\* What a block is cleared to.
LEMMA ClearedBlock ==
  ASSUME flag_default_part' = {}, flag_location_part' = {}, server_info' = NewServer,
         uri_location' = NewLocation, error_numbers' = <<>>, error_pages' = {}
  PROVE  BlockOK'
<1>1. error_numbers' \in Seq(Numbers)
  OBVIOUS
<1>2. server_info' \in [port : Ports \cup {0}, name : Names \cup {"", "localhost"}, default : BOOLEAN]
  BY DEF NewServer
<1>3. uri_location' \in [uri : Uris \cup {""}, redirect : Uris \cup {""}, methods : SUBSET Methods,
                        saved_path : {"", "dotted", "other"}, module : {"none", "redirect"}]
  BY DEF NewLocation
<1>. QED
  BY <1>1, <1>2, <1>3 DEF BlockOK

\* An error leaves what the start does.
LEMMA ErrorTyped == WalkOK /\ UNCHANGED file /\ Error => Typed'
<1>. SUFFICES ASSUME WalkOK, UNCHANGED file, Error PROVE Typed'
  OBVIOUS
<1>1. WalkOK'
  <2>1. /\ state' = "error" /\ it' = {"end"} /\ prev_state' = "conf_zero" /\ next_state' = "conf_start"
        /\ server_count' = 0 /\ location_count' = 0
    BY DEF Error, ClearBlock
  <2>2. it' \subseteq Lexemes
    BY <2>1 DEF Lexemes
  <2>3. state' \in States \cup Stopped /\ prev_state' \in States /\ next_state' \in States
    BY <2>1 DEF States, Stopped
  <2>4. server_count' \in 0 .. file'.servers /\ location_count' \in 0 .. file'.locations
    BY <2>1, FileTyped DEF WalkOK
  <2>. QED
    BY <2>2, <2>3, <2>4 DEF WalkOK
<1>2. BlockOK'
  <2>1. /\ flag_default_part' = {} /\ flag_location_part' = {}
        /\ server_info' = NewServer /\ uri_location' = NewLocation
        /\ error_numbers' = <<>> /\ error_pages' = {}
    BY DEF Error, ClearBlock
  <2>. QED
    BY <2>1, ClearedBlock
<1>3. SavedOK'
  BY DEF SavedOK, Error, ClearBlock, Empty
<1>4. flag_error_page_default' \in BOOLEAN /\ plain' \in BOOLEAN
  BY DEF Error, ClearBlock
<1>5. ServerKnown'
  BY DEF ServerKnown, At, Error, ClearBlock
<1>6. OneDefaultPerPort'
  BY DEF OneDefaultPerPort, Error, Empty
<1>. QED
  BY <1>1, <1>2, <1>3, <1>4, <1>5, <1>6 DEF Typed, TypeOK

\* Stopping changes the state only.
LEMMA StopTyped ==
  ASSUME Typed, UNCHANGED file, NEW outcome \in Stopped, Stop(outcome)
  PROVE  Typed'
<1>1. WalkOK'
  <2>1. state' = outcome /\ UNCHANGED <<it, prev_state, next_state, server_count, location_count>>
    BY DEF Stop, counts
  <2>. QED
    BY <2>1 DEF Typed, TypeOK, WalkOK
<1>2. BlockOK'
  BY DEF Typed, TypeOK, BlockOK, Stop, settings, location
<1>3. SavedOK'
  BY DEF Typed, TypeOK, SavedOK, Stop, saved
<1>4. flag_error_page_default' \in BOOLEAN /\ plain' \in BOOLEAN
  BY DEF Typed, TypeOK, Stop, settings
<1>5. ServerKnown'
  BY DEF Typed, ServerKnown, At, Stop, Stopped, counts, settings
<1>6. OneDefaultPerPort'
  BY DEF Typed, OneDefaultPerPort, Stop
<1>. QED
  BY <1>1, <1>2, <1>3, <1>4, <1>5, <1>6 DEF Typed, TypeOK

\* Reading a block saves nothing.
LEMMA BlockRead ==
  ASSUME Typed, WalkOK', BlockOK', ServerKnown', UNCHANGED <<saved, ports>>,
         flag_error_page_default' \in BOOLEAN, plain' \in BOOLEAN
  PROVE  Typed'
<1>1. UNCHANGED <<locations, cgis, ports>>
  BY DEF saved
<1>2. SavedOK' /\ OneDefaultPerPort'
  BY <1>1 DEF Typed, TypeOK, SavedOK, OneDefaultPerPort
<1>. QED
  BY <1>2 DEF Typed, TypeOK

LEMMA conf_endline_Typed == Typed /\ UNCHANGED file /\ conf_endline => Typed'
<1>. SUFFICES ASSUME Typed, UNCHANGED file, conf_endline PROVE Typed'
  OBVIOUS
<1>1. WalkOK'
  BY DEF Typed, TypeOK, WalkOK, conf_endline, AfterEndline, Goto, States, Lexemes, counts
<1>2. BlockOK'
  BY DEF Typed, TypeOK, BlockOK, conf_endline, settings, location
<1>3. ServerKnown'
  <2>1. /\ state' = "conf_start"
        /\ next_state' \in {"conf_waiting_default_value", "conf_waiting_location_value"}
        /\ UNCHANGED <<flag_default_part, server_info, server_count>>
    BY DEF conf_endline, Goto, AfterEndline, counts, settings
  <2>. QED
    BY <2>1 DEF Typed, ServerKnown, At
<1>4. /\ UNCHANGED <<saved, ports>>
      /\ flag_error_page_default' \in BOOLEAN /\ plain' \in BOOLEAN
  BY DEF Typed, TypeOK, conf_endline, settings
<1>. QED
  BY <1>1, <1>2, <1>3, <1>4, BlockRead

LEMMA conf_waiting_default_value_Typed == Typed /\ UNCHANGED file /\ conf_waiting_default_value => Typed'
<1>. SUFFICES ASSUME Typed, UNCHANGED file, conf_waiting_default_value PROVE Typed'
  OBVIOUS
<1>1. WalkOK'
  BY DEF Typed, TypeOK, WalkOK, conf_waiting_default_value, Goto, States, Lexemes, counts
<1>2. BlockOK'
  BY DEF Typed, TypeOK, BlockOK, conf_waiting_default_value, settings, location
<1>3. ServerKnown'
  BY DEF Typed, ServerKnown, At, conf_waiting_default_value, Goto, counts, settings
<1>4. /\ UNCHANGED <<saved, ports>>
      /\ flag_error_page_default' \in BOOLEAN /\ plain' \in BOOLEAN
  BY DEF Typed, TypeOK, conf_waiting_default_value, settings
<1>. QED
  BY <1>1, <1>2, <1>3, <1>4, BlockRead

LEMMA conf_main_root_Typed == Typed /\ UNCHANGED file /\ conf_main_root => Typed'
<1>. SUFFICES ASSUME Typed, UNCHANGED file, conf_main_root PROVE Typed'
  OBVIOUS
<1>1. WalkOK'
  BY DEF Typed, TypeOK, WalkOK, conf_main_root, Goto, Value, States, Lexemes, counts
<1>2. BlockOK'
  BY DEF Typed, TypeOK, BlockOK, conf_main_root, location
<1>3. ServerKnown'
  BY DEF Typed, ServerKnown, At, conf_main_root, Goto, Value, counts
<1>4. /\ UNCHANGED <<saved, ports>>
      /\ flag_error_page_default' \in BOOLEAN /\ plain' \in BOOLEAN
  BY DEF Typed, TypeOK, conf_main_root, settings
<1>. QED
  BY <1>1, <1>2, <1>3, <1>4, BlockRead

LEMMA conf_listen_Typed == Typed /\ UNCHANGED file /\ conf_listen => Typed'
<1>. SUFFICES ASSUME Typed, UNCHANGED file, conf_listen PROVE Typed'
  OBVIOUS
<1>1. WalkOK'
  BY DEF Typed, TypeOK, WalkOK, conf_listen, Goto, States, Lexemes, counts
<1>2. BlockOK'
  BY FileTyped DEF Typed, TypeOK, WalkOK, BlockOK, conf_listen, location
<1>3. ServerKnown'
  BY FileTyped DEF Typed, TypeOK, WalkOK, BlockOK, ServerKnown, At, conf_listen, Goto, counts
<1>4. /\ UNCHANGED <<saved, ports>>
      /\ flag_error_page_default' \in BOOLEAN /\ plain' \in BOOLEAN
  BY DEF Typed, TypeOK, conf_listen, settings
<1>. QED
  BY <1>1, <1>2, <1>3, <1>4, BlockRead

LEMMA conf_listen_default_Typed == Typed /\ UNCHANGED file /\ conf_listen_default => Typed'
<1>. SUFFICES ASSUME Typed, UNCHANGED file, conf_listen_default PROVE Typed'
  OBVIOUS
<1>1. WalkOK'
  BY DEF Typed, TypeOK, WalkOK, conf_listen_default, Goto, Value, States, Lexemes, counts
<1>2. BlockOK'
  BY DEF Typed, TypeOK, BlockOK, conf_listen_default, location
<1>3. ServerKnown'
  BY DEF Typed, TypeOK, BlockOK, ServerKnown, At, conf_listen_default, Goto, Value, counts
<1>4. /\ UNCHANGED <<saved, ports>>
      /\ flag_error_page_default' \in BOOLEAN /\ plain' \in BOOLEAN
  BY DEF Typed, TypeOK, conf_listen_default, settings
<1>. QED
  BY <1>1, <1>2, <1>3, <1>4, BlockRead

LEMMA conf_server_name_Typed == Typed /\ UNCHANGED file /\ conf_server_name => Typed'
<1>. SUFFICES ASSUME Typed, UNCHANGED file, conf_server_name PROVE Typed'
  OBVIOUS
<1>1. WalkOK'
  BY DEF Typed, TypeOK, WalkOK, conf_server_name, Goto, Value, States, Lexemes, counts
<1>2. BlockOK'
  BY DEF Typed, TypeOK, BlockOK, conf_server_name, location
<1>3. ServerKnown'
  BY DEF Typed, TypeOK, BlockOK, ServerKnown, At, conf_server_name, Goto, Value, counts
<1>4. /\ UNCHANGED <<saved, ports>>
      /\ flag_error_page_default' \in BOOLEAN /\ plain' \in BOOLEAN
  BY DEF Typed, TypeOK, conf_server_name, settings
<1>. QED
  BY <1>1, <1>2, <1>3, <1>4, BlockRead

LEMMA conf_error_page_number_Typed == Typed /\ UNCHANGED file /\ conf_error_page_number => Typed'
<1>. SUFFICES ASSUME Typed, UNCHANGED file, conf_error_page_number PROVE Typed'
  OBVIOUS
<1>1. WalkOK'
  BY DEF Typed, TypeOK, WalkOK, conf_error_page_number, Goto, States, Lexemes, counts
<1>2. BlockOK'
  <2>1. UNCHANGED <<flag_default_part, flag_location_part, server_info, uri_location, error_pages>>
    BY DEF conf_error_page_number, location
  <2>2. error_numbers' = error_numbers \/ \E n \in Numbers : error_numbers' = Append(error_numbers, n)
    BY DEF conf_error_page_number
  <2>3. error_numbers \in Seq(Numbers)
    BY DEF Typed, TypeOK, BlockOK
  <2>4. error_numbers' \in Seq(Numbers)
    BY <2>2, <2>3
  <2>. QED
    BY <2>1, <2>4 DEF Typed, TypeOK, BlockOK
<1>3. ServerKnown'
  BY DEF Typed, ServerKnown, At, conf_error_page_number, Goto, counts
<1>4. /\ UNCHANGED <<saved, ports>>
      /\ flag_error_page_default' \in BOOLEAN /\ plain' \in BOOLEAN
  BY DEF Typed, TypeOK, conf_error_page_number, settings
<1>. QED
  BY <1>1, <1>2, <1>3, <1>4, BlockRead

LEMMA conf_error_page_Typed == Typed /\ UNCHANGED file /\ conf_error_page => Typed'
<1>. SUFFICES ASSUME Typed, UNCHANGED file, conf_error_page PROVE Typed'
  OBVIOUS
<1>1. WalkOK'
  BY DEF Typed, TypeOK, WalkOK, conf_error_page, Goto, Value, States, Lexemes, counts
<1>2. BlockOK'
  <2>1. /\ flag_default_part' = flag_default_part \/ flag_default_part' = flag_default_part \cup {"error_page"}
        /\ UNCHANGED <<flag_location_part, server_info, uri_location>>
        /\ error_numbers' = <<>>
        /\ error_pages' = error_pages \cup {error_numbers[i] : i \in DOMAIN error_numbers}
    BY DEF conf_error_page, location
  <2>2. error_numbers \in Seq(Numbers)
    BY DEF Typed, TypeOK, BlockOK
  <2>3. error_pages \subseteq Numbers
    BY DEF Typed, TypeOK, BlockOK
  <2>4. error_numbers' \in Seq(Numbers) /\ error_pages' \subseteq Numbers
    BY <2>1, <2>2, <2>3
  <2>. QED
    BY <2>1, <2>4 DEF Typed, TypeOK, BlockOK
<1>3. ServerKnown'
  BY DEF Typed, ServerKnown, At, conf_error_page, Goto, Value, counts
<1>4. /\ UNCHANGED <<saved, ports>>
      /\ flag_error_page_default' \in BOOLEAN /\ plain' \in BOOLEAN
  BY DEF Typed, TypeOK, conf_error_page, settings
<1>. QED
  BY <1>1, <1>2, <1>3, <1>4, BlockRead

LEMMA conf_location_uri_Typed == Typed /\ UNCHANGED file /\ conf_location_uri => Typed'
<1>. SUFFICES ASSUME Typed, UNCHANGED file, conf_location_uri PROVE Typed'
  OBVIOUS
<1>1. WalkOK'
  BY DEF Typed, TypeOK, WalkOK, conf_location_uri, Goto, States, Lexemes, counts
<1>2. BlockOK'
  BY FileTyped DEF Typed, TypeOK, WalkOK, BlockOK, conf_location_uri
<1>3. ServerKnown'
  BY FileTyped DEF Typed, TypeOK, WalkOK, BlockOK, ServerKnown, At, conf_location_uri, Goto, counts
<1>4. /\ UNCHANGED <<saved, ports>>
      /\ flag_error_page_default' \in BOOLEAN /\ plain' \in BOOLEAN
  BY DEF Typed, TypeOK, conf_location_uri, settings
<1>. QED
  BY <1>1, <1>2, <1>3, <1>4, BlockRead

LEMMA conf_location_CB_open_Typed == Typed /\ UNCHANGED file /\ conf_location_CB_open => Typed'
<1>. SUFFICES ASSUME Typed, UNCHANGED file, conf_location_CB_open PROVE Typed'
  OBVIOUS
<1>1. WalkOK'
  <2>1. /\ location_count < file.locations /\ location_count' = location_count + 1
        /\ it' = Lexemes /\ UNCHANGED server_count
        /\ state' = "conf_start" /\ prev_state' = state /\ next_state' = "conf_waiting_location_value"
        /\ state = "conf_location_CB_open"
    BY DEF conf_location_CB_open, Goto
  <2>. QED
    BY <2>1, FileTyped DEF Typed, TypeOK, WalkOK, States
<1>2. BlockOK'
  BY DEF Typed, TypeOK, BlockOK, conf_location_CB_open, settings, location
<1>3. ServerKnown'
  BY DEF Typed, ServerKnown, At, conf_location_CB_open, Goto, settings
<1>4. /\ UNCHANGED <<saved, ports>>
      /\ flag_error_page_default' \in BOOLEAN /\ plain' \in BOOLEAN
  BY DEF Typed, TypeOK, conf_location_CB_open, settings
<1>. QED
  BY <1>1, <1>2, <1>3, <1>4, BlockRead

LEMMA conf_location_CB_close_Typed == Typed /\ UNCHANGED file /\ conf_location_CB_close => Typed'
<1>. SUFFICES ASSUME Typed, UNCHANGED file, conf_location_CB_close PROVE Typed'
  OBVIOUS
<1>1. WalkOK'
  BY DEF Typed, TypeOK, WalkOK, conf_location_CB_close, Goto, States, Lexemes, counts
<1>2. BlockOK'
  BY DEF Typed, TypeOK, BlockOK, conf_location_CB_close, settings, location
<1>3. ServerKnown'
  BY DEF Typed, ServerKnown, At, conf_location_CB_close, Goto, counts, settings
<1>4. /\ UNCHANGED <<saved, ports>>
      /\ flag_error_page_default' \in BOOLEAN /\ plain' \in BOOLEAN
  BY DEF Typed, TypeOK, conf_location_CB_close, settings
<1>. QED
  BY <1>1, <1>2, <1>3, <1>4, BlockRead

LEMMA conf_waiting_location_value_Typed == Typed /\ UNCHANGED file /\ conf_waiting_location_value => Typed'
<1>. SUFFICES ASSUME Typed, UNCHANGED file, conf_waiting_location_value PROVE Typed'
  OBVIOUS
<1>1. WalkOK'
  <2>1. /\ it' = {"ws"} \/ it' = it
        /\ UNCHANGED <<server_count, location_count>>
        /\ prev_state' = "conf_waiting_location_value"
        /\ \/ state' = "conf_start" /\ next_state' \in LocationLevel \ {"conf_location_zero"}
           \/ state' = "conf_location_CB_close" /\ next_state' = "conf_start"
    BY ValueStates DEF conf_waiting_location_value, Goto, counts
  <2>. QED
    BY <2>1 DEF Typed, TypeOK, WalkOK, States, Lexemes, LocationLevel
<1>2. BlockOK'
  BY DEF Typed, TypeOK, BlockOK, conf_waiting_location_value, settings, location
<1>3. ServerKnown'
  <2>1. /\ it' = {"ws"} \/ it' = it
        /\ UNCHANGED <<server_count, flag_default_part, server_info>>
        /\ prev_state' = "conf_waiting_location_value"
        /\ \/ state' = "conf_start" /\ next_state' \in LocationLevel \ {"conf_location_zero"}
           \/ state' = "conf_location_CB_close" /\ next_state' = "conf_start"
    BY ValueStates DEF conf_waiting_location_value, Goto, counts, settings
  <2>. QED
    BY <2>1 DEF Typed, ServerKnown, At, LocationLevel
<1>4. /\ UNCHANGED <<saved, ports>>
      /\ flag_error_page_default' \in BOOLEAN /\ plain' \in BOOLEAN
  BY DEF Typed, TypeOK, conf_waiting_location_value, settings
<1>. QED
  BY <1>1, <1>2, <1>3, <1>4, BlockRead

LEMMA conf_location_value_Typed == Typed /\ UNCHANGED file /\ conf_location_value => Typed'
<1>. SUFFICES ASSUME Typed, UNCHANGED file, conf_location_value PROVE Typed'
  OBVIOUS
<1>1. WalkOK'
  BY DEF Typed, TypeOK, WalkOK, conf_location_value, ValueState, Goto, Value, States, Lexemes, counts
<1>2. BlockOK'
  BY DEF Typed, TypeOK, BlockOK, conf_location_value, settings, LocationWords
<1>3. ServerKnown'
  BY DEF Typed, ServerKnown, At, conf_location_value, ValueState, Goto, Value, counts, settings
<1>4. /\ UNCHANGED <<saved, ports>>
      /\ flag_error_page_default' \in BOOLEAN /\ plain' \in BOOLEAN
  BY DEF Typed, TypeOK, conf_location_value, settings
<1>. QED
  BY <1>1, <1>2, <1>3, <1>4, BlockRead

LEMMA conf_saved_path_Typed == Typed /\ UNCHANGED file /\ conf_saved_path => Typed'
<1>. SUFFICES ASSUME Typed, UNCHANGED file, conf_saved_path PROVE Typed'
  OBVIOUS
<1>1. WalkOK'
  BY DEF Typed, TypeOK, WalkOK, conf_saved_path, Goto, Value, States, Lexemes, counts
<1>2. BlockOK'
  BY DEF Typed, TypeOK, BlockOK, conf_saved_path, settings, LocationWords
<1>3. ServerKnown'
  BY DEF Typed, TypeOK, BlockOK, ServerKnown, At, conf_saved_path, Goto, Value, counts, settings
<1>4. /\ UNCHANGED <<saved, ports>>
      /\ flag_error_page_default' \in BOOLEAN /\ plain' \in BOOLEAN
  BY DEF Typed, TypeOK, conf_saved_path, settings
<1>. QED
  BY <1>1, <1>2, <1>3, <1>4, BlockRead

LEMMA conf_accepted_methods_Typed == Typed /\ UNCHANGED file /\ conf_accepted_methods => Typed'
<1>. SUFFICES ASSUME Typed, UNCHANGED file, conf_accepted_methods PROVE Typed'
  OBVIOUS
<1>1. WalkOK'
  BY DEF Typed, TypeOK, WalkOK, conf_accepted_methods, Goto, Value, States, Lexemes, counts
<1>2. BlockOK'
  <2>1. /\ flag_location_part' = flag_location_part \cup {"accepted_methods"}
        /\ UNCHANGED <<flag_default_part, server_info, error_numbers, error_pages>>
    BY DEF conf_accepted_methods, settings
  <2>2. \E ms \in SUBSET Methods : uri_location' = [uri_location EXCEPT !.methods = ms]
    BY DEF conf_accepted_methods, Typed, TypeOK, BlockOK
  <2>. QED
    BY <2>1, <2>2 DEF Typed, TypeOK, BlockOK, LocationWords
<1>3. ServerKnown'
  BY DEF Typed, TypeOK, BlockOK, ServerKnown, At, conf_accepted_methods, Goto, Value, counts, settings
<1>4. /\ UNCHANGED <<saved, ports>>
      /\ flag_error_page_default' \in BOOLEAN /\ plain' \in BOOLEAN
  BY DEF Typed, TypeOK, conf_accepted_methods, settings
<1>. QED
  BY <1>1, <1>2, <1>3, <1>4, BlockRead

LEMMA conf_redirect_Typed == Typed /\ UNCHANGED file /\ conf_redirect => Typed'
<1>. SUFFICES ASSUME Typed, UNCHANGED file, conf_redirect PROVE Typed'
  OBVIOUS
<1>1. WalkOK'
  BY DEF Typed, TypeOK, WalkOK, conf_redirect, Goto, Value, States, Lexemes, counts
<1>2. BlockOK'
  BY FileTyped DEF Typed, TypeOK, WalkOK, BlockOK, conf_redirect, settings, LocationWords
<1>3. ServerKnown'
  BY DEF Typed, ServerKnown, At, conf_redirect, Goto, Value, counts, settings
<1>4. /\ UNCHANGED <<saved, ports>>
      /\ flag_error_page_default' \in BOOLEAN /\ plain' \in BOOLEAN
  BY DEF Typed, TypeOK, conf_redirect, settings
<1>. QED
  BY <1>1, <1>2, <1>3, <1>4, BlockRead

-----------------------------------------------------------------------------
(* Actions that may end the walk, and the one that saves a server.           *)

LEMMA conf_start_Typed == Typed /\ UNCHANGED file /\ conf_start => Typed'
<1>. SUFFICES ASSUME Typed, UNCHANGED file, conf_start PROVE Typed'
  OBVIOUS
<1>1. WalkOK'
  <2>1. /\ it' \subseteq Lexemes
        /\ UNCHANGED <<next_state, server_count, location_count>>
        /\ prev_state' \in {prev_state, next_state}
        /\ state' \in {state, next_state, "conf_endline"}
    BY DEF conf_start, counts, Reached, Typed, TypeOK, WalkOK, Lexemes
  <2>. QED
    BY <2>1 DEF Typed, TypeOK, WalkOK, States
<1>2. BlockOK' /\ SavedOK' /\ flag_error_page_default' \in BOOLEAN /\ plain' \in BOOLEAN
  BY DEF conf_start, Typed, TypeOK, BlockOK, SavedOK, settings, location, saved
<1>3. ServerKnown'
  <2>1. /\ state' \in {next_state, "conf_start"} \/ (state' = "conf_endline" /\ prev_state' = next_state)
        /\ UNCHANGED <<next_state, server_count, location_count, flag_default_part, server_info>>
        /\ state = "conf_start"
    BY DEF conf_start, counts, settings
  <2>2. At' = At
    BY <2>1 DEF At, Typed, ServerKnown
  <2>. QED
    BY <2>1, <2>2 DEF Typed, ServerKnown
<1>4. OneDefaultPerPort'
  BY DEF Typed, OneDefaultPerPort, conf_start
<1>. QED
  BY <1>1, <1>2, <1>3, <1>4 DEF Typed, TypeOK

LEMMA conf_start_ends_Typed == Typed /\ UNCHANGED file /\ conf_start_ends => Typed'
  BY ErrorTyped, StopTyped DEF conf_start_ends, Typed, TypeOK, Stopped

LEMMA Refuse_Typed == Typed /\ UNCHANGED file /\ Refuse => Typed'
  BY ErrorTyped DEF Refuse, Typed, TypeOK

LEMMA conf_server_Typed == Typed /\ UNCHANGED file /\ conf_server => Typed'
<1>. SUFFICES ASSUME Typed, UNCHANGED file, conf_server PROVE Typed'
  OBVIOUS
<1>1. CASE Error
  BY <1>1, ErrorTyped DEF Typed, TypeOK
<1>2. CASE Stop("conf_done")
  BY <1>2, StopTyped DEF Stopped
<1>3. ASSUME server_count < file.servers, it' = Lexemes, state = "conf_server",
             Goto("conf_start", "conf_server_CB_open"),
             UNCHANGED <<counts, settings, location, saved, ports, plain>>
      PROVE  Typed'
  <2>1. WalkOK'
    BY <1>3 DEF Typed, TypeOK, WalkOK, Goto, States, counts
  <2>2. BlockOK' /\ SavedOK' /\ flag_error_page_default' \in BOOLEAN /\ plain' \in BOOLEAN
    BY <1>3 DEF Typed, TypeOK, BlockOK, SavedOK, settings, location, saved
  <2>3. ServerKnown' /\ OneDefaultPerPort'
    BY <1>3 DEF Typed, ServerKnown, OneDefaultPerPort, At, Goto, counts, settings
  <2>. QED
    BY <2>1, <2>2, <2>3 DEF Typed, TypeOK
<1>. QED
  BY <1>1, <1>2, <1>3 DEF conf_server

LEMMA conf_server_CB_open_Typed == Typed /\ UNCHANGED file /\ conf_server_CB_open => Typed'
<1>. SUFFICES ASSUME Typed, UNCHANGED file, conf_server_CB_open PROVE Typed'
  OBVIOUS
<1>1. CASE Error
  BY <1>1, ErrorTyped DEF Typed, TypeOK
<1>2. ASSUME it' = Lexemes, state = "conf_server_CB_open",
             Goto("conf_start", "conf_waiting_default_value"), server_count' = server_count + 1,
             UNCHANGED <<location_count, settings, location, saved, ports, plain>>
      PROVE  Typed'
  <2>1. server_count < file.servers
    BY <1>2 DEF Typed, ServerKnown, At
  <2>2. WalkOK'
    BY <1>2, <2>1, FileTyped DEF Typed, TypeOK, WalkOK, Goto, States
  <2>3. BlockOK' /\ SavedOK' /\ flag_error_page_default' \in BOOLEAN /\ plain' \in BOOLEAN
    BY <1>2 DEF Typed, TypeOK, BlockOK, SavedOK, settings, location, saved
  <2>4. ServerKnown' /\ OneDefaultPerPort'
    BY <1>2 DEF Typed, ServerKnown, OneDefaultPerPort, At, Goto, settings
  <2>. QED
    BY <2>2, <2>3, <2>4 DEF Typed, TypeOK
<1>. QED
  BY <1>1, <1>2 DEF conf_server_CB_open

LEMMA conf_server_CB_close_Typed == Typed /\ UNCHANGED file /\ conf_server_CB_close => Typed'
<1>. SUFFICES ASSUME Typed, UNCHANGED file, conf_server_CB_close PROVE Typed'
  OBVIOUS
<1>1. CASE Error
  BY <1>1, ErrorTyped DEF Typed, TypeOK
<1>2. ASSUME "listen" \in flag_default_part, it' = Lexemes, Goto("conf_zero", "conf_start"),
             UNCHANGED <<counts, settings, location, saved, ports, plain>>
      PROVE  Typed'
  <2>1. WalkOK'
    BY <1>2 DEF Typed, TypeOK, WalkOK, Goto, States, Stopped, counts, conf_server_CB_close
  <2>2. BlockOK' /\ SavedOK' /\ flag_error_page_default' \in BOOLEAN /\ plain' \in BOOLEAN
    BY <1>2 DEF Typed, TypeOK, BlockOK, SavedOK, settings, location, saved
  <2>3. ServerKnown' /\ OneDefaultPerPort'
    BY <1>2 DEF Typed, ServerKnown, OneDefaultPerPort, At, Goto, counts, settings
  <2>. QED
    BY <2>1, <2>2, <2>3 DEF Typed, TypeOK
<1>. QED
  BY <1>1, <1>2 DEF conf_server_CB_close

LEMMA conf_location_zero_Typed == Typed /\ UNCHANGED file /\ conf_location_zero => Typed'
<1>. SUFFICES ASSUME Typed, UNCHANGED file, conf_location_zero PROVE Typed'
  OBVIOUS
<1>1. CASE Stop("thrown")
  BY <1>1, StopTyped DEF Stopped
<1>2. ASSUME conf_location_zero_saves, flag_location_part' = {}, uri_location' = NewLocation,
             Goto(next_state, "conf_waiting_default_value"), state = "conf_location_zero",
             UNCHANGED <<it, counts, settings, ports, plain>>
      PROVE  Typed'
  <2>1. WalkOK'
    BY <1>2 DEF Typed, TypeOK, WalkOK, Goto, States, counts
  <2>2. BlockOK'
    BY <1>2 DEF Typed, TypeOK, BlockOK, NewLocation, settings
  <2>3. SavedOK'
    BY <1>2 DEF Typed, TypeOK, SavedOK, conf_location_zero_saves, Insert, saved
  <2>4. flag_error_page_default' \in BOOLEAN /\ plain' \in BOOLEAN
    BY <1>2 DEF Typed, TypeOK, settings
  <2>5. ServerKnown' /\ OneDefaultPerPort'
    BY <1>2 DEF Typed, ServerKnown, OneDefaultPerPort, At, Goto, counts, settings
  <2>. QED
    BY <2>1, <2>2, <2>3, <2>4, <2>5 DEF Typed, TypeOK
<1>. QED
  BY <1>1, <1>2 DEF conf_location_zero

\* A server saved on a new port is its default server; one saved beside others
\* is not.
LEMMA SavedServer ==
  ASSUME SavedOK, OneDefaultPerPort, ServerKnown, "listen" \in flag_default_part, conf_zero_saves
  PROVE  /\ DOMAIN ports' \subseteq Ports
         /\ \A q \in DOMAIN ports' : DOMAIN ports'[q] \subseteq Names \cup {"localhost"}
         /\ OneDefaultPerPort'
<1>. DEFINE p    == server_info.port
            here == IF p \in DOMAIN ports THEN ports[p] ELSE Empty
            new  == [default |-> BecomesDefault, locations |-> locations, cgis |-> cgis]
<1>1. /\ ports' = Insert(ports, p, Insert(here, ServerName, new))
      /\ ServerName \notin DOMAIN here
      /\ p \in DOMAIN ports => BecomesDefault = FALSE
      /\ p \notin DOMAIN ports => BecomesDefault = TRUE
  BY Zenon DEF conf_zero_saves, BecomesDefault
<1>2. p \in Ports /\ ServerName \in Names \cup {"localhost"}
  BY DEF ServerKnown, ServerName
<1>3. /\ DOMAIN ports' = DOMAIN ports \cup {p}
      /\ \A q \in DOMAIN ports \ {p} : ports'[q] = ports[q]
      /\ ports'[p] = Insert(here, ServerName, new)
  BY <1>1 DEF Insert
<1>4. /\ DOMAIN ports'[p] = DOMAIN here \cup {ServerName}
      /\ \A n \in DOMAIN here : ports'[p][n] = here[n]
      /\ ports'[p][ServerName] = new
  BY <1>1, <1>3 DEF Insert
<1>5. DOMAIN ports' \subseteq Ports
  BY <1>2, <1>3 DEF SavedOK
<1>6. ASSUME NEW q \in DOMAIN ports'
      PROVE  DOMAIN ports'[q] \subseteq Names \cup {"localhost"}
  <2>1. DOMAIN here \subseteq Names \cup {"localhost"}
    BY DEF SavedOK, Empty
  <2>2. CASE q = p
    BY <2>1, <2>2, <1>2, <1>4
  <2>3. CASE q # p
    BY <2>3, <1>3 DEF SavedOK
  <2>. QED
    BY <2>2, <2>3
<1>7. ASSUME NEW q \in DOMAIN ports'
      PROVE  Cardinality({n \in DOMAIN ports'[q] : ports'[q][n].default}) = 1
  <2>1. CASE q # p
    BY <2>1, <1>3 DEF OneDefaultPerPort
  <2>2. CASE q = p /\ p \in DOMAIN ports
    <3>1. here = ports[p] /\ ~new.default
      BY <2>2, <1>1
    <3>2. {n \in DOMAIN ports'[p] : ports'[p][n].default} = {n \in DOMAIN ports[p] : ports[p][n].default}
      BY <3>1, <1>1, <1>4
    <3>. QED
      BY <2>2, <3>2 DEF OneDefaultPerPort
  <2>3. CASE q = p /\ p \notin DOMAIN ports
    <3>1. DOMAIN here = {} /\ new.default
      BY <2>3, <1>1 DEF Empty
    <3>2. {n \in DOMAIN ports'[p] : ports'[p][n].default} = {ServerName}
      BY <3>1, <1>4
    <3>. QED
      BY <2>3, <3>2, FS_Singleton
  <2>. QED
    BY <2>1, <2>2, <2>3
<1>8. OneDefaultPerPort'
  BY <1>7 DEF OneDefaultPerPort
<1>. QED
  BY <1>5, <1>6, <1>8

LEMMA conf_zero_Typed == Typed /\ UNCHANGED file /\ conf_zero => Typed'
<1>. SUFFICES ASSUME Typed, UNCHANGED file, conf_zero PROVE Typed'
  OBVIOUS
<1>1. CASE Error
  BY <1>1, ErrorTyped DEF Typed, TypeOK
<1>2. ASSUME (server_count = 0 /\ UNCHANGED ports) \/ (server_count # 0 /\ conf_zero_saves),
             ClearBlock, Goto(next_state, "conf_server"), UNCHANGED <<it, server_count, plain>>,
             state = "conf_zero"
      PROVE  Typed'
  <2>1. WalkOK'
    <3>1. location_count' = 0
      BY <1>2 DEF ClearBlock
    <3>. QED
      BY <1>2, <3>1, FileTyped DEF Typed, TypeOK, WalkOK, Goto, States
  <2>2. BlockOK'
    <3>1. /\ flag_default_part' = {} /\ flag_location_part' = {}
          /\ server_info' = NewServer /\ uri_location' = NewLocation
          /\ error_numbers' = <<>> /\ error_pages' = {}
      BY <1>2 DEF ClearBlock
    <3>. QED
      BY <3>1, ClearedBlock
  <2>3. DOMAIN ports' \subseteq Ports /\ (\A p \in DOMAIN ports' : DOMAIN ports'[p] \subseteq Names \cup {"localhost"})
        /\ OneDefaultPerPort'
    <3>1. CASE server_count = 0 /\ UNCHANGED ports
      BY <3>1 DEF Typed, TypeOK, SavedOK, OneDefaultPerPort
    <3>2. CASE server_count # 0 /\ conf_zero_saves
      BY <3>2, <1>2, SavedServer DEF Typed, TypeOK, SavedOK, ServerKnown
    <3>. QED
      BY <1>2, <3>1, <3>2
  <2>4. SavedOK'
    BY <1>2, <2>3 DEF ClearBlock, Empty, SavedOK
  <2>5. flag_error_page_default' \in BOOLEAN /\ plain' \in BOOLEAN
    BY <1>2 DEF Typed, TypeOK, ClearBlock
  <2>6. ServerKnown'
    BY <1>2 DEF ServerKnown, Typed, At, Goto, ClearBlock
  <2>. QED
    BY <2>1, <2>2, <2>3, <2>4, <2>5, <2>6 DEF Typed, TypeOK
<1>3. \/ Error
      \/ /\ (server_count = 0 /\ UNCHANGED ports) \/ (server_count # 0 /\ conf_zero_saves)
         /\ ClearBlock /\ Goto(next_state, "conf_server")
         /\ UNCHANGED <<it, server_count, plain>> /\ state = "conf_zero"
  BY Zenon DEF conf_zero
<1>. QED
  BY <1>1, <1>2, <1>3, Zenon

-----------------------------------------------------------------------------
(* The theorems.                                                             *)

LEMMA NextTyped == Typed /\ [Next]_vars => Typed'
<1>1. ASSUME Typed, Next PROVE Typed'
  <2>. Parse /\ UNCHANGED file
    BY <1>1 DEF Next
  <2>. QED
    BY Zenon, <1>1, conf_start_Typed, conf_start_ends_Typed, conf_endline_Typed, conf_zero_Typed,
       conf_server_Typed, conf_server_CB_open_Typed, conf_server_CB_close_Typed,
       conf_waiting_default_value_Typed, conf_main_root_Typed, conf_listen_Typed,
       conf_listen_default_Typed, conf_server_name_Typed, conf_error_page_number_Typed,
       conf_error_page_Typed, conf_location_uri_Typed, conf_location_CB_open_Typed,
       conf_location_CB_close_Typed, conf_waiting_location_value_Typed,
       conf_location_value_Typed, conf_saved_path_Typed, conf_accepted_methods_Typed,
       conf_redirect_Typed, conf_location_zero_Typed, Refuse_Typed
    DEF Parse
<1>2. ASSUME Typed, UNCHANGED vars PROVE Typed'
  <2>1. WalkOK'
    BY <1>2 DEF Typed, TypeOK, WalkOK, vars, counts
  <2>2. BlockOK'
    BY <1>2 DEF Typed, TypeOK, BlockOK, vars, settings, location
  <2>3. SavedOK' /\ flag_error_page_default' \in BOOLEAN /\ plain' \in BOOLEAN
    BY <1>2 DEF Typed, TypeOK, SavedOK, vars, settings, saved
  <2>4. ServerKnown' /\ OneDefaultPerPort'
    BY <1>2 DEF Typed, ServerKnown, OneDefaultPerPort, At, vars, counts, settings
  <2>. QED
    BY <2>1, <2>2, <2>3, <2>4 DEF Typed, TypeOK
<1>. QED
  BY <1>1, <1>2

LEMMA InitTyped == Init => Typed
<1>. SUFFICES ASSUME Init PROVE Typed
  OBVIOUS
<1>1. WalkOK
  <2>1. file.servers \in Nat /\ file.locations \in Nat
    BY FileTyped DEF Init
  <2>2. /\ file \in Files /\ it = Lexemes
        /\ state = "conf_zero" /\ prev_state = "conf_zero" /\ next_state = "conf_start"
        /\ server_count = 0 /\ location_count = 0
    BY DEF Init
  <2>3. state \in States \cup Stopped /\ prev_state \in States /\ next_state \in States
    BY <2>2 DEF States
  <2>. QED
    BY <2>1, <2>2, <2>3 DEF WalkOK
<1>2. BlockOK
  <2>1. error_numbers \in Seq(Numbers)
    BY DEF Init
  <2>. QED
    BY <2>1 DEF Init, BlockOK, NewServer, NewLocation
<1>3. SavedOK /\ OneDefaultPerPort
  BY DEF Init, SavedOK, OneDefaultPerPort, Empty
<1>4. flag_error_page_default \in BOOLEAN /\ plain \in BOOLEAN
  BY DEF Init
<1>5. ServerKnown
  BY DEF Init, ServerKnown, At
<1>. QED
  BY <1>1, <1>2, <1>3, <1>4, <1>5 DEF Typed, TypeOK

\* Every state of the parser has the types its variables are declared with.
THEOREM TypeCorrect == Spec => []TypeOK
<1>1. Typed => TypeOK
  BY DEF Typed
<1>. QED
  BY <1>1, InitTyped, NextTyped, PTL DEF Spec

\* On every port that any configuration file names, one server block is the
\* default server, however the blocks of the ports are mixed.
THEOREM OneDefault == Spec => []OneDefaultPerPort
<1>1. Typed => OneDefaultPerPort
  BY DEF Typed
<1>. QED
  BY <1>1, InitTyped, NextTyped, PTL DEF Spec

-----------------------------------------------------------------------------
(* What a finished file holds.                                               *)

Zone == IF At \in LocationLevel THEN "location"
        ELSE IF At = "conf_location_CB_open" THEN "open"
        ELSE IF state \in Stopped THEN "stopped" ELSE "server"

\* The redirect being read does not lead back, none is left over when a location
\* is opened, and no two saved locations lead to each other.
Redirected ==
  /\ uri_location.redirect # "" => ~LeadsBack(uri_location.redirect)
  /\ Zone \in {"server", "open"} => uri_location.redirect = ""
  /\ NoRedirectPair

ProgramsNamed(list) == \A e \in DOMAIN list : {"cgi_pass", "cgi_path_info"} \subseteq list[e]

ServerComplete(server) == "/" \in DOMAIN server.locations /\ ProgramsNamed(server.cgis)

\* A root location that was seen is saved, or is the one being read; a location
\* being read is counted and has its URI; the servers saved are complete.
RootSaved ==
  /\ "root_slash" \in flag_default_part =>
       \/ "/" \in DOMAIN locations
       \/ uri_location.uri = "/" /\ Zone \in {"open", "location"}
       \/ Zone = "stopped"
  /\ Zone \in {"open", "location"} => uri_location.uri \in Uris
  /\ Zone = "location" => location_count # 0
  /\ \A p \in DOMAIN ports : \A n \in DOMAIN ports[p] : ServerComplete(ports[p][n])
  /\ state # "thrown"

Complete == ProgramsNamed(cgis) /\ (plain => RootSaved)

Walked == Redirected /\ Complete

\* What most actions do: nothing is saved, and the location read stays itself.
Kept ==
  /\ UNCHANGED <<locations, cgis, ports, location_count>>
  /\ uri_location'.uri = uri_location.uri /\ uri_location'.redirect = uri_location.redirect
  /\ "root_slash" \in flag_default_part' => "root_slash" \in flag_default_part
  /\ Zone' = Zone \/ (Zone' = "location" /\ ~plain')
  /\ plain' => plain
  /\ state' # "thrown"

LEMMA KeptWalked == Typed /\ Walked /\ Kept => Walked'
<1>. SUFFICES ASSUME Typed, Walked, Kept PROVE Walked'
  OBVIOUS
<1>1. Redirected'
  BY DEF Walked, Redirected, Kept, LeadsBack, Resolved, NoRedirectPair
<1>2. ProgramsNamed(cgis)'
  BY DEF Walked, Complete, Kept, ProgramsNamed
<1>3. ASSUME plain' PROVE RootSaved'
  <2>1. plain /\ RootSaved /\ Zone' = Zone /\ state' # "thrown"
    BY <1>3 DEF Walked, Complete, Kept
  <2>2. UNCHANGED <<locations, ports, location_count, uri_location.uri>>
    BY DEF Kept
  <2>3. "root_slash" \in flag_default_part' => "root_slash" \in flag_default_part
    BY DEF Kept
  <2>. QED
    BY <2>1, <2>2, <2>3 DEF RootSaved
<1>. QED
  BY <1>1, <1>2, <1>3 DEF Walked, Complete

\* An error forgets everything.
LEMMA ErrorWalked == Error => Walked'
<1>. SUFFICES ASSUME Error PROVE Walked'
  OBVIOUS
<1>1. /\ state' = "error" /\ locations' = Empty /\ cgis' = Empty /\ ports' = Empty
      /\ flag_default_part' = {} /\ uri_location' = NewLocation
  BY DEF Error, ClearBlock
<1>2. Zone' = "stopped"
  BY <1>1 DEF Zone, At, LocationLevel, Stopped
<1>3. Redirected'
  BY <1>1, <1>2 DEF Redirected, NewLocation, NoRedirectPair, Empty
<1>4. ProgramsNamed(cgis)' /\ RootSaved'
  BY <1>1, <1>2 DEF ProgramsNamed, RootSaved, Empty
<1>. QED
  BY <1>3, <1>4 DEF Walked, Complete

LEMMA StopWalked ==
  ASSUME Typed, Walked, NEW outcome \in Stopped, Stop(outcome), outcome = "thrown" => ~plain
  PROVE  Walked'
<1>1. /\ state' = outcome
      /\ UNCHANGED <<locations, cgis, ports, flag_default_part, uri_location, plain>>
  BY DEF Stop, settings, location, saved
<1>2. Zone' = "stopped"
  BY <1>1 DEF Zone, At, LocationLevel, Stopped
<1>3. Redirected'
  BY <1>1, <1>2 DEF Walked, Redirected, LeadsBack, Resolved, NoRedirectPair
<1>4. ProgramsNamed(cgis)'
  BY <1>1 DEF Walked, Complete, ProgramsNamed
<1>5. plain' => RootSaved'
  <2>1. plain' => plain /\ RootSaved /\ state' # "thrown"
    BY <1>1 DEF Walked, Complete
  <2>. QED
    BY <1>1, <1>2, <2>1 DEF RootSaved
<1>. QED
  BY <1>3, <1>4, <1>5 DEF Walked, Complete

\* The actions that read one lexeme or one value.
Reads ==
  \/ conf_main_root \/ conf_listen \/ conf_listen_default \/ conf_server_name
  \/ conf_error_page_number \/ conf_error_page \/ conf_waiting_default_value
  \/ conf_waiting_location_value \/ conf_location_CB_close
  \/ conf_location_value \/ conf_saved_path \/ conf_accepted_methods

LEMMA ReadsKept == Typed /\ Reads => Kept
<1>. SUFFICES ASSUME Typed, Reads PROVE Kept
  OBVIOUS
<1>1. CASE conf_main_root
  <2>1. /\ UNCHANGED <<locations, cgis, ports, location_count>>
        /\ uri_location'.uri = uri_location.uri /\ uri_location'.redirect = uri_location.redirect
        /\ "root_slash" \in flag_default_part' => "root_slash" \in flag_default_part
    BY <1>1 DEF conf_main_root, counts, settings, location, saved, Typed, TypeOK, BlockOK
  <2>2. Zone' = Zone /\ state' # "thrown"
    BY <1>1 DEF conf_main_root, Goto, Value, Zone, At, LocationLevel, Stopped
  <2>3. plain' = plain
    BY <1>1, Zenon DEF conf_main_root
  <2>. QED
    BY <2>1, <2>2, <2>3 DEF Kept
<1>2. CASE conf_listen
  <2>1. /\ UNCHANGED <<locations, cgis, ports, location_count>>
        /\ uri_location'.uri = uri_location.uri /\ uri_location'.redirect = uri_location.redirect
        /\ "root_slash" \in flag_default_part' => "root_slash" \in flag_default_part
    BY <1>2 DEF conf_listen, counts, settings, location, saved, Typed, TypeOK, BlockOK
  <2>2. Zone' = Zone /\ state' # "thrown"
    BY <1>2 DEF conf_listen, Goto, Value, Zone, At, LocationLevel, Stopped
  <2>3. plain' = plain
    BY <1>2, Zenon DEF conf_listen
  <2>. QED
    BY <2>1, <2>2, <2>3 DEF Kept
<1>3. CASE conf_listen_default
  <2>1. /\ UNCHANGED <<locations, cgis, ports, location_count>>
        /\ uri_location'.uri = uri_location.uri /\ uri_location'.redirect = uri_location.redirect
        /\ "root_slash" \in flag_default_part' => "root_slash" \in flag_default_part
    BY <1>3 DEF conf_listen_default, counts, settings, location, saved, Typed, TypeOK, BlockOK
  <2>2. Zone' = Zone /\ state' # "thrown"
    BY <1>3 DEF conf_listen_default, Goto, Value, Zone, At, LocationLevel, Stopped
  <2>3. plain' = plain
    BY <1>3, Zenon DEF conf_listen_default
  <2>. QED
    BY <2>1, <2>2, <2>3 DEF Kept
<1>4. CASE conf_server_name
  <2>1. /\ UNCHANGED <<locations, cgis, ports, location_count>>
        /\ uri_location'.uri = uri_location.uri /\ uri_location'.redirect = uri_location.redirect
        /\ "root_slash" \in flag_default_part' => "root_slash" \in flag_default_part
    BY <1>4 DEF conf_server_name, counts, settings, location, saved, Typed, TypeOK, BlockOK
  <2>2. Zone' = Zone /\ state' # "thrown"
    BY <1>4 DEF conf_server_name, Goto, Value, Zone, At, LocationLevel, Stopped
  <2>3. plain' = plain
    BY <1>4, Zenon DEF conf_server_name
  <2>. QED
    BY <2>1, <2>2, <2>3 DEF Kept
<1>5. CASE conf_error_page_number
  <2>1. /\ UNCHANGED <<locations, cgis, ports, location_count>>
        /\ uri_location'.uri = uri_location.uri /\ uri_location'.redirect = uri_location.redirect
        /\ "root_slash" \in flag_default_part' => "root_slash" \in flag_default_part
    BY <1>5 DEF conf_error_page_number, counts, settings, location, saved, Typed, TypeOK, BlockOK
  <2>2. Zone' = Zone /\ state' # "thrown"
    BY <1>5 DEF conf_error_page_number, Goto, Value, Zone, At, LocationLevel, Stopped
  <2>3. plain' = plain
    BY <1>5, Zenon DEF conf_error_page_number
  <2>. QED
    BY <2>1, <2>2, <2>3 DEF Kept
<1>6. CASE conf_error_page
  <2>1. /\ UNCHANGED <<locations, cgis, ports, location_count>>
        /\ uri_location'.uri = uri_location.uri /\ uri_location'.redirect = uri_location.redirect
        /\ "root_slash" \in flag_default_part' => "root_slash" \in flag_default_part
    BY <1>6 DEF conf_error_page, counts, settings, location, saved, Typed, TypeOK, BlockOK
  <2>2. Zone' = Zone /\ state' # "thrown"
    BY <1>6 DEF conf_error_page, Goto, Value, Zone, At, LocationLevel, Stopped
  <2>3. plain' = plain
    BY <1>6, Zenon DEF conf_error_page
  <2>. QED
    BY <2>1, <2>2, <2>3 DEF Kept
<1>7. CASE conf_waiting_default_value
  <2>1. /\ UNCHANGED <<locations, cgis, ports, location_count>>
        /\ uri_location'.uri = uri_location.uri /\ uri_location'.redirect = uri_location.redirect
        /\ "root_slash" \in flag_default_part' => "root_slash" \in flag_default_part
    BY <1>7 DEF conf_waiting_default_value, counts, settings, location, saved, Typed, TypeOK, BlockOK
  <2>2. Zone' = Zone /\ state' # "thrown"
    BY <1>7 DEF conf_waiting_default_value, Goto, Value, Zone, At, LocationLevel, Stopped
  <2>3. plain' = plain
    BY <1>7, Zenon DEF conf_waiting_default_value
  <2>. QED
    BY <2>1, <2>2, <2>3 DEF Kept
<1>8. CASE conf_waiting_location_value
  <2>1. /\ UNCHANGED <<locations, cgis, ports, location_count>>
        /\ uri_location'.uri = uri_location.uri /\ uri_location'.redirect = uri_location.redirect
        /\ "root_slash" \in flag_default_part' => "root_slash" \in flag_default_part
    BY <1>8 DEF conf_waiting_location_value, counts, settings, location, saved, Typed, TypeOK, BlockOK
  <2>2. Zone' = Zone /\ state' # "thrown"
    BY <1>8 DEF conf_waiting_location_value, Goto, Value, Zone, At, LocationLevel, Stopped, ValueState, LocationWords
  <2>3. plain' = plain
    BY <1>8, Zenon DEF conf_waiting_location_value
  <2>. QED
    BY <2>1, <2>2, <2>3 DEF Kept
<1>9. CASE conf_location_CB_close
  <2>1. /\ UNCHANGED <<locations, cgis, ports, location_count>>
        /\ uri_location'.uri = uri_location.uri /\ uri_location'.redirect = uri_location.redirect
        /\ "root_slash" \in flag_default_part' => "root_slash" \in flag_default_part
    BY <1>9 DEF conf_location_CB_close, counts, settings, location, saved, Typed, TypeOK, BlockOK
  <2>2. Zone' = Zone /\ state' # "thrown"
    BY <1>9 DEF conf_location_CB_close, Goto, Value, Zone, At, LocationLevel, Stopped
  <2>3. plain' = plain
    BY <1>9, Zenon DEF conf_location_CB_close
  <2>. QED
    BY <2>1, <2>2, <2>3 DEF Kept
<1>10. CASE conf_location_value
  <2>1. /\ UNCHANGED <<locations, cgis, ports, location_count>>
        /\ uri_location'.uri = uri_location.uri /\ uri_location'.redirect = uri_location.redirect
        /\ "root_slash" \in flag_default_part' => "root_slash" \in flag_default_part
    BY <1>10 DEF conf_location_value, counts, settings, location, saved, Typed, TypeOK, BlockOK
  <2>2. Zone' = Zone /\ state' # "thrown"
    BY <1>10 DEF conf_location_value, Goto, Value, Zone, At, LocationLevel, Stopped, ValueState, LocationWords
  <2>3. plain' = plain
    BY <1>10, Zenon DEF conf_location_value
  <2>. QED
    BY <2>1, <2>2, <2>3 DEF Kept
<1>11. CASE conf_saved_path
  <2>1. /\ UNCHANGED <<locations, cgis, ports, location_count>>
        /\ uri_location'.uri = uri_location.uri /\ uri_location'.redirect = uri_location.redirect
        /\ "root_slash" \in flag_default_part' => "root_slash" \in flag_default_part
    BY <1>11 DEF conf_saved_path, counts, settings, location, saved, Typed, TypeOK, BlockOK
  <2>2. Zone' = Zone /\ state' # "thrown"
    BY <1>11 DEF conf_saved_path, Goto, Value, Zone, At, LocationLevel, Stopped
  <2>3. plain' = plain
    BY <1>11, Zenon DEF conf_saved_path
  <2>. QED
    BY <2>1, <2>2, <2>3 DEF Kept
<1>12. CASE conf_accepted_methods
  <2>1. /\ UNCHANGED <<locations, cgis, ports, location_count>>
        /\ uri_location'.uri = uri_location.uri /\ uri_location'.redirect = uri_location.redirect
        /\ "root_slash" \in flag_default_part' => "root_slash" \in flag_default_part
    BY <1>12 DEF conf_accepted_methods, counts, settings, location, saved, Typed, TypeOK, BlockOK
  <2>2. Zone' = Zone /\ state' # "thrown"
    BY <1>12 DEF conf_accepted_methods, Goto, Value, Zone, At, LocationLevel, Stopped
  <2>3. plain' = plain
    BY <1>12, Zenon DEF conf_accepted_methods
  <2>. QED
    BY <2>1, <2>2, <2>3 DEF Kept
<1>. QED
  BY Zenon, <1>1, <1>2, <1>3, <1>4, <1>5, <1>6, <1>7, <1>8, <1>9, <1>10, <1>11, <1>12 DEF Reads

\* Between the lexemes: only a `;' that ends no setting leads to another zone.
LEMMA BetweenKept == Typed /\ (conf_start \/ conf_endline) => Kept
<1>1. ASSUME Typed, conf_start PROVE Kept
  <2>1. /\ UNCHANGED <<locations, cgis, ports, location_count, uri_location, flag_default_part>>
        /\ state = "conf_start" /\ UNCHANGED next_state
        /\ state' \in {next_state, "conf_start"} \/ (state' = "conf_endline" /\ prev_state' = next_state)
    BY <1>1 DEF conf_start, counts, settings, location, saved
  <2>2. At' = At /\ next_state \notin Stopped
    BY <1>1, <2>1 DEF At, Typed, TypeOK, WalkOK, ServerKnown, States, Stopped
  <2>3. Zone' = Zone /\ state' # "thrown"
    BY <2>1, <2>2 DEF Zone, Stopped
  <2>4. plain' = plain
    BY <1>1, Zenon DEF conf_start
  <2>. QED
    BY <2>1, <2>3, <2>4 DEF Kept
<1>2. ASSUME Typed, conf_endline PROVE Kept
  <2>1. /\ UNCHANGED <<locations, cgis, ports, location_count, uri_location, flag_default_part>>
        /\ state = "conf_endline" /\ state' = "conf_start" /\ next_state' = AfterEndline
    BY <1>2 DEF conf_endline, Goto, counts, settings, location, saved
  <2>2. plain' => plain /\ prev_state \in {"conf_waiting_default_value", "conf_listen_default",
                                           "conf_waiting_location_value", "conf_accepted_methods"}
    BY <1>2, Zenon DEF conf_endline
  <2>3. At = prev_state /\ At' = AfterEndline
    BY <2>1 DEF At
  <2>4. plain' => Zone' = Zone
    BY <2>1, <2>2, <2>3 DEF Zone, AfterEndline, LocationLevel, Stopped
  <2>5. Zone' = Zone \/ Zone' = "location"
    BY <2>1, <2>3 DEF Zone, AfterEndline, LocationLevel, Stopped
  <2>. QED
    BY <2>1, <2>2, <2>4, <2>5 DEF Kept
<1>. QED
  BY <1>1, <1>2

LEMMA ServerWalked ==
  Typed /\ Walked /\ (conf_server \/ conf_server_CB_open \/ conf_server_CB_close) => Walked'
<1>. SUFFICES ASSUME Typed, Walked, conf_server \/ conf_server_CB_open \/ conf_server_CB_close
              PROVE  Walked'
  OBVIOUS
<1>1. CASE Error
  BY <1>1, ErrorWalked
<1>2. CASE Stop("conf_done")
  BY <1>2, StopWalked DEF Stopped
<1>3. CASE UNCHANGED <<location_count, settings, location, saved, ports, plain>>
           /\ \/ state = "conf_server" /\ Goto("conf_start", "conf_server_CB_open")
              \/ state = "conf_server_CB_open" /\ Goto("conf_start", "conf_waiting_default_value")
              \/ state = "conf_server_CB_close" /\ Goto("conf_zero", "conf_start")
  <2>1. /\ UNCHANGED <<locations, cgis, ports, location_count, uri_location, flag_default_part>>
        /\ plain' = plain
    BY <1>3 DEF settings, location, saved
  <2>2. Zone' = Zone /\ state' # "thrown"
    BY <1>3 DEF Goto, Zone, At, LocationLevel, Stopped
  <2>3. Kept
    BY <2>1, <2>2 DEF Kept
  <2>. QED
    BY <2>3, KeptWalked
<1>. QED
  BY <1>1, <1>2, <1>3 DEF conf_server, conf_server_CB_open, conf_server_CB_close, counts

LEMMA OpenWalked == Typed /\ Walked /\ UNCHANGED file /\ (conf_location_uri \/ conf_location_CB_open) => Walked'
<1>. SUFFICES ASSUME Typed, Walked, UNCHANGED file, conf_location_uri \/ conf_location_CB_open
              PROVE  Walked'
  OBVIOUS
<1>1. CASE conf_location_uri
  <2>1. /\ state = "conf_location_uri" /\ state' = "conf_start" /\ next_state' = "conf_location_CB_open"
        /\ UNCHANGED <<locations, cgis, ports, location_count>>
    BY <1>1 DEF conf_location_uri, Goto, counts, saved
  <2>2. plain' = plain
    BY <1>1, Zenon DEF conf_location_uri
  <2>3. Zone = "server" /\ Zone' = "open"
    BY <2>1 DEF Zone, At, LocationLevel, Stopped
  <2>4. PICK u \in file.uris :
          /\ uri_location' = [uri_location EXCEPT !.uri = u]
          /\ flag_default_part' = IF u = "/" THEN flag_default_part \cup {"root_slash"}
                                  ELSE flag_default_part
    BY <1>1 DEF conf_location_uri
  <2>5. u \in Uris /\ uri_location'.uri = u /\ uri_location'.redirect = uri_location.redirect
    BY <2>4, FileTyped DEF Typed, TypeOK, WalkOK, BlockOK
  <2>6. uri_location.redirect = ""
    BY <2>3 DEF Walked, Redirected
  <2>7. Redirected'
    BY <2>1, <2>5, <2>6 DEF Walked, Redirected, NoRedirectPair
  <2>8. plain' => RootSaved'
    <3>1. plain' => RootSaved
      BY <2>2 DEF Walked, Complete
    <3>. QED
      BY <3>1, <2>1, <2>3, <2>4, <2>5 DEF RootSaved
  <2>9. ProgramsNamed(cgis)'
    BY <2>1 DEF Walked, Complete, ProgramsNamed
  <2>. QED
    BY <2>7, <2>8, <2>9 DEF Walked, Complete
<1>2. CASE conf_location_CB_open
  <2>1. /\ state = "conf_location_CB_open" /\ state' = "conf_start"
        /\ next_state' = "conf_waiting_location_value"
        /\ UNCHANGED <<locations, cgis, ports, uri_location, flag_default_part>>
        /\ location_count' = location_count + 1
    BY <1>2 DEF conf_location_CB_open, Goto, settings, location, saved
  <2>2. plain' = plain
    BY <1>2, Zenon DEF conf_location_CB_open
  <2>3. Zone = "open" /\ Zone' = "location"
    BY <2>1 DEF Zone, At, LocationLevel, Stopped
  <2>4. location_count' # 0
    BY <2>1, FileTyped DEF Typed, TypeOK, WalkOK
  <2>5. Redirected'
    BY <2>1, <2>3 DEF Walked, Redirected, LeadsBack, Resolved, NoRedirectPair
  <2>6. plain' => RootSaved'
    <3>1. plain' => RootSaved
      BY <2>2 DEF Walked, Complete
    <3>. QED
      BY <3>1, <2>1, <2>3, <2>4 DEF RootSaved
  <2>7. ProgramsNamed(cgis)'
    BY <2>1 DEF Walked, Complete, ProgramsNamed
  <2>. QED
    BY <2>5, <2>6, <2>7 DEF Walked, Complete
<1>. QED
  BY <1>1, <1>2

LEMMA conf_redirect_Walked == Typed /\ Walked /\ conf_redirect => Walked'
<1>. SUFFICES ASSUME Typed, Walked, conf_redirect PROVE Walked'
  OBVIOUS
<1>1. /\ state = "conf_redirect" /\ state' = "conf_start" /\ next_state' = "conf_waiting_location_value"
      /\ UNCHANGED <<locations, cgis, ports, location_count, flag_default_part>>
  BY DEF conf_redirect, Goto, Value, counts, settings, saved
<1>2. plain' = plain
  BY Zenon DEF conf_redirect
<1>3. Zone = "location" /\ Zone' = "location"
  BY <1>1 DEF Zone, At, LocationLevel, Stopped
<1>4. /\ uri_location'.uri = uri_location.uri
      /\ ~LeadsBack(uri_location'.redirect)
  BY DEF conf_redirect, Typed, TypeOK, BlockOK
<1>5. Redirected'
  BY <1>1, <1>3, <1>4 DEF Walked, Redirected, LeadsBack, Resolved, NoRedirectPair
<1>6. plain' => RootSaved'
  <2>1. plain' => RootSaved
    BY <1>2 DEF Walked, Complete
  <2>. QED
    BY <2>1, <1>1, <1>3, <1>4 DEF RootSaved
<1>7. ProgramsNamed(cgis)'
  BY <1>1 DEF Walked, Complete, ProgramsNamed
<1>. QED
  BY <1>5, <1>6, <1>7 DEF Walked, Complete

\* A location that is saved was read in full; the pair it could make was refused.
LEMMA LocationWalked == Typed /\ Walked /\ conf_location_zero => Walked'
<1>. SUFFICES ASSUME Typed, Walked, conf_location_zero PROVE Walked'
  OBVIOUS
<1>. DEFINE u == uri_location.uri
            r == uri_location.redirect
<1>0. state = "conf_location_zero" /\ Zone = "location"
  BY DEF conf_location_zero, Zone, At, LocationLevel
<1>1. CASE Stop("thrown") /\ u = ""
  <2>1. ~plain
    BY <1>1, <1>0, ConfigParserAssumption DEF Walked, Complete, RootSaved
  <2>. QED
    BY <1>1, <2>1, StopWalked DEF Stopped
<1>2. CASE /\ conf_location_zero_saves /\ flag_location_part' = {} /\ uri_location' = NewLocation
           /\ Goto(next_state, "conf_waiting_default_value")
           /\ UNCHANGED <<it, counts, settings, ports, plain>>
  <2>1. /\ UNCHANGED <<ports, location_count, flag_default_part>>
        /\ state' = "conf_start" /\ next_state' = "conf_waiting_default_value"
        /\ uri_location'.redirect = ""
    BY <1>0, <1>2 DEF Goto, counts, settings, NewLocation, Typed, ServerKnown
  <2>2. plain' = plain
    BY <1>2, Zenon
  <2>3. Zone' = "server"
    BY <2>1 DEF Zone, At, LocationLevel, Stopped
  <2>4. \/ UNCHANGED saved /\ location_count = 0
        \/ /\ u \in Extensions /\ cgis' = Insert(cgis, u, flag_location_part)
           /\ CgiAccepted(flag_location_part) /\ UNCHANGED locations
        \/ /\ u \in Uris \ (Extensions \cup DOMAIN locations)
           /\ locations' = Insert(locations, u, r) /\ UNCHANGED cgis
    BY <1>2 DEF conf_location_zero_saves
  <2>5. NoRedirectPair'
    <3>1. CASE UNCHANGED locations
      BY <3>1 DEF Walked, Redirected, NoRedirectPair
    <3>2. CASE u \in Uris \ (Extensions \cup DOMAIN locations) /\ locations' = Insert(locations, u, r)
      <4>1. /\ DOMAIN locations' = DOMAIN locations \cup {u} /\ locations'[u] = r
            /\ \A v \in DOMAIN locations : locations'[v] = locations[v]
        BY <3>2 DEF Insert
      <4>2. ASSUME NEW v \in DOMAIN locations, r = v PROVE locations[v] # u
        <5>1. v # "" /\ u # ""
          BY <3>2, ConfigParserAssumption DEF Typed, TypeOK, SavedOK
        <5>2. ~LeadsBack(v)
          BY <5>1, <4>2 DEF Walked, Redirected
        <5>. QED
          BY <5>1, <5>2, <3>2 DEF LeadsBack, Resolved
      <4>3. ASSUME NEW v \in DOMAIN locations, NEW w \in DOMAIN locations, v # w, locations[v] = w
            PROVE  locations[w] # v
        BY <4>3 DEF Walked, Redirected, NoRedirectPair
      <4>. QED
        BY <4>1, <4>2, <4>3 DEF NoRedirectPair
    <3>. QED
      BY <2>4, <3>1, <3>2 DEF saved
  <2>6. Redirected'
    BY <2>1, <2>5 DEF Redirected
  <2>7. ProgramsNamed(cgis)'
    <3>1. ProgramsNamed(cgis)
      BY DEF Walked, Complete
    <3>2. CASE UNCHANGED cgis
      BY <3>1, <3>2 DEF ProgramsNamed
    <3>3. CASE cgis' = Insert(cgis, u, flag_location_part) /\ CgiAccepted(flag_location_part)
      BY <3>1, <3>3 DEF ProgramsNamed, Insert, CgiAccepted
    <3>. QED
      BY <2>4, <3>2, <3>3 DEF saved
  <2>8. plain' => RootSaved'
    <3>1. SUFFICES ASSUME plain' PROVE RootSaved'
      OBVIOUS
    <3>2. RootSaved
      BY <2>2, <3>1 DEF Walked, Complete
    <3>3. "root_slash" \in flag_default_part => "/" \in DOMAIN locations \/ u = "/"
      BY <1>0, <3>2 DEF RootSaved
    <3>4. DOMAIN locations \subseteq DOMAIN locations'
      BY <2>4 DEF saved, Insert
    <3>5. u = "/" => "/" \in DOMAIN locations'
      BY <1>0, <2>4, <3>2, ConfigParserAssumption DEF RootSaved, Insert
    <3>. QED
      BY <2>1, <2>3, <3>2, <3>3, <3>4, <3>5 DEF RootSaved
  <2>. QED
    BY <2>6, <2>7, <2>8 DEF Walked, Complete
<1>. QED
  BY Zenon, <1>1, <1>2 DEF conf_location_zero

LEMMA conf_zero_Walked == Typed /\ Walked /\ conf_zero => Walked'
<1>. SUFFICES ASSUME Typed, Walked, conf_zero PROVE Walked'
  OBVIOUS
<1>1. CASE Error
  BY <1>1, ErrorWalked
<1>2. CASE /\ (server_count = 0 /\ UNCHANGED ports) \/ (server_count # 0 /\ conf_zero_saves)
           /\ ClearBlock /\ Goto(next_state, "conf_server")
           /\ UNCHANGED <<it, server_count, plain>> /\ state = "conf_zero"
  <2>1. /\ state = "conf_zero" /\ state' = "conf_start" /\ next_state' = "conf_server"
        /\ flag_default_part' = {} /\ uri_location' = NewLocation
        /\ locations' = Empty /\ cgis' = Empty
    BY <1>2 DEF Goto, ClearBlock, Typed, ServerKnown
  <2>2. plain' = plain
    BY <1>2, Zenon
  <2>3. Zone = "server" /\ Zone' = "server"
    BY <2>1 DEF Zone, At, LocationLevel, Stopped
  <2>4. Redirected'
    BY <2>1 DEF Redirected, NewLocation, NoRedirectPair, Empty
  <2>5. ProgramsNamed(cgis)'
    BY <2>1 DEF ProgramsNamed, Empty
  <2>6. ASSUME plain' PROVE RootSaved'
    <3>1. RootSaved
      BY <2>2, <2>6 DEF Walked, Complete
    <3>2. ASSUME NEW p \in DOMAIN ports', NEW n \in DOMAIN ports'[p]
          PROVE  ServerComplete(ports'[p][n])
      <4>1. CASE UNCHANGED ports
        BY <3>1, <3>2, <4>1 DEF RootSaved
      <4>2. CASE conf_zero_saves
        <5>. DEFINE q    == server_info.port
                    here == IF q \in DOMAIN ports THEN ports[q] ELSE Empty
                    new  == [default |-> BecomesDefault, locations |-> locations, cgis |-> cgis]
        <5>1. ports' = Insert(ports, q, Insert(here, ServerName, new)) /\ "root_slash" \in flag_default_part
          BY <4>2, Zenon DEF conf_zero_saves
        <5>2. "/" \in DOMAIN locations /\ ProgramsNamed(cgis)
          BY <5>1, <3>1, <2>3 DEF Walked, Complete, RootSaved
        <5>3. ServerComplete(new)
          BY <5>2 DEF ServerComplete
        <5>4. \A m \in DOMAIN here : ServerComplete(here[m])
          BY <3>1 DEF RootSaved, Empty
        <5>5. p # q => p \in DOMAIN ports /\ ports'[p] = ports[p]
          BY <3>2, <5>1 DEF Insert
        <5>6. p = q => ports'[p] = Insert(here, ServerName, new)
          BY <5>1 DEF Insert
        <5>7. CASE p # q
          BY <3>1, <3>2, <5>5, <5>7 DEF RootSaved
        <5>8. CASE p = q
          <6>1. ports'[p] = Insert(here, ServerName, new)
            BY <5>6, <5>8
          <6>2. (n = ServerName /\ ports'[p][n] = new) \/ (n \in DOMAIN here /\ ports'[p][n] = here[n])
            BY <3>2, <6>1 DEF Insert
          <6>. QED
            BY <5>3, <5>4, <6>2, Zenon
        <5>. QED
          BY <5>7, <5>8
      <4>. QED
        BY <1>2, <4>1, <4>2
    <3>3. /\ "root_slash" \notin flag_default_part' /\ Zone' = "server" /\ state' # "thrown"
      BY <2>1, <2>3
    <3>. QED
      BY <3>2, <3>3 DEF RootSaved
  <2>. QED
    BY <2>4, <2>5, <2>6 DEF Walked, Complete
<1>3. \/ Error
      \/ /\ (server_count = 0 /\ UNCHANGED ports) \/ (server_count # 0 /\ conf_zero_saves)
         /\ ClearBlock /\ Goto(next_state, "conf_server")
         /\ UNCHANGED <<it, server_count, plain>> /\ state = "conf_zero"
  BY Zenon DEF conf_zero
<1>. QED
  BY <1>1, <1>2, <1>3, Zenon

LEMMA NextWalked == Typed /\ Walked /\ [Next]_vars => Walked'
<1>. SUFFICES ASSUME Typed, Walked, [Next]_vars PROVE Walked'
  OBVIOUS
<1>1. CASE Next
  <2>1. CASE Reads \/ conf_start \/ conf_endline
    BY <2>1, ReadsKept, BetweenKept, KeptWalked
  <2>2. CASE conf_server \/ conf_server_CB_open \/ conf_server_CB_close
    BY <2>2, ServerWalked
  <2>3. CASE conf_start_ends
    BY <2>3, ErrorWalked, StopWalked DEF conf_start_ends, Stopped
  <2>4. CASE Refuse
    BY <2>4, ErrorWalked DEF Refuse
  <2>. QED
    BY Zenon, <1>1, <2>1, <2>2, <2>3, <2>4, OpenWalked, conf_redirect_Walked, LocationWalked,
       conf_zero_Walked DEF Next, Parse, Reads
<1>2. CASE UNCHANGED vars
  <2>1. /\ UNCHANGED <<state, prev_state, next_state, locations, cgis, ports, location_count,
                       uri_location, flag_default_part>>
    BY <1>2 DEF vars, counts, settings, location, saved
  <2>2. plain' = plain
    BY <1>2, Zenon DEF vars
  <2>3. Zone' = Zone /\ (plain' => state' # "thrown")
    BY <2>1, <2>2 DEF Zone, At, Walked, Complete, RootSaved
  <2>4. Redirected' /\ ProgramsNamed(cgis)'
    BY <2>1, <2>3 DEF Walked, Redirected, Complete, ProgramsNamed, LeadsBack, Resolved, NoRedirectPair
  <2>5. plain' => RootSaved'
    <3>1. plain' => RootSaved
      BY <2>2 DEF Walked, Complete
    <3>. QED
      BY <2>1, <2>3, <3>1 DEF RootSaved
  <2>. QED
    BY <2>4, <2>5 DEF Walked, Complete
<1>. QED
  BY <1>1, <1>2

LEMMA InitWalked == Init => Walked
<1>. SUFFICES ASSUME Init PROVE Walked
  OBVIOUS
<1>1. /\ state = "conf_zero" /\ locations = Empty /\ cgis = Empty /\ ports = Empty
      /\ flag_default_part = {} /\ uri_location = NewLocation
  BY DEF Init
<1>2. Zone = "server"
  BY <1>1 DEF Zone, At, LocationLevel, Stopped
<1>3. Redirected /\ ProgramsNamed(cgis) /\ RootSaved
  BY <1>1, <1>2 DEF Redirected, NewLocation, NoRedirectPair, ProgramsNamed, RootSaved, Empty
<1>. QED
  BY <1>3 DEF Walked, Complete

\* No two locations of a server ever redirect to each other, whatever the order
\* and the number of the locations: the check is made when a redirect is read,
\* against the locations saved before, and the location is saved later.
THEOREM RedirectsEnd == Spec => []NoRedirectPair
<1>1. Walked => NoRedirectPair
  BY DEF Walked, Redirected
<1>. QED
  BY <1>1, InitTyped, NextTyped, InitWalked, NextWalked, PTL DEF Spec

\* Every server block of a plain file that is accepted has a root location, and
\* every extension its program.
THEOREM Accepted == Spec => []ServersComplete
<1>1. Walked => ServersComplete
  BY DEF Walked, Complete, RootSaved, ServersComplete, ServerComplete, ProgramsNamed
<1>. QED
  BY <1>1, InitTyped, NextTyped, InitWalked, NextWalked, PTL DEF Spec

\* A plain file never has the parser look for the first character of a URI that
\* was not given.
THEOREM PlainNeverThrows == Spec => []NeverThrown
<1>1. Walked => NeverThrown
  BY DEF Walked, Complete, RootSaved, NeverThrown
<1>. QED
  BY <1>1, InitTyped, NextTyped, InitWalked, NextWalked, PTL DEF Spec
=============================================================================
