------------------------- MODULE UriLocationProofs -------------------------
(***************************************************************************)
(* The resolution of a request target, for every server block, target and  *)
(* set of methods: it follows no null pointer and starts no CGI program    *)
(* without a location (CgiSafe), its pieces make up the target             *)
(* (TargetSplit), and the location it answers is the configured one        *)
(* (ServedAsConfigured).                                                   *)
(*                                                                         *)
(* None of the three is inductive.  The first needs that the flags of the  *)
(* walk are linked to the pointers (Linked); the others, which speak of    *)
(* the end of the walk, need what holds on the way: where the switch       *)
(* stands (Placed), what the pieces stand for so far (Cut), and which      *)
(* location the flags and the pointers stand for so far (Settled).         *)
(***************************************************************************)
EXTENDS UriLocation, TLAPS, SequenceTheorems, WellFoundedInduction

Fields == {"is_cgi_", "cgi_loc_", "cgi_path_info_", "script_name_", "script_filename_",
           "path_info_", "query_string_", "fragment_", "resolved_request_uri_",
           "path_translated_"}
Shape == r = [f \in Fields |-> r[f]]

Linked ==
    /\ r.is_cgi_ <=> r.cgi_loc_ # NULL
    /\ state = "uri_main" => flags = {} /\ r.cgi_loc_ = NULL
    /\ state \notin {"uri_main", "uri_end"} =>
          return_location # NULL /\ return_location_root # NULL
    /\ "cgi_pass" \in flags => "cgi" \in flags /\ "depth_uri" \notin flags
    /\ state = "uri_end" /\ return_location = NULL => ~r.is_cgi_

Locations == {conf.uri_case[p] : p \in DOMAIN conf.uri_case}
                \union {conf.cgi_case[e] : e \in DOMAIN conf.cgi_case}

IInv == TypeOK /\ Shape /\ Linked

-----------------------------------------------------------------------------
(* A set of numbers has a least one, and induction up to a number.         *)
LEMMA LeastOf ==
  ASSUME NEW S, S \subseteq Nat, S # {}
  PROVE  \E m \in S : \A k \in S : m <= k
<1> DEFINE Less == OpToRel(<, Nat)
<1>1. PICK m \in S : \A k \in S : ~(<<k, m>> \in Less)
  <2> HIDE DEF Less
  <2>1. IsWellFoundedOn(Less, Nat)
    BY NatLessThanWellFounded DEF Less
  <2> QED
    BY <2>1, WFMin
<1>2. m \in Nat /\ \A k \in S : k \in Nat /\ ~(k < m)
  BY <1>1 DEF OpToRel
<1> HIDE DEF Less
<1> QED
  BY <1>2

LEMMA UpTo ==
  ASSUME NEW n \in Nat, NEW T, 0 \in T, \A k \in 0 .. n - 1 : k \in T => k + 1 \in T
  PROVE  n \in T
<1> DEFINE Rest == {k \in 0 .. n : k \notin T}
<1> SUFFICES ASSUME n \notin T PROVE FALSE
  OBVIOUS
<1>1. Rest \subseteq Nat /\ n \in Rest
  OBVIOUS
<1>2. PICK m \in Rest : \A k \in Rest : m <= k
  <2> HIDE DEF Rest
  <2> QED
    BY <1>1, LeastOf
<1>3. m \in 0 .. n /\ m \notin T
  OBVIOUS
<1>4. m # 0 /\ m - 1 \in 0 .. n - 1
  BY <1>3
<1>5. m - 1 \in T
  BY <1>2, <1>4
<1>6. (m - 1) + 1 \in T
  BY <1>4, <1>5
<1> QED
  BY <1>3, <1>6

(* A loop over the characters of a table stops at the first one outside    *)
(* it, at the latest at the end of the target.                             *)
LEMMA PastStops ==
  ASSUME uri \in Seq(STRING), NEW i \in 1 .. Len(uri) + 1, NEW table
  PROVE  /\ Past(i, table) \in i .. Len(uri) + 1
         /\ Past(i, table) > Len(uri) \/ uri[Past(i, table)] \notin table
         /\ \A k \in i .. Past(i, table) - 1 : uri[k] \in table
<1> DEFINE Stops == {j \in i .. Len(uri) + 1 : j > Len(uri) \/ uri[j] \notin table}
           Is(p) == /\ p > Len(uri) \/ uri[p] \notin table
                    /\ \A k \in i .. p - 1 : uri[k] \in table
<1>1. Len(uri) \in Nat
  OBVIOUS
<1>2. Stops \subseteq Nat /\ Len(uri) + 1 \in Stops
  BY <1>1
<1>3. PICK j \in Stops : \A k \in Stops : j <= k
  <2> HIDE DEF Stops
  <2> QED
    BY <1>2, LeastOf
<1>4. j \in i .. Len(uri) + 1 /\ Is(j)
  BY <1>1, <1>3
<1>5. Past(i, table) = CHOOSE p \in i .. Len(uri) + 1 : Is(p)
  BY DEF Past
<1> HIDE DEF Is
<1>6. Past(i, table) \in i .. Len(uri) + 1 /\ Is(Past(i, table))
  BY <1>4, <1>5
<1> QED
  BY <1>6 DEF Is

LEMMA PastBounds ==
  ASSUME uri \in Seq(STRING), NEW i \in 1 .. Len(uri) + 1, NEW table
  PROVE  Past(i, table) \in i .. Len(uri) + 1
BY PastStops

(* What the configuration gives: locations are not null, "/" is one.       *)
LEMMA Configured ==
  ASSUME conf \in Configs
  PROVE  /\ NULL \notin Locations
         /\ <<"/">> \in DOMAIN conf.uri_case
         /\ \A p \in DOMAIN conf.uri_case : conf.uri_case[p] \in Locations
         /\ \A e \in DOMAIN conf.cgi_case : conf.cgi_case[e] \in Locations
BY ConfigAssumption DEF Locations

(* A target begins with a slash; whatever is no delimiter is a letter.      *)
LEMMA TargetIs ==
  ASSUME uri \in Uris
  PROVE  /\ uri \in Seq(STRING) /\ uri # <<>> /\ Len(uri) \in Nat \ {0} /\ uri[1] = "/"
         /\ \A k \in 1 .. Len(uri) : uri[k] \in STRING /\ (uri[k] \in Delimiters <=> uri[k] \notin Letter)
<1>1. uri \in Seq(Letter \union Delimiters) /\ uri # <<>> /\ uri[1] = "/"
  BY TargetAssumption
<1>2. Letter \union Delimiters \subseteq STRING /\ Letter \intersect Delimiters = {}
  BY TargetAssumption
<1>3. uri \in Seq(STRING)
  BY <1>1, <1>2
<1>4. Len(uri) \in Nat \ {0}
  BY <1>1, <1>3
<1>5. \A k \in 1 .. Len(uri) : uri[k] \in Letter \union Delimiters
  BY <1>1
<1> QED
  BY <1>1, <1>2, <1>3, <1>4, <1>5

-----------------------------------------------------------------------------
LEMMA InitIInv == Init => IInv
BY ConfigAssumption, Configured, TargetIs
   DEF Init, IInv, TypeOK, Shape, Linked, NothingResolved, Fields, Locations

LEMMA MainKeeps == IInv /\ uri_main => IInv'
<1> SUFFICES ASSUME IInv, uri_main PROVE IInv'
  OBVIOUS
<1> DEFINE first == Past(it, {"/"})
           after == Past(first, usual_for_uri_parse_)
           name == <<"/">> \o From(first, after)
           known == name \in DOMAIN conf.uri_case /\ At(after) # "."
           loc == IF known THEN conf.uri_case[name] ELSE conf.uri_case[<<"/">>]
           missed == IF known THEN {} ELSE {"notfound_uri"}
           named == [r EXCEPT !.script_name_ = IF known THEN @ ELSE @ \o name]
<1>1. first \in it .. Len(uri) + 1
  BY PastBounds DEF IInv, TypeOK
<1>2. first \in 1 .. Len(uri) + 1
  BY <1>1 DEF IInv, TypeOK
<1>3. after \in 1 .. Len(uri) + 1
  BY <1>2, PastBounds DEF IInv, TypeOK
<1>4. loc \in Locations /\ loc # NULL
  BY Configured DEF IInv, TypeOK
<1>5. /\ it' = after /\ return_location' = loc /\ return_location_root' = loc
      /\ UNCHANGED <<conf, method, uri>> /\ state = "uri_main"
  BY DEF uri_main
<1>6. Locations' = Locations
  BY <1>5 DEF Locations
<1>7. /\ named = [f \in Fields |-> named[f]]
      /\ named.is_cgi_ = FALSE /\ named.cgi_loc_ = NULL
  BY <1>5 DEF IInv, Shape, Linked, TypeOK, Fields
<1>8. \/ /\ flags' = flags \union missed
         /\ r' = named
         /\ state' \in {"uri_find_delimeter_case", "thrown"}
      \/ /\ flags' = flags \union missed \union {"cgi", "cgi_pass"}
         /\ \E g : r' = [named EXCEPT !.is_cgi_ = TRUE, !.cgi_loc_ = loc, !.cgi_path_info_ = g]
         /\ state' = "uri_find_delimeter_case"
  BY DEF uri_main
<1>9. flags = {} /\ missed \subseteq {"notfound_uri"}
  BY <1>5 DEF IInv, Linked
<1> HIDE DEF first, after, name, known, loc, missed, named
<1>10. TypeOK'
  BY <1>3, <1>4, <1>5, <1>6, <1>7, <1>8, <1>9 DEF IInv, TypeOK, Locations, Fields
<1>11. Shape'
  BY <1>7, <1>8 DEF Shape, Fields
<1>12. Linked'
  BY <1>4, <1>5, <1>7, <1>8, <1>9 DEF Linked, Fields
<1> QED
  BY <1>10, <1>11, <1>12 DEF IInv

LEMMA DelimeterKeeps == IInv /\ uri_find_delimeter_case => IInv'
<1> SUFFICES ASSUME IInv, uri_find_delimeter_case PROVE IInv'
  OBVIOUS
<1>1. it' \in 1 .. Len(uri) + 1
  BY DEF IInv, TypeOK, uri_find_delimeter_case, At
<1> QED
  BY <1>1 DEF IInv, TypeOK, Shape, Linked, uri_find_delimeter_case

LEMMA DepthKeeps == IInv /\ uri_depth => IInv'
<1> SUFFICES ASSUME IInv, uri_depth PROVE IInv'
  OBVIOUS
<1> DEFINE first == Past(it, {"/"})
           after == Past(first, usual_for_uri_parse_)
           rest == Past(after, except_query_fragment_)
<1>1. first \in 1 .. Len(uri) + 1
  BY PastBounds DEF IInv, TypeOK
<1>2. after \in 1 .. Len(uri) + 1
  BY <1>1, PastBounds DEF IInv, TypeOK
<1>3. rest \in 1 .. Len(uri) + 1
  BY <1>2, PastBounds DEF IInv, TypeOK
<1>4. /\ it' \in {after, rest}
      /\ \/ "cgi" \in flags /\ flags' = flags \union {"path_info"}
         \/ "cgi" \notin flags /\ flags' = flags \union {"depth_uri"}
      /\ \E s : r' = [r EXCEPT !.path_info_ = s] \/ r' = [r EXCEPT !.script_name_ = s]
      /\ UNCHANGED <<conf, method, uri, return_location, return_location_root>>
      /\ state = "uri_depth" /\ state' = "uri_find_delimeter_case"
  BY DEF uri_depth
<1> HIDE DEF first, after, rest
<1>5. /\ r' = [f \in Fields |-> r'[f]]
      /\ r'.is_cgi_ = r.is_cgi_ /\ r'.cgi_loc_ = r.cgi_loc_
  BY <1>4 DEF IInv, Shape, Fields
<1> QED
  BY <1>2, <1>3, <1>4, <1>5 DEF IInv, TypeOK, Shape, Linked

LEMMA CgiKeeps == IInv /\ uri_cgi => IInv'
<1> SUFFICES ASSUME IInv, uri_cgi PROVE IInv'
  OBVIOUS
<1> DEFINE after == Past(it, except_slash_query_fragment_)
           temp == From(it, after)
           cgi == HasDot(temp) /\ Extension(temp) \in DOMAIN conf.cgi_case
           loc == conf.cgi_case[Extension(temp)]
<1>1. after \in 1 .. Len(uri) + 1
  BY PastBounds DEF IInv, TypeOK
<1>2. cgi => loc \in Locations /\ loc # NULL
  BY Configured DEF IInv, TypeOK
<1>3. /\ it' = after
      /\ UNCHANGED <<conf, method, uri, return_location_root>>
      /\ state = "uri_cgi" /\ state' = "uri_find_delimeter_case"
      /\ \/ /\ "cgi" \in flags
            /\ \E s : r' = [r EXCEPT !.path_info_ = s]
            /\ UNCHANGED <<flags, return_location>>
         \/ /\ "cgi" \notin flags /\ cgi
            /\ \E s, g : r' = [[r EXCEPT !.script_name_ = s]
                                 EXCEPT !.cgi_loc_ = loc, !.is_cgi_ = TRUE, !.cgi_path_info_ = g]
            /\ return_location' = loc
            /\ flags' = flags \union {"cgi"}
         \/ /\ "cgi" \notin flags
            /\ \E s : r' = [r EXCEPT !.script_name_ = s]
            /\ flags' = flags \union {"check_extension"}
            /\ UNCHANGED return_location
  BY DEF uri_cgi
<1>4. Locations' = Locations
  BY <1>3 DEF Locations
<1> HIDE DEF after, temp, cgi, loc
<1>5. /\ r' = [f \in Fields |-> r'[f]]
      /\ \/ r'.is_cgi_ = r.is_cgi_ /\ r'.cgi_loc_ = r.cgi_loc_
                /\ UNCHANGED return_location
                /\ flags' \in {flags, flags \union {"check_extension"}}
         \/ r'.is_cgi_ = TRUE /\ r'.cgi_loc_ = loc /\ loc \in Locations /\ loc # NULL
                /\ return_location' = loc /\ flags' = flags \union {"cgi"}
  BY <1>2, <1>3 DEF IInv, Shape, Fields
<1> QED
  BY <1>1, <1>3, <1>4, <1>5 DEF IInv, TypeOK, Shape, Linked, Locations

LEMMA QueryKeeps == IInv /\ uri_query => IInv'
<1> SUFFICES ASSUME IInv, uri_query PROVE IInv'
  OBVIOUS
<1>1. it' \in 1 .. Len(uri) + 1
  BY PastBounds DEF IInv, TypeOK, uri_query
<1>2. \E s : r' = [r EXCEPT !.query_string_ = s]
  BY DEF uri_query
<1> QED
  BY <1>1, <1>2 DEF IInv, TypeOK, Shape, Linked, uri_query, Fields

LEMMA FragmentKeeps == IInv /\ uri_fragment => IInv'
<1> SUFFICES ASSUME IInv, uri_fragment PROVE IInv'
  OBVIOUS
<1>1. it' \in 1 .. Len(uri) + 1
  BY DEF IInv, TypeOK, uri_fragment
<1>2. \E s : r' = [r EXCEPT !.fragment_ = s]
  BY DEF uri_fragment
<1>3. /\ r' = [f \in Fields |-> r'[f]]
      /\ r'.is_cgi_ = r.is_cgi_ /\ r'.cgi_loc_ = r.cgi_loc_
  BY <1>2 DEF IInv, Shape, Fields
<1>4. TypeOK'
  BY <1>1, <1>3 DEF IInv, TypeOK, uri_fragment
<1> QED
  BY <1>3, <1>4 DEF IInv, Shape, Linked, uri_fragment

(* The decision at the end keeps is_cgi_ and cgi_loc_ together.            *)
LEMMA DecidedWell ==
  ASSUME IInv, state = "uri_done"
  PROVE  /\ Decided.r = [f \in Fields |-> Decided.r[f]]
         /\ Decided.r.is_cgi_ \in BOOLEAN
         /\ Decided.r.cgi_loc_ \in Locations \union {NULL}
         /\ Decided.loc \in Locations \union {NULL}
         /\ Decided.r.is_cgi_ <=> Decided.r.cgi_loc_ # NULL
         /\ Decided.loc = NULL => ~Decided.r.is_cgi_
<1>1. return_location # NULL /\ return_location \in Locations
  BY DEF IInv, Linked, TypeOK, Locations
<1>2. CASE Nowhere
  BY <1>2 DEF Decided, IInv, Shape, Fields
<1>3. CASE ~Nowhere /\ CgiByPathInfo
  BY <1>1, <1>3 DEF Decided, IInv, Shape, Fields
<1>4. CASE ~Nowhere /\ ~CgiByPathInfo
  BY <1>1, <1>4 DEF Decided, IInv, Shape, Linked, TypeOK, Locations
<1> QED
  BY <1>2, <1>3, <1>4

LEMMA DoneKeeps == IInv /\ uri_done => IInv'
<1> SUFFICES ASSUME IInv, uri_done PROVE IInv'
  OBVIOUS
<1>1. /\ return_location' \in {return_location_root, Decided.loc}
      /\ Decided.loc = NULL => return_location' = NULL
      /\ state = "uri_done" /\ state' = "uri_end"
      /\ UNCHANGED <<conf, method, uri, it, flags, return_location_root>>
  <2> HIDE DEF Decided
  <2> QED  BY DEF uri_done
<1>2. /\ r' = [f \in Fields |-> r'[f]]
      /\ r'.is_cgi_ = Decided.r.is_cgi_ /\ r'.cgi_loc_ = Decided.r.cgi_loc_
  <2>1. Decided.r = [f \in Fields |-> Decided.r[f]]
    BY <1>1, DecidedWell
  <2> HIDE DEF Decided
  <2> QED
    BY <2>1 DEF uri_done, Fields
<1>3. return_location_root # NULL /\ return_location_root \in Locations
  BY <1>1 DEF IInv, Linked, TypeOK, Locations
<1>4. Locations' = Locations
  BY <1>1 DEF Locations
<1>5. /\ Decided.r.is_cgi_ \in BOOLEAN
      /\ Decided.r.cgi_loc_ \in Locations \union {NULL}
      /\ Decided.loc \in Locations \union {NULL}
      /\ Decided.r.is_cgi_ <=> Decided.r.cgi_loc_ # NULL
      /\ Decided.loc = NULL => ~Decided.r.is_cgi_
  BY <1>1, DecidedWell
<1> HIDE DEF Decided
<1>6. TypeOK'
  BY <1>1, <1>2, <1>3, <1>4, <1>5 DEF IInv, TypeOK, Locations
<1>7. Linked'
  BY <1>1, <1>2, <1>3, <1>5 DEF IInv, Linked
<1> QED
  BY <1>2, <1>6, <1>7 DEF IInv, Shape

THEOREM Invariance == Spec => []IInv
<1>1. IInv /\ [Next]_vars => IInv'
  <2> SUFFICES ASSUME IInv, [Next]_vars PROVE IInv'
    OBVIOUS
  <2>1. CASE UNCHANGED vars
    BY <2>1 DEF vars, IInv, TypeOK, Shape, Linked
  <2> QED
    BY <2>1, MainKeeps, DelimeterKeeps, DepthKeeps, CgiKeeps, QueryKeeps, FragmentKeeps,
       DoneKeeps DEF Next
<1> QED
  BY InitIInv, <1>1, PTL DEF Spec

(* The variables have their types; in particular the walk never steps past *)
(* the end of the target.                                                  *)
THEOREM TypeCorrect == Spec => []TypeOK
<1>1. IInv => TypeOK
  BY DEF IInv
<1> QED
  BY Invariance, <1>1, PTL

(* get_uri_location_t_ follows no null pointer, and no CGI program is      *)
(* started for a target that no location serves.                           *)
THEOREM CgiSafe == Spec => []CgiHasLocation
<1>1. IInv => CgiHasLocation
  BY DEF IInv, Linked, CgiHasLocation, Nowhere
<1> QED
  BY Invariance, <1>1, PTL

-----------------------------------------------------------------------------
(***************************************************************************)
(* The pieces: what the walk cuts off is what the target says.             *)
(***************************************************************************)
(* The pieces the walk has cut off so far, and how much of the path.       *)
PathEnd == First({"?", "#"})
Walked  == IF it <= PathEnd THEN it ELSE PathEnd
Walking == {"uri_find_delimeter_case", "uri_depth", "uri_cgi", "uri_query", "uri_fragment",
            "uri_done"}
InPath  == {"uri_find_delimeter_case", "uri_depth", "uri_cgi"}
Front   == IF "notfound_uri" \in flags THEN <<>> ELSE return_location_root.uri
Pieces  == Front \o r.script_name_ \o r.path_info_

EndsInSlash(s) == s # <<>> /\ s[Len(s)] = "/"
\* Two texts that path_resolve_ does not tell apart, whatever follows them.
Same(s, t) == path_resolve_(s) = path_resolve_(t) /\ (EndsInSlash(s) <=> EndsInSlash(t))

-----------------------------------------------------------------------------
(* path_resolve_ goes over a text from the front: one more character adds  *)
(* one to what it gives, unless it is a slash behind a slash.              *)
Chars == STRING \union {Decode[c] : c \in Encoded}
Decoded(c) == IF c \in Encoded THEN Decode[c] ELSE c
Squeezed(s, k) == s[k] = "/" /\ k > 1 /\ s[k - 1] = "/"
Equations(s, g) ==
    /\ g \in [0 .. Len(s) -> Seq(Chars)] /\ g[0] = <<>>
    /\ \A k \in 1 .. Len(s) :
          g[k] = IF Squeezed(s, k) THEN g[k - 1] ELSE Append(g[k - 1], Decoded(s[k]))

LEMMA ResolvedBy ==
  ASSUME NEW s \in Seq(STRING)
  PROVE  \E g : Equations(s, g) /\ path_resolve_(s) = g[Len(s)]
<1> DEFINE n == Len(s)
           Is(f) == f = [k \in 0 .. n |->
                           IF k = 0 THEN <<>>
                           ELSE IF s[k] = "/" /\ k > 1 /\ s[k - 1] = "/" THEN f[k - 1]
                           ELSE Append(f[k - 1], IF s[k] \in Encoded THEN Decode[s[k]] ELSE s[k])]
           Upto(g, m) == /\ g \in [0 .. m -> Seq(Chars)] /\ g[0] = <<>>
                         /\ \A k \in 1 .. m :
                               g[k] = IF Squeezed(s, k) THEN g[k - 1]
                                      ELSE Append(g[k - 1], Decoded(s[k]))
           T == {m \in 0 .. n : \E g : Upto(g, m)}
<1>1. n \in Nat /\ \A k \in 1 .. n : Decoded(s[k]) \in Chars
  BY DEF Decoded, Chars
<1>2. 0 \in T
  <2>1. Upto([k \in 0 .. 0 |-> <<>>], 0)
    OBVIOUS
  <2> HIDE DEF Upto
  <2> QED
    BY <1>1, <2>1
<1>3. ASSUME NEW m \in 0 .. n - 1, m \in T PROVE m + 1 \in T
  <2>1. PICK g : Upto(g, m)
    BY <1>3
  <2>2. m + 1 \in 1 .. n /\ m \in Nat
    BY <1>1
  <2> DEFINE x == IF Squeezed(s, m + 1) THEN g[m] ELSE Append(g[m], Decoded(s[m + 1]))
             w == [k \in 0 .. m + 1 |-> IF k <= m THEN g[k] ELSE x]
  <2>3. x \in Seq(Chars)
    BY <1>1, <2>1, <2>2
  <2> HIDE DEF x
  <2>4. w \in [0 .. m + 1 -> Seq(Chars)] /\ w[0] = <<>>
    BY <2>1, <2>2, <2>3
  <2>5. \A k \in 1 .. m + 1 : w[k] = IF Squeezed(s, k) THEN w[k - 1]
                                      ELSE Append(w[k - 1], Decoded(s[k]))
    <3> TAKE k \in 1 .. m + 1
    <3>1. CASE k <= m
      BY <2>1, <2>2, <3>1
    <3>2. CASE k = m + 1
      <4>1. w[k] = x /\ w[k - 1] = g[m]
        BY <2>2, <3>2
      <4> QED
        BY <3>2, <4>1 DEF x
    <3> QED
      BY <2>2, <3>1, <3>2
  <2>6. Upto(w, m + 1)
    BY <2>4, <2>5
  <2> HIDE DEF Upto, w
  <2> QED
    BY <2>2, <2>6
<1>4. n \in T
  <2> HIDE DEF T
  <2> QED
    BY <1>1, <1>2, <1>3, UpTo
<1>5. PICK g : Upto(g, n)
  BY <1>4
<1>6. Is(g)
  <2> DEFINE body(k) == IF k = 0 THEN <<>>
                        ELSE IF s[k] = "/" /\ k > 1 /\ s[k - 1] = "/" THEN g[k - 1]
                        ELSE Append(g[k - 1], IF s[k] \in Encoded THEN Decode[s[k]] ELSE s[k])
  <2>1. \A k \in 0 .. n : g[k] = body(k)
    <3>1. g[0] = body(0)
      BY <1>5
    <3>2. ASSUME NEW k \in 1 .. n PROVE g[k] = body(k)
      <4>1. g[k] = IF Squeezed(s, k) THEN g[k - 1] ELSE Append(g[k - 1], Decoded(s[k]))
        BY <1>5
      <4>2. k # 0
        BY <1>1
      <4> QED
        BY <4>1, <4>2 DEF Squeezed, Decoded
    <3>3. \A k \in 0 .. n : k = 0 \/ k \in 1 .. n
      BY <1>1
    <3> HIDE DEF body
    <3> QED
      BY <3>1, <3>2, <3>3
  <2>2. g \in [0 .. n -> Seq(Chars)]
    BY <1>5
  <2> HIDE DEF body
  <2>3. g = [k \in 0 .. n |-> body(k)]
    BY <2>1, <2>2
  <2> QED
    BY <2>3 DEF body
<1> DEFINE f == CHOOSE f : Is(f)
<1>7. Is(f)
  <2> HIDE DEF Is
  <2> QED
    BY <1>6
<1>8. path_resolve_(s) = f[n]
  BY DEF path_resolve_
<1> HIDE DEF f
<1>9. \A k \in 0 .. n : f[k] = g[k]
  <2> DEFINE U == {k \in 0 .. n : f[k] = g[k]}
  <2>1. 0 \in U
    BY <1>1, <1>5, <1>7
  <2>2. ASSUME NEW k \in 0 .. n - 1, k \in U PROVE k + 1 \in U
    <3>1. k + 1 \in 1 .. n /\ k + 1 \in 0 .. n /\ (k + 1) - 1 = k /\ f[k] = g[k] /\ k + 1 # 0
      BY <1>1, <2>2
    <3>2. g[k + 1] = IF Squeezed(s, k + 1) THEN g[k] ELSE Append(g[k], Decoded(s[k + 1]))
      BY <1>5, <3>1
    <3>3. f[k + 1] = IF Squeezed(s, k + 1) THEN f[k] ELSE Append(f[k], Decoded(s[k + 1]))
      BY <1>7, <3>1 DEF Squeezed, Decoded
    <3> QED
      BY <3>1, <3>2, <3>3
  <2> HIDE DEF U
  <2>3. ASSUME NEW m \in 0 .. n PROVE m \in U
    <3>1. m \in Nat /\ \A k \in 0 .. m - 1 : k \in 0 .. n - 1
      BY <1>1
    <3> QED
      BY <2>1, <2>2, <3>1, UpTo
  <2> QED
    BY <2>3 DEF U
<1>10. Equations(s, g)
  BY <1>5 DEF Equations
<1> QED
  BY <1>1, <1>8, <1>9, <1>10

\* What s resolves to, and s with one character more.
LEMMA ResolveStep ==
  ASSUME NEW s \in Seq(STRING), NEW c \in STRING
  PROVE  /\ path_resolve_(s) \in Seq(Chars)
         /\ path_resolve_(Append(s, c)) =
               IF c = "/" /\ EndsInSlash(s) THEN path_resolve_(s)
               ELSE Append(path_resolve_(s), Decoded(c))
<1> DEFINE n == Len(s)
           t == Append(s, c)
<1>1. /\ n \in Nat /\ t \in Seq(STRING) /\ Len(t) = n + 1 /\ t[n + 1] = c
      /\ \A k \in 1 .. n : t[k] = s[k]
  <2>1. /\ Append(s, c) \in Seq(STRING) /\ Len(Append(s, c)) = Len(s) + 1
        /\ Append(s, c)[Len(s) + 1] = c
    BY AppendProperties
  <2>2. \A k \in 1 .. Len(s) : Append(s, c)[k] = s[k]
    OBVIOUS
  <2>3. Len(s) \in Nat
    OBVIOUS
  <2> HIDE DEF t, n
  <2> QED
    BY <2>1, <2>2, <2>3 DEF t, n
<1>2. PICK g : Equations(s, g) /\ path_resolve_(s) = g[n]
  BY ResolvedBy
<1> HIDE DEF t
<1>3. PICK h : Equations(t, h) /\ path_resolve_(t) = h[n + 1]
  BY <1>1, ResolvedBy
<1>4. \A k \in 1 .. n : Squeezed(t, k) <=> Squeezed(s, k)
  BY <1>1 DEF Squeezed
<1> DEFINE U == {k \in 0 .. n : h[k] = g[k]}
<1>5. 0 \in U
  BY <1>1, <1>2, <1>3 DEF Equations
<1>6. ASSUME NEW k \in 0 .. n - 1, k \in U PROVE k + 1 \in U
  <2>1. k + 1 \in 1 .. n /\ k + 1 \in 0 .. n /\ (k + 1) - 1 = k /\ h[k] = g[k] /\ k + 1 \in 1 .. n + 1
    BY <1>1, <1>6
  <2>2. g[k + 1] = IF Squeezed(s, k + 1) THEN g[k] ELSE Append(g[k], Decoded(s[k + 1]))
    BY <1>2, <2>1 DEF Equations
  <2>3. h[k + 1] = IF Squeezed(t, k + 1) THEN h[k] ELSE Append(h[k], Decoded(t[k + 1]))
    BY <1>1, <1>3, <2>1 DEF Equations
  <2> QED
    BY <1>1, <1>4, <2>1, <2>2, <2>3
<1>7. n \in U
  <2> HIDE DEF U
  <2> QED
    BY <1>1, <1>5, <1>6, UpTo
<1>8. h[n + 1] = IF Squeezed(t, n + 1) THEN h[n] ELSE Append(h[n], Decoded(t[n + 1]))
  <2>1. n + 1 \in 1 .. n + 1 /\ (n + 1) - 1 = n
    BY <1>1
  <2> QED
    BY <1>1, <1>3, <2>1 DEF Equations
<1>9. Squeezed(t, n + 1) <=> c = "/" /\ EndsInSlash(s)
  <2>1. n + 1 > 1 <=> s # <<>>
    BY <1>1
  <2>2. s # <<>> => (n + 1) - 1 = n /\ n \in 1 .. n
    BY <1>1
  <2> QED
    BY <1>1, <2>1, <2>2 DEF Squeezed, EndsInSlash
<1>10. g[n] \in Seq(Chars)
  BY <1>1, <1>2 DEF Equations
<1> QED
  BY <1>1, <1>2, <1>3, <1>7, <1>8, <1>9, <1>10 DEF t

LEMMA SameStep ==
  ASSUME NEW s \in Seq(STRING), NEW t \in Seq(STRING), Same(s, t), NEW c \in STRING
  PROVE  Same(Append(s, c), Append(t, c))
<1>1. EndsInSlash(Append(s, c)) <=> EndsInSlash(Append(t, c))
  BY AppendProperties DEF EndsInSlash
<1>2. path_resolve_(Append(s, c)) = path_resolve_(Append(t, c))
  BY ResolveStep DEF Same
<1> QED
  BY <1>1, <1>2 DEF Same

LEMMA SameSlash ==
  ASSUME NEW s \in Seq(STRING), EndsInSlash(s), "/" \in STRING
  PROVE  Same(s, Append(s, "/")) /\ EndsInSlash(Append(s, "/"))
<1>1. EndsInSlash(Append(s, "/"))
  BY AppendProperties DEF EndsInSlash
<1>2. path_resolve_(Append(s, "/")) = path_resolve_(s)
  BY ResolveStep
<1> QED
  BY <1>1, <1>2 DEF Same

\* The target up to a place.
Upto(i) == SubSeq(uri, 1, i)

LEMMA UptoStep ==
  ASSUME uri \in Uris, NEW i \in 0 .. Len(uri)
  PROVE  /\ Upto(i) \in Seq(STRING)
         /\ i < Len(uri) => Upto(i + 1) = Append(Upto(i), uri[i + 1])
<1>1. uri \in Seq(STRING) /\ i \in Nat /\ Len(uri) \in Nat
  BY TargetIs
<1>2. Upto(i) \in Seq(STRING)
  <2>1. \A k \in 1 .. i : uri[k] \in STRING
    BY <1>1
  <2> QED
    BY <1>1, <2>1, SubSeqProperties DEF Upto
<1>3. ASSUME i < Len(uri) PROVE Upto(i + 1) = Append(Upto(i), uri[i + 1])
  <2>1. 1 \in 1 .. Len(uri) /\ i + 1 \in 1 .. Len(uri) /\ (i + 1) - 1 = i
    BY <1>1, <1>3
  <2>2. SubSeq(uri, 1, i + 1) = SubSeq(uri, 1, i) \o <<uri[i + 1]>>
    BY <1>1, <2>1, SubSeqRecursiveSecond
  <2>3. uri[i + 1] \in STRING
    BY <1>1, <2>1
  <2> HIDE DEF Upto
  <2>4. Append(Upto(i), uri[i + 1]) = Upto(i) \o <<uri[i + 1]>>
    BY <1>2, <2>3, AppendIsConcat
  <2> QED
    BY <2>2, <2>4 DEF Upto
<1> QED
  BY <1>2, <1>3

\* A text that stands for the target up to i still does when both go on.
LEMMA SameFurther ==
  ASSUME uri \in Uris, NEW i \in 1 .. Len(uri) + 1, NEW j \in i .. Len(uri) + 1,
         NEW s \in Seq(STRING), Same(s, Upto(i - 1))
  PROVE  s \o From(i, j) \in Seq(STRING) /\ Same(s \o From(i, j), Upto(j - 1))
<1> DEFINE n == j - i
           T == {m \in 0 .. n : /\ s \o From(i, i + m) \in Seq(STRING)
                                /\ Same(s \o From(i, i + m), Upto((i + m) - 1))}
<1>1. uri \in Seq(STRING) /\ i \in Nat /\ j \in Nat /\ n \in Nat /\ Len(uri) \in Nat /\ i + n = j
  BY TargetIs
<1>2. 0 \in T
  <2>1. From(i, i) = <<>>
    <3>1. i \in Int /\ i - 1 \in Int /\ i - 1 < i
      BY <1>1
    <3> QED
      BY <3>1, SubSeqEmpty DEF From
  <2>2. s \o <<>> = s
    OBVIOUS
  <2>3. i + 0 = i
    BY <1>1
  <2> QED
    BY <1>1, <2>1, <2>2, <2>3
<1>3. ASSUME NEW m \in 0 .. n - 1, m \in T PROVE m + 1 \in T
  <2> DEFINE p == i + m
             c == uri[p]
             f == From(i, p)
             u == Upto(p - 1)
  <2>1. /\ p \in i .. Len(uri) /\ p \in 1 .. Len(uri) /\ i \in 1 .. Len(uri) /\ i + (m + 1) = p + 1
        /\ p - 1 \in 0 .. Len(uri) /\ p - 1 < Len(uri) /\ (p - 1) + 1 = p /\ (p + 1) - 1 = p
        /\ m + 1 \in 0 .. n
    BY <1>1
  <2>2. s \o f \in Seq(STRING) /\ Same(s \o f, u)
    BY <1>3
  <2>3. c \in STRING /\ f \in Seq(STRING)
    <3>1. \A k \in i .. p - 1 : uri[k] \in STRING
      BY <1>1, <2>1
    <3>2. i \in Int /\ p - 1 \in Int
      BY <1>1, <2>1
    <3> HIDE DEF p
    <3>3. SubSeq(uri, i, p - 1) \in Seq(STRING)
      BY <3>1, <3>2, SubSeqProperties
    <3> QED
      BY <1>1, <2>1, <3>3 DEF From
  <2> HIDE DEF p
  <2>4. u \in Seq(STRING) /\ Upto(p) = Append(u, c)
    BY <2>1, UptoStep
  <2>5. From(i, p + 1) = f \o <<c>>
    <3>1. SubSeq(uri, i, p) = SubSeq(uri, i, p - 1) \o <<uri[p]>>
      BY <1>1, <2>1, SubSeqRecursiveSecond
    <3> QED
      BY <2>1, <3>1 DEF From
  <2> HIDE DEF c, f, u
  <2>6. s \o (f \o <<c>>) = Append(s \o f, c)
    <3>1. s \o (f \o <<c>>) = (s \o f) \o <<c>>
      BY <2>3, ConcatAssociative
    <3>2. Append(s \o f, c) = (s \o f) \o <<c>>
      BY <2>2, <2>3, AppendIsConcat
    <3> QED
      BY <3>1, <3>2
  <2>7. Same(Append(s \o f, c), Append(u, c))
    BY <2>2, <2>3, <2>4, SameStep
  <2>8. Append(s \o f, c) \in Seq(STRING)
    BY <2>2, <2>3, AppendProperties
  <2>9. /\ s \o From(i, i + (m + 1)) \in Seq(STRING)
        /\ Same(s \o From(i, i + (m + 1)), Upto((i + (m + 1)) - 1))
    BY <2>1, <2>4, <2>5, <2>6, <2>7, <2>8
  <2> QED
    BY <2>1, <2>9
<1>4. n \in T
  <2> HIDE DEF T, n
  <2> QED
    BY <1>1, <1>2, <1>3, UpTo
<1> QED
  BY <1>1, <1>4

\* Behind a slash, more slashes make no difference.
LEMMA SameSlashes ==
  ASSUME uri \in Uris, NEW i \in 1 .. Len(uri) + 1, NEW j \in i .. Len(uri) + 1,
         NEW s \in Seq(STRING), EndsInSlash(s), Same(s, Upto(i - 1)), \A k \in i .. j - 1 : uri[k] = "/"
  PROVE  Same(s, Upto(j - 1))
<1> DEFINE n == j - i
           T == {m \in 0 .. n : Same(s, Upto((i + m) - 1))}
<1>1. uri \in Seq(STRING) /\ i \in Nat /\ j \in Nat /\ n \in Nat /\ Len(uri) \in Nat /\ i + n = j
  BY TargetIs
<1>2. 0 \in T
  <2>1. i + 0 = i
    BY <1>1
  <2> QED
    BY <1>1, <2>1
<1>3. ASSUME NEW m \in 0 .. n - 1, m \in T PROVE m + 1 \in T
  <2> DEFINE p == i + m
             u == Upto(p - 1)
  <2>1. /\ p \in i .. j - 1 /\ p \in 1 .. Len(uri) /\ i + (m + 1) = p + 1
        /\ p - 1 \in 0 .. Len(uri) /\ p - 1 < Len(uri) /\ (p - 1) + 1 = p /\ (p + 1) - 1 = p
        /\ m + 1 \in 0 .. n
    BY <1>1
  <2>2. Same(s, u)
    BY <1>3
  <2> HIDE DEF p
  <2>3. uri[p] = "/" /\ "/" \in STRING
    BY <1>1, <2>1
  <2>4. u \in Seq(STRING) /\ Upto(p) = Append(u, "/")
    BY <2>1, <2>3, UptoStep
  <2>5. EndsInSlash(u)
    BY <2>2 DEF Same
  <2> HIDE DEF u
  <2>6. Same(u, Append(u, "/"))
    BY <2>3, <2>4, <2>5, SameSlash
  <2>7. Same(s, Upto((i + (m + 1)) - 1))
    BY <2>1, <2>2, <2>4, <2>6 DEF Same
  <2> QED
    BY <2>1, <2>7
<1>4. n \in T
  <2> HIDE DEF T, n
  <2> QED
    BY <1>1, <1>2, <1>3, UpTo
<1> QED
  BY <1>1, <1>4

\* Where the switch stands, from what it has seen.
Placed ==
    /\ uri \in Uris
    /\ state # "uri_end" =>
          /\ r.script_name_ \in Seq(STRING) /\ r.path_info_ \in Seq(STRING)
          /\ "cgi" \notin flags => r.path_info_ = <<>>
    /\ state = "uri_main" =>
          it = 1 /\ r.script_name_ = <<>> /\ r.path_info_ = <<>>
    /\ state = "uri_find_delimeter_case" /\ it <= Len(uri) => uri[it] \in Delimiters
    /\ state = "uri_find_delimeter_case" /\ it > PathEnd =>
          uri[PathEnd] = "?" /\ it = First({"#"})
    /\ state = "uri_depth" => it < PathEnd /\ uri[it] = "/"
    /\ state = "uri_cgi" => it < PathEnd /\ uri[it] = "."
    /\ state = "uri_query" => it = PathEnd + 1 /\ At(PathEnd) = "?"
    /\ state = "uri_fragment" => it = First({"#"}) + 1 /\ First({"#"}) <= Len(uri)
    /\ state = "uri_done" => it > Len(uri)

\* What has been cut off is what the reference reads off.
Stands == Same(Pieces, Upto(Walked - 1))
Cut ==
    /\ state \in Walking => Stands
    /\ state \in {"uri_main", "uri_query"} \/ (state \in InPath /\ it <= PathEnd) =>
          r.query_string_ = <<>>
    /\ (state \in InPath /\ it > PathEnd) \/ state \in {"uri_fragment", "uri_done"} =>
          r.query_string_ = Query
    /\ state # "uri_end" => r.fragment_ = IF state = "uri_done" THEN Fragment ELSE <<>>

\* Where the first component begins, and where its letters end.
Begins == Past(1, {"/"})
Dotted == Past(Begins, Letter)

-----------------------------------------------------------------------------
(* The first of some characters.                                           *)
LEMMA FirstIs ==
  ASSUME uri \in Uris, NEW chars
  PROVE  /\ First(chars) \in 1 .. Len(uri) + 1
         /\ \A k \in 1 .. First(chars) - 1 : uri[k] \notin chars
         /\ First(chars) <= Len(uri) => uri[First(chars)] \in chars
<1> DEFINE at == {i \in DOMAIN uri : uri[i] \in chars}
           Is(i) == i \in at /\ \A j \in at : i <= j
<1>1. DOMAIN uri = 1 .. Len(uri) /\ Len(uri) \in Nat
  BY TargetIs
<1>2. CASE at = {}
  <2>1. First(chars) = Len(uri) + 1
    BY <1>2 DEF First
  <2>2. \A k \in 1 .. Len(uri) : uri[k] \notin chars
    BY <1>1, <1>2
  <2> QED
    BY <1>1, <2>1, <2>2
<1>3. CASE at # {}
  <2>1. at \subseteq Nat
    BY <1>1
  <2>2. PICK m \in at : \A j \in at : m <= j
    <3> HIDE DEF at
    <3> QED
      BY <1>3, <2>1, LeastOf
  <2>3. First(chars) = CHOOSE i \in at : \A j \in at : i <= j
    BY <1>3 DEF First
  <2> DEFINE f == CHOOSE i \in at : \A j \in at : i <= j
  <2>4. f \in at /\ \A j \in at : f <= j
    <3> HIDE DEF at
    <3> QED
      BY <2>2
  <2> HIDE DEF f
  <2>5. f \in 1 .. Len(uri) /\ uri[f] \in chars
    BY <1>1, <2>4
  <2>6. \A k \in 1 .. f - 1 : uri[k] \notin chars
    <3> SUFFICES ASSUME NEW k \in 1 .. f - 1, uri[k] \in chars PROVE FALSE
      OBVIOUS
    <3>1. k \in at /\ k < f
      BY <1>1, <2>5
    <3> QED
      BY <1>1, <2>4, <2>5, <3>1
  <2> QED
    BY <1>1, <2>3, <2>5, <2>6 DEF f
<1> QED
  BY <1>2, <1>3

LEMMA FirstUnique ==
  ASSUME uri \in Uris, NEW chars, NEW j \in 1 .. Len(uri) + 1,
         \A k \in 1 .. j - 1 : uri[k] \notin chars, j <= Len(uri) => uri[j] \in chars
  PROVE  First(chars) = j
<1> DEFINE i == First(chars)
<1>1. /\ i \in 1 .. Len(uri) + 1
      /\ \A k \in 1 .. i - 1 : uri[k] \notin chars
      /\ i <= Len(uri) => uri[i] \in chars
  BY FirstIs
<1>2. Len(uri) \in Nat
  BY TargetIs
<1> HIDE DEF i
<1>3. ~(i < j)
  <2> SUFFICES ASSUME i < j PROVE FALSE
    OBVIOUS
  <2>1. i \in 1 .. j - 1 /\ i <= Len(uri)
    BY <1>1, <1>2
  <2> QED
    BY <1>1, <2>1
<1>4. ~(j < i)
  <2> SUFFICES ASSUME j < i PROVE FALSE
    OBVIOUS
  <2>1. j \in 1 .. i - 1 /\ j <= Len(uri)
    BY <1>1, <1>2
  <2> QED
    BY <1>1, <2>1
<1>5. i = j
  BY <1>1, <1>2, <1>3, <1>4
<1> QED
  BY <1>5 DEF i

\* Whatever stays within the path ends by its end.
LEMMA WithinPath ==
  ASSUME uri \in Uris, NEW i \in 1 .. Len(uri) + 1, i <= PathEnd, NEW j \in i .. Len(uri) + 1,
         \A k \in i .. j - 1 : uri[k] \notin {"?", "#"}
  PROVE  j <= PathEnd
<1>1. /\ PathEnd \in 1 .. Len(uri) + 1
      /\ PathEnd <= Len(uri) => uri[PathEnd] \in {"?", "#"}
  BY FirstIs DEF PathEnd
<1>2. Len(uri) \in Nat
  BY TargetIs
<1> SUFFICES ASSUME PathEnd < j PROVE FALSE
  BY <1>1, <1>2
<1>3. PathEnd \in i .. j - 1 /\ PathEnd <= Len(uri)
  BY <1>1, <1>2
<1> QED
  BY <1>1, <1>3

\* What is said of the target and the server block only does not change.
LEMMA Static ==
  ASSUME UNCHANGED <<conf, method, uri>>
  PROVE  /\ PathEnd' = PathEnd /\ Path' = Path /\ Query' = Query /\ Fragment' = Fragment
         /\ \A chars : First(chars)' = First(chars)
         /\ \A i : At(i)' = At(i)
         /\ \A i : Upto(i)' = Upto(i)
         /\ Begins' = Begins /\ Dotted' = Dotted
BY DEF PathEnd, Path, Query, Fragment, First, At, Upto, Begins, Dotted, Past

-----------------------------------------------------------------------------
(* What each step of the walk does to the position, the pieces and the     *)
(* flags.  A component is a run of slashes and then letters.               *)
Lettered(i) == Past(Past(i, {"/"}), usual_for_uri_parse_)
Component(i) == <<"/">> \o From(Past(i, {"/"}), Lettered(i))
Known == Component(it) \in DOMAIN conf.uri_case /\ At(Lettered(it)) # "."
Served == IF Known THEN conf.uri_case[Component(it)] ELSE conf.uri_case[<<"/">>]
Kept == UNCHANGED <<conf, method, uri>>

LEMMA MainDoes ==
  ASSUME IInv, uri_main
  PROVE  /\ state = "uri_main" /\ state' \in {"uri_find_delimeter_case", "thrown"}
         /\ it' = Lettered(it) /\ Kept
         /\ return_location' = Served /\ return_location_root' = Served
         /\ flags' \subseteq {"notfound_uri", "cgi", "cgi_pass"}
         /\ "notfound_uri" \in flags' <=> ~Known
         /\ "cgi" \in flags' <=> "cgi_pass" \in flags'
         /\ state' # "thrown" => ("cgi_pass" \in flags' <=> Served.cgi_pass # <<>>)
         /\ r'.script_name_ = IF Known THEN r.script_name_ ELSE r.script_name_ \o Component(it)
         /\ r'.path_info_ = r.path_info_ /\ r'.query_string_ = r.query_string_
         /\ r'.fragment_ = r.fragment_
         /\ "cgi" \in flags' => r'.is_cgi_ /\ r'.cgi_loc_ = Served
         /\ "cgi" \notin flags' => ~r'.is_cgi_
<1> DEFINE missed == IF Known THEN {} ELSE {"notfound_uri"}
           named == [r EXCEPT !.script_name_ = IF Known THEN @ ELSE @ \o Component(it)]
<1>1. /\ named = [f \in Fields |-> named[f]]
      /\ named.script_name_ = IF Known THEN r.script_name_ ELSE r.script_name_ \o Component(it)
      /\ named.path_info_ = r.path_info_ /\ named.query_string_ = r.query_string_
      /\ named.fragment_ = r.fragment_ /\ named.is_cgi_ = r.is_cgi_
  <2> HIDE DEF Known, Component
  <2> QED
    BY DEF IInv, Shape, Fields
<1>2. /\ state = "uri_main" /\ it' = Lettered(it) /\ Kept
      /\ return_location' = Served /\ return_location_root' = Served
  BY DEF uri_main, Lettered, Component, Known, Served, Kept
<1>3. \/ /\ Served.cgi_pass = <<>>
         /\ flags' = flags \union missed /\ r' = named
         /\ state' = "uri_find_delimeter_case"
      \/ /\ Served.cgi_pass # <<>>
         /\ flags' = flags \union missed \union {"cgi", "cgi_pass"}
         /\ \E g : r' = [named EXCEPT !.is_cgi_ = TRUE, !.cgi_loc_ = Served, !.cgi_path_info_ = g]
         /\ state' = "uri_find_delimeter_case"
      \/ /\ flags' = flags \union missed /\ r' = named /\ state' = "thrown"
  BY DEF uri_main, Lettered, Component, Known, Served
<1>4. flags = {} /\ r.cgi_loc_ = NULL /\ ~r.is_cgi_
  BY <1>2 DEF IInv, Linked
<1> HIDE DEF named
<1>5. \/ r' = named
      \/ /\ r'.script_name_ = named.script_name_ /\ r'.path_info_ = named.path_info_
         /\ r'.query_string_ = named.query_string_ /\ r'.fragment_ = named.fragment_
         /\ r'.is_cgi_ /\ r'.cgi_loc_ = Served
  <2> HIDE DEF Served, missed
  <2> QED
    BY <1>1, <1>3 DEF Fields
<1>6. "cgi" \in flags' => r'.is_cgi_ /\ r'.cgi_loc_ = Served
  <2> HIDE DEF Served, Known
  <2> DEFINE Passed == \E g : r' = [named EXCEPT !.is_cgi_ = TRUE, !.cgi_loc_ = Served,
                                                !.cgi_path_info_ = g]
  <2>1. "cgi" \in flags' => Passed
    <3>1. Passed \/ flags' = flags \union missed
      BY <1>3
    <3>2. "cgi" \notin flags \union missed
      BY <1>4
    <3> HIDE DEF Passed, missed
    <3> QED
      BY <3>1, <3>2
  <2>2. ASSUME NEW g, r' = [named EXCEPT !.is_cgi_ = TRUE, !.cgi_loc_ = Served, !.cgi_path_info_ = g]
        PROVE  r'.is_cgi_ /\ r'.cgi_loc_ = Served
    BY <1>1, <2>2 DEF Fields
  <2> QED
    BY <2>1, <2>2
<1>7. "cgi" \notin flags' => r' = named
  <2> HIDE DEF Served, Known
  <2> QED
    BY <1>3
<1>8. /\ flags' \subseteq {"notfound_uri", "cgi", "cgi_pass"}
      /\ "notfound_uri" \in flags' <=> ~Known
      /\ "cgi" \in flags' <=> "cgi_pass" \in flags'
      /\ state' # "thrown" => ("cgi_pass" \in flags' <=> Served.cgi_pass # <<>>)
      /\ state' \in {"uri_find_delimeter_case", "thrown"}
  <2> HIDE DEF Served, Known
  <2> QED
    BY <1>3, <1>4
<1> HIDE DEF Served, Known, Component, missed
<1> QED
  BY <1>1, <1>2, <1>4, <1>5, <1>6, <1>7, <1>8

LEMMA DepthDoes ==
  ASSUME IInv, uri_depth
  PROVE  /\ state = "uri_depth" /\ state' = "uri_find_delimeter_case" /\ Kept
         /\ UNCHANGED <<return_location, return_location_root>>
         /\ r'.query_string_ = r.query_string_ /\ r'.fragment_ = r.fragment_
         /\ r'.is_cgi_ = r.is_cgi_ /\ r'.cgi_loc_ = r.cgi_loc_
         /\ \/ /\ "cgi" \in flags /\ flags' = flags \union {"path_info"}
               /\ it' = Past(Lettered(it), except_query_fragment_)
               /\ r'.script_name_ = r.script_name_
               /\ r'.path_info_ = r.path_info_ \o Component(it) \o From(Lettered(it), it')
            \/ /\ "cgi" \notin flags /\ flags' = flags \union {"depth_uri"}
               /\ it' = Lettered(it)
               /\ r'.script_name_ = r.script_name_ \o Component(it)
               /\ r'.path_info_ = r.path_info_
<1>1. /\ state = "uri_depth" /\ state' = "uri_find_delimeter_case" /\ Kept
      /\ UNCHANGED <<return_location, return_location_root>>
      /\ \/ /\ "cgi" \in flags /\ flags' = flags \union {"path_info"}
            /\ it' = Past(Lettered(it), except_query_fragment_)
            /\ r' = [r EXCEPT !.path_info_ = @ \o Component(it) \o From(Lettered(it), it')]
         \/ /\ "cgi" \notin flags /\ flags' = flags \union {"depth_uri"}
            /\ it' = Lettered(it)
            /\ r' = [r EXCEPT !.script_name_ = @ \o Component(it)]
  BY DEF uri_depth, Lettered, Component, Kept
<1> HIDE DEF Component, Lettered
<1> QED
  BY <1>1 DEF IInv, Shape, Fields

LEMMA CgiDoes ==
  ASSUME IInv, uri_cgi
  PROVE  /\ state = "uri_cgi" /\ state' = "uri_find_delimeter_case" /\ Kept
         /\ UNCHANGED return_location_root
         /\ it' = Past(it, except_slash_query_fragment_)
         /\ r'.query_string_ = r.query_string_ /\ r'.fragment_ = r.fragment_
         /\ \/ /\ "cgi" \in flags
               /\ r'.script_name_ = r.script_name_
               /\ r'.path_info_ = r.path_info_ \o From(it, it')
               /\ UNCHANGED <<flags, return_location>>
               /\ r'.is_cgi_ = r.is_cgi_ /\ r'.cgi_loc_ = r.cgi_loc_
            \/ /\ "cgi" \notin flags
               /\ r'.script_name_ = r.script_name_ \o From(it, it')
               /\ r'.path_info_ = r.path_info_
               /\ \/ /\ HasDot(From(it, it')) /\ Extension(From(it, it')) \in DOMAIN conf.cgi_case
                     /\ r'.is_cgi_ /\ r'.cgi_loc_ = conf.cgi_case[Extension(From(it, it'))]
                     /\ return_location' = r'.cgi_loc_
                     /\ flags' = flags \union {"cgi"}
                  \/ /\ ~(HasDot(From(it, it')) /\ Extension(From(it, it')) \in DOMAIN conf.cgi_case)
                     /\ UNCHANGED return_location
                     /\ flags' = flags \union {"check_extension"}
                     /\ r'.is_cgi_ = r.is_cgi_ /\ r'.cgi_loc_ = r.cgi_loc_
<1> DEFINE temp == From(it, it')
           cgi == HasDot(temp) /\ Extension(temp) \in DOMAIN conf.cgi_case
           loc == conf.cgi_case[Extension(temp)]
           named == [r EXCEPT !.script_name_ = @ \o temp]
<1>1. /\ state = "uri_cgi" /\ state' = "uri_find_delimeter_case" /\ Kept
      /\ UNCHANGED return_location_root
      /\ it' = Past(it, except_slash_query_fragment_)
      /\ \/ /\ "cgi" \in flags
            /\ r' = [r EXCEPT !.path_info_ = @ \o temp]
            /\ UNCHANGED <<flags, return_location>>
         \/ /\ "cgi" \notin flags /\ cgi
            /\ \E g : r' = [named EXCEPT !.cgi_loc_ = loc, !.is_cgi_ = TRUE, !.cgi_path_info_ = g]
            /\ return_location' = loc
            /\ flags' = flags \union {"cgi"}
         \/ /\ "cgi" \notin flags /\ ~cgi
            /\ r' = named
            /\ flags' = flags \union {"check_extension"}
            /\ UNCHANGED return_location
  BY DEF uri_cgi, Kept
<1> HIDE DEF temp, cgi, loc
<1>2. /\ named = [f \in Fields |-> named[f]]
      /\ named.script_name_ = r.script_name_ \o temp /\ named.path_info_ = r.path_info_
      /\ named.query_string_ = r.query_string_ /\ named.fragment_ = r.fragment_
      /\ named.is_cgi_ = r.is_cgi_ /\ named.cgi_loc_ = r.cgi_loc_
  BY DEF IInv, Shape, Fields
<1> HIDE DEF named
<1>3. CASE "cgi" \in flags
  BY <1>1, <1>3 DEF IInv, Shape, Fields, temp
<1>4. CASE "cgi" \notin flags /\ cgi
  <2>1. /\ r'.script_name_ = r.script_name_ \o temp /\ r'.path_info_ = r.path_info_
        /\ r'.query_string_ = r.query_string_ /\ r'.fragment_ = r.fragment_
        /\ r'.is_cgi_ /\ r'.cgi_loc_ = loc
    BY <1>1, <1>2, <1>4 DEF Fields
  <2> QED
    BY <1>1, <1>4, <2>1 DEF temp, cgi, loc
<1>5. CASE "cgi" \notin flags /\ ~cgi
  BY <1>1, <1>2, <1>5 DEF temp, cgi
<1> QED
  BY <1>3, <1>4, <1>5

LEMMA QueryDoes ==
  ASSUME IInv, uri_query
  PROVE  /\ state = "uri_query" /\ state' = "uri_find_delimeter_case" /\ Kept
         /\ it' = Past(it, STRING \ {"#"})
         /\ UNCHANGED <<flags, return_location, return_location_root>>
         /\ r'.query_string_ = r.query_string_ \o From(it, it')
         /\ r'.fragment_ = r.fragment_
         /\ r'.script_name_ = r.script_name_ /\ r'.path_info_ = r.path_info_
         /\ r'.is_cgi_ = r.is_cgi_ /\ r'.cgi_loc_ = r.cgi_loc_
BY DEF uri_query, Kept, IInv, Shape, Fields

LEMMA FragmentDoes ==
  ASSUME IInv, uri_fragment
  PROVE  /\ state = "uri_fragment" /\ state' = "uri_done" /\ Kept
         /\ it' = Len(uri) + 1
         /\ UNCHANGED <<flags, return_location, return_location_root>>
         /\ r'.query_string_ = r.query_string_
         /\ r'.fragment_ = r.fragment_ \o From(it, it')
         /\ r'.script_name_ = r.script_name_ /\ r'.path_info_ = r.path_info_
         /\ r'.is_cgi_ = r.is_cgi_ /\ r'.cgi_loc_ = r.cgi_loc_
BY DEF uri_fragment, Kept, IInv, Shape, Fields

LEMMA DelimeterDoes ==
  ASSUME uri_find_delimeter_case
  PROVE  /\ state = "uri_find_delimeter_case" /\ Kept
         /\ UNCHANGED <<flags, return_location, return_location_root, r>>
         /\ \/ At(it) = "?" /\ it' = it + 1 /\ state' = "uri_query"
            \/ At(it) = "#" /\ it' = it + 1 /\ state' = "uri_fragment"
            \/ At(it) = "." /\ it' = it /\ state' = "uri_cgi"
            \/ At(it) = "/" /\ it' = it /\ state' = "uri_depth"
            \/ At(it) \notin Delimiters /\ it' = it /\ state' = "uri_done"
BY DEF uri_find_delimeter_case, Kept, Delimiters

LEMMA DoneMoves == uri_done => Kept /\ state = "uri_done" /\ state' = "uri_end"
BY DEF uri_done, Kept

-----------------------------------------------------------------------------
(* Where the switch stands follows from what it has seen.                  *)
LEMMA FromIs ==
  ASSUME uri \in Uris, NEW i \in 1 .. Len(uri) + 1, NEW j \in i .. Len(uri) + 1
  PROVE  From(i, j) \in Seq(STRING)
<1>1. uri \in Seq(STRING) /\ Len(uri) \in Nat
  BY TargetIs
<1>2. \A k \in i .. j - 1 : uri[k] \in STRING
  BY <1>1
<1>3. i \in Int /\ j - 1 \in Int
  BY <1>1
<1> QED
  BY <1>2, <1>3, SubSeqProperties DEF From

LEMMA OneComponent ==
  ASSUME uri \in Uris, NEW i \in 1 .. Len(uri) + 1
  PROVE  /\ Past(i, {"/"}) \in i .. Len(uri) + 1
         /\ Lettered(i) \in Past(i, {"/"}) .. Len(uri) + 1
         /\ Lettered(i) \in i .. Len(uri) + 1
         /\ \A k \in i .. Past(i, {"/"}) - 1 : uri[k] = "/"
         /\ Past(i, {"/"}) <= Len(uri) => uri[Past(i, {"/"})] # "/"
         /\ \A k \in Past(i, {"/"}) .. Lettered(i) - 1 : uri[k] \in Letter
         /\ Lettered(i) <= Len(uri) => uri[Lettered(i)] \in Delimiters
         /\ \A k \in i .. Lettered(i) - 1 : uri[k] \notin {"?", "#", "."}
         /\ Component(i) \in Seq(STRING)
<1> DEFINE f == Past(i, {"/"})
           g == Lettered(i)
<1>1. uri \in Seq(STRING) /\ Len(uri) \in Nat
  BY TargetIs
<1>2. /\ f \in i .. Len(uri) + 1
      /\ f > Len(uri) \/ uri[f] # "/"
      /\ \A k \in i .. f - 1 : uri[k] = "/"
  BY <1>1, PastStops
<1>3. /\ g \in f .. Len(uri) + 1
      /\ g > Len(uri) \/ uri[g] \notin Letter
      /\ \A k \in f .. g - 1 : uri[k] \in Letter
  <2>1. f \in 1 .. Len(uri) + 1
    BY <1>1, <1>2
  <2> HIDE DEF f
  <2>2. /\ Past(f, Letter) \in f .. Len(uri) + 1
        /\ Past(f, Letter) > Len(uri) \/ uri[Past(f, Letter)] \notin Letter
        /\ \A k \in f .. Past(f, Letter) - 1 : uri[k] \in Letter
    BY <1>1, <2>1, PastStops
  <2> QED
    BY <2>2 DEF f, Lettered, usual_for_uri_parse_
<1>4. <<"/">> \o From(f, g) \in Seq(STRING)
  <2>1. From(f, g) \in Seq(STRING)
    BY <1>1, <1>2, <1>3, FromIs
  <2>2. <<"/">> \in Seq(STRING)
    <3>1. "/" \in STRING
      BY TargetAssumption DEF Delimiters
    <3> QED
      BY <3>1
  <2> QED
    BY <2>1, <2>2
<1>5. Component(i) = <<"/">> \o From(f, g)
  BY DEF Component
<1> HIDE DEF f, g
<1>6. g \in i .. Len(uri) + 1 /\ (g <= Len(uri) => uri[g] \in Delimiters)
  <2>1. g \in i .. Len(uri) + 1
    BY <1>1, <1>2, <1>3
  <2>2. ASSUME g <= Len(uri) PROVE uri[g] \in Delimiters
    BY <1>1, <1>3, <2>1, <2>2, TargetIs
  <2> QED
    BY <2>1, <2>2
<1>7. ASSUME NEW k \in i .. g - 1 PROVE uri[k] \notin {"?", "#", "."}
  <2>1. CASE k < f
    BY <1>1, <1>2, <2>1
  <2>2. CASE k >= f
    <3>1. uri[k] \in Letter /\ k \in 1 .. Len(uri)
      BY <1>1, <1>2, <1>3, <2>2
    <3> QED
      BY <3>1, TargetIs DEF Delimiters
  <2> QED
    BY <1>1, <1>2, <1>3, <2>1, <2>2
<1> QED
  BY <1>1, <1>2, <1>3, <1>4, <1>5, <1>6, <1>7 DEF f, g

LEMMA PathEndIs ==
  ASSUME uri \in Uris
  PROVE  /\ PathEnd \in 1 .. Len(uri) + 1 /\ 1 < PathEnd
         /\ \A k \in 1 .. PathEnd - 1 : uri[k] \notin {"?", "#"}
         /\ PathEnd <= Len(uri) => uri[PathEnd] \in {"?", "#"}
<1>1. /\ PathEnd \in 1 .. Len(uri) + 1
      /\ \A k \in 1 .. PathEnd - 1 : uri[k] \notin {"?", "#"}
      /\ PathEnd <= Len(uri) => uri[PathEnd] \in {"?", "#"}
  BY FirstIs DEF PathEnd
<1>2. uri[1] = "/" /\ Len(uri) \in Nat \ {0}
  BY TargetIs
<1>3. PathEnd # 1
  BY <1>1, <1>2
<1> QED
  BY <1>1, <1>2, <1>3

\* A run over other characters than '?' and '#' ends at a delimiter of the path.
LEMMA RunInPath ==
  ASSUME uri \in Uris, NEW i \in 1 .. Len(uri) + 1, i <= PathEnd, NEW table,
         Letter \subseteq table, "?" \notin table, "#" \notin table
  PROVE  /\ Past(i, table) \in i .. Len(uri) + 1 /\ Past(i, table) <= PathEnd
         /\ Past(i, table) <= Len(uri) => uri[Past(i, table)] \in Delimiters
         /\ \A k \in i .. Past(i, table) - 1 : uri[k] \in table
<1> DEFINE j == Past(i, table)
<1>1. uri \in Seq(STRING) /\ Len(uri) \in Nat
  BY TargetIs
<1>2. /\ j \in i .. Len(uri) + 1
      /\ j > Len(uri) \/ uri[j] \notin table
      /\ \A k \in i .. j - 1 : uri[k] \in table
  BY <1>1, PastStops
<1> HIDE DEF j
<1>3. j <= PathEnd
  <2>1. \A k \in i .. j - 1 : uri[k] \notin {"?", "#"}
    BY <1>2
  <2> QED
    BY <1>2, <2>1, WithinPath
<1>4. ASSUME j <= Len(uri) PROVE uri[j] \in Delimiters
  <2>1. j \in 1 .. Len(uri) /\ uri[j] \notin Letter
    BY <1>1, <1>2, <1>4
  <2> QED
    BY <2>1, TargetIs
<1> QED
  BY <1>2, <1>3, <1>4 DEF j

LEMMA Tables ==
  /\ Letter \subseteq except_slash_query_fragment_ /\ Letter \subseteq except_query_fragment_
  /\ "?" \notin except_slash_query_fragment_ /\ "#" \notin except_slash_query_fragment_
  /\ "/" \notin except_slash_query_fragment_ /\ "." \in except_slash_query_fragment_
  /\ "?" \notin except_query_fragment_ /\ "#" \notin except_query_fragment_
  /\ \A c \in Delimiters : c \notin Letter
BY TargetAssumption DEF except_slash_query_fragment_, except_query_fragment_, Delimiters

LEMMA InitPlaced == Init => Placed
<1> SUFFICES ASSUME Init PROVE Placed
  OBVIOUS
<1>1. uri \in Uris /\ it = 1 /\ state = "uri_main" /\ r = NothingResolved
  BY TargetIs DEF Init
<1> QED
  BY <1>1 DEF Placed, NothingResolved

LEMMA MainPlaced == IInv /\ Placed /\ uri_main => Placed'
<1> SUFFICES ASSUME IInv, Placed, uri_main PROVE Placed'
  OBVIOUS
<1>1. /\ state' \in {"uri_find_delimeter_case", "thrown"} /\ it' = Lettered(1) /\ Kept /\ it = 1
      /\ r'.script_name_ \in {<<>>, <<>> \o Component(1)} /\ r'.path_info_ = <<>>
  <2>1. state = "uri_main" /\ it = 1 /\ r.script_name_ = <<>> /\ r.path_info_ = <<>>
    BY MainDoes DEF Placed
  <2> QED
    BY <2>1, MainDoes
<1>2. uri \in Uris /\ 1 \in 1 .. Len(uri) + 1 /\ Len(uri) \in Nat
  BY TargetIs DEF Placed
<1>3. /\ Lettered(1) \in 1 .. Len(uri) + 1 /\ Component(1) \in Seq(STRING)
      /\ Lettered(1) <= Len(uri) => uri[Lettered(1)] \in Delimiters
      /\ \A k \in 1 .. Lettered(1) - 1 : uri[k] \notin {"?", "#"}
  BY <1>2, OneComponent
<1>4. Lettered(1) <= PathEnd
  <2>1. 1 <= PathEnd
    BY PathEndIs, <1>2
  <2> QED
    BY <1>2, <1>3, <2>1, WithinPath
<1>5. PathEnd' = PathEnd /\ PathEnd \in Nat
  BY <1>1, <1>2, Static, PathEndIs DEF Kept
<1>6. r'.script_name_ \in Seq(STRING)
  <2>1. <<>> \o Component(1) \in Seq(STRING)
    BY <1>3
  <2>2. <<>> \in Seq(STRING)
    OBVIOUS
  <2>3. r'.script_name_ = <<>> \/ r'.script_name_ = <<>> \o Component(1)
    BY <1>1
  <2> QED
    BY <2>1, <2>2, <2>3
<1>7. it' <= PathEnd' /\ uri' = uri /\ (it' <= Len(uri) => uri[it'] \in Delimiters)
  BY <1>1, <1>3, <1>4, <1>5 DEF Kept
<1> HIDE DEF Component, Lettered
<1> QED
  BY <1>1, <1>2, <1>3, <1>5, <1>6, <1>7 DEF Placed

LEMMA DelimeterPlaced == IInv /\ Placed /\ uri_find_delimeter_case => Placed'
<1> SUFFICES ASSUME IInv, Placed, uri_find_delimeter_case PROVE Placed'
  OBVIOUS
<1>1. /\ state = "uri_find_delimeter_case" /\ Kept /\ r' = r /\ flags' = flags
      /\ \/ At(it) = "?" /\ it' = it + 1 /\ state' = "uri_query"
         \/ At(it) = "#" /\ it' = it + 1 /\ state' = "uri_fragment"
         \/ At(it) = "." /\ it' = it /\ state' = "uri_cgi"
         \/ At(it) = "/" /\ it' = it /\ state' = "uri_depth"
         \/ At(it) \notin Delimiters /\ it' = it /\ state' = "uri_done"
  BY DelimeterDoes
<1>2. /\ uri \in Uris /\ Len(uri) \in Nat /\ it \in 1 .. Len(uri) + 1
      /\ it <= Len(uri) => uri[it] \in Delimiters
      /\ it > PathEnd => uri[PathEnd] = "?" /\ it = First({"#"})
  BY <1>1, TargetIs DEF Placed, IInv, TypeOK
<1>3. /\ uri' = uri /\ PathEnd' = PathEnd /\ First({"#"})' = First({"#"})
      /\ At(PathEnd)' = At(PathEnd)
  BY <1>1, Static DEF Kept
<1>4. /\ PathEnd \in 1 .. Len(uri) + 1
      /\ \A k \in 1 .. PathEnd - 1 : uri[k] \notin {"?", "#"}
      /\ PathEnd <= Len(uri) => uri[PathEnd] \in {"?", "#"}
      /\ First({"#"}) <= Len(uri) => uri[First({"#"})] = "#"
  BY <1>2, PathEndIs, FirstIs
<1>5. /\ r'.script_name_ \in Seq(STRING) /\ r'.path_info_ \in Seq(STRING)
      /\ "cgi" \notin flags' => r'.path_info_ = <<>>
  BY <1>1 DEF Placed
<1>6. ASSUME NEW c, At(it) = c, c # "end" PROVE it <= Len(uri) /\ uri[it] = c
  BY <1>2, <1>6 DEF At
<1>7. CASE At(it) = "?" /\ it' = it + 1 /\ state' = "uri_query"
  <2>1. it <= Len(uri) /\ uri[it] = "?"
    BY <1>6, <1>7
  <2>2. it = PathEnd
    BY <1>2, <1>4, <2>1
  <2>3. At(PathEnd)' = "?"
    BY <1>3, <1>7, <2>2
  <2> QED
    BY <1>2, <1>3, <1>5, <1>7, <2>2, <2>3 DEF Placed
<1>8. CASE At(it) = "#" /\ it' = it + 1 /\ state' = "uri_fragment"
  <2>1. it <= Len(uri) /\ uri[it] = "#"
    BY <1>6, <1>8
  <2>2. it = First({"#"})
    <3>1. CASE it > PathEnd
      BY <1>2, <3>1
    <3>2. CASE it <= PathEnd
      <4>1. \A k \in 1 .. it - 1 : uri[k] \notin {"#"}
        BY <1>2, <1>4, <3>2
      <4> QED
        BY <1>2, <2>1, <4>1, FirstUnique
    <3> QED
      BY <1>2, <1>4, <3>1, <3>2
  <2> QED
    BY <1>2, <1>3, <1>5, <1>8, <2>1, <2>2 DEF Placed
<1>9. CASE At(it) \in {".", "/"} /\ it' = it /\ state' \in {"uri_cgi", "uri_depth"}
  <2>1. it <= Len(uri) /\ uri[it] = At(it)
    BY <1>6, <1>9
  <2>2. it < PathEnd
    BY <1>2, <1>4, <1>9, <2>1
  <2>3. state' = "uri_cgi" => uri[it] = "."
    BY <1>1, <1>9, <2>1
  <2>4. state' = "uri_depth" => uri[it] = "/"
    BY <1>1, <1>9, <2>1
  <2> QED
    BY <1>2, <1>3, <1>5, <1>9, <2>2, <2>3, <2>4 DEF Placed
<1>10. CASE At(it) \notin Delimiters /\ it' = it /\ state' = "uri_done"
  <2>1. it > Len(uri)
    BY <1>2, <1>10 DEF At
  <2> QED
    BY <1>2, <1>3, <1>5, <1>10, <2>1 DEF Placed
<1> QED
  BY <1>1, <1>7, <1>8, <1>9, <1>10

LEMMA DepthPlaced == IInv /\ Placed /\ uri_depth => Placed'
<1> SUFFICES ASSUME IInv, Placed, uri_depth PROVE Placed'
  OBVIOUS
<1>1. /\ state = "uri_depth" /\ state' = "uri_find_delimeter_case" /\ Kept
      /\ \/ /\ "cgi" \in flags /\ flags' = flags \union {"path_info"}
            /\ it' = Past(Lettered(it), except_query_fragment_)
            /\ r'.script_name_ = r.script_name_
            /\ r'.path_info_ = r.path_info_ \o Component(it) \o From(Lettered(it), it')
         \/ /\ "cgi" \notin flags /\ flags' = flags \union {"depth_uri"}
            /\ it' = Lettered(it)
            /\ r'.script_name_ = r.script_name_ \o Component(it)
            /\ r'.path_info_ = r.path_info_
  BY DepthDoes
<1>2. /\ uri \in Uris /\ Len(uri) \in Nat /\ it \in 1 .. Len(uri) + 1 /\ it < PathEnd
      /\ r.script_name_ \in Seq(STRING) /\ r.path_info_ \in Seq(STRING)
      /\ "cgi" \notin flags => r.path_info_ = <<>>
  BY <1>1, TargetIs DEF Placed, IInv, TypeOK
<1>3. uri' = uri /\ PathEnd' = PathEnd /\ PathEnd \in Nat
  BY <1>1, <1>2, Static, PathEndIs DEF Kept
<1> DEFINE a == Lettered(it)
<1>4. /\ a \in 1 .. Len(uri) + 1 /\ a <= PathEnd /\ Component(it) \in Seq(STRING)
      /\ a <= Len(uri) => uri[a] \in Delimiters
  <2>1. /\ a \in it .. Len(uri) + 1 /\ Component(it) \in Seq(STRING)
        /\ a <= Len(uri) => uri[a] \in Delimiters
        /\ \A k \in it .. a - 1 : uri[k] \notin {"?", "#", "."}
    BY <1>2, OneComponent
  <2> HIDE DEF a
  <2>2. a <= PathEnd
    <3>1. \A k \in it .. a - 1 : uri[k] \notin {"?", "#"}
      BY <2>1
    <3>2. it <= PathEnd
      BY <1>2, <1>3
    <3> QED
      BY <1>2, <2>1, <3>1, <3>2, WithinPath
  <2> QED
    BY <1>2, <2>1, <2>2
<1> HIDE DEF a
<1>5. /\ it' <= PathEnd /\ it' \in a .. Len(uri) + 1
      /\ it' <= Len(uri) => uri[it'] \in Delimiters
  <2>1. CASE "cgi" \in flags
    <3>1. it' = Past(a, except_query_fragment_)
      BY <1>1, <2>1 DEF a
    <3> QED
      BY <1>2, <1>4, <3>1, RunInPath, Tables
  <2>2. CASE "cgi" \notin flags
    BY <1>1, <1>2, <1>4, <2>2 DEF a
  <2> QED
    BY <2>1, <2>2
<1>6. /\ r'.script_name_ \in Seq(STRING) /\ r'.path_info_ \in Seq(STRING)
      /\ "cgi" \notin flags' => r'.path_info_ = <<>>
  <2>1. From(a, it') \in Seq(STRING)
    BY <1>2, <1>4, <1>5, FromIs
  <2> HIDE DEF Component
  <2>2. r.path_info_ \o Component(it) \o From(a, it') \in Seq(STRING)
    BY <1>2, <1>4, <2>1
  <2>3. r.script_name_ \o Component(it) \in Seq(STRING)
    BY <1>2, <1>4
  <2>4. CASE "cgi" \in flags
    BY <1>1, <1>2, <2>2, <2>4 DEF a
  <2>5. CASE "cgi" \notin flags
    BY <1>1, <1>2, <2>3, <2>5
  <2> QED
    BY <2>4, <2>5
<1>7. it' <= PathEnd' /\ ~(it' > PathEnd')
  BY <1>2, <1>3, <1>5
<1> QED
  BY <1>1, <1>2, <1>3, <1>5, <1>6, <1>7 DEF Placed

LEMMA CgiPlaced == IInv /\ Placed /\ uri_cgi => Placed'
<1> SUFFICES ASSUME IInv, Placed, uri_cgi PROVE Placed'
  OBVIOUS
<1>1. /\ state = "uri_cgi" /\ state' = "uri_find_delimeter_case" /\ Kept
      /\ it' = Past(it, except_slash_query_fragment_)
      /\ \/ /\ "cgi" \in flags /\ flags' = flags
            /\ r'.script_name_ = r.script_name_
            /\ r'.path_info_ = r.path_info_ \o From(it, it')
         \/ /\ "cgi" \notin flags
            /\ r'.script_name_ = r.script_name_ \o From(it, it')
            /\ r'.path_info_ = r.path_info_
  BY CgiDoes
<1>2. /\ uri \in Uris /\ Len(uri) \in Nat /\ it \in 1 .. Len(uri) + 1 /\ it < PathEnd
      /\ r.script_name_ \in Seq(STRING) /\ r.path_info_ \in Seq(STRING)
      /\ "cgi" \notin flags => r.path_info_ = <<>>
  BY <1>1, TargetIs DEF Placed, IInv, TypeOK
<1>3. uri' = uri /\ PathEnd' = PathEnd /\ PathEnd \in Nat
  BY <1>1, <1>2, Static, PathEndIs DEF Kept
<1>4. /\ it' <= PathEnd /\ it' \in it .. Len(uri) + 1
      /\ it' <= Len(uri) => uri[it'] \in Delimiters
  <2>1. it <= PathEnd
    BY <1>2, <1>3
  <2> QED
    BY <1>1, <1>2, <2>1, RunInPath, Tables
<1>5. From(it, it') \in Seq(STRING)
  BY <1>2, <1>4, FromIs
<1>6. /\ r'.script_name_ \in Seq(STRING) /\ r'.path_info_ \in Seq(STRING)
      /\ "cgi" \notin flags' => r'.path_info_ = <<>>
  <2>1. r.path_info_ \o From(it, it') \in Seq(STRING) /\ r.script_name_ \o From(it, it') \in Seq(STRING)
    BY <1>2, <1>5
  <2> QED
    BY <1>1, <1>2, <2>1
<1>7. it' <= PathEnd' /\ ~(it' > PathEnd')
  BY <1>2, <1>3, <1>4
<1> QED
  BY <1>1, <1>2, <1>3, <1>4, <1>6, <1>7 DEF Placed

LEMMA QueryPlaced == IInv /\ Placed /\ uri_query => Placed'
<1> SUFFICES ASSUME IInv, Placed, uri_query PROVE Placed'
  OBVIOUS
<1>1. /\ state = "uri_query" /\ state' = "uri_find_delimeter_case" /\ Kept
      /\ it' = Past(it, STRING \ {"#"}) /\ flags' = flags
      /\ r'.script_name_ = r.script_name_ /\ r'.path_info_ = r.path_info_
  BY QueryDoes
<1>2. /\ uri \in Uris /\ uri \in Seq(STRING) /\ Len(uri) \in Nat
      /\ it \in 1 .. Len(uri) + 1 /\ it = PathEnd + 1 /\ At(PathEnd) = "?"
      /\ r.script_name_ \in Seq(STRING) /\ r.path_info_ \in Seq(STRING)
      /\ "cgi" \notin flags => r.path_info_ = <<>>
  BY <1>1, TargetIs DEF Placed, IInv, TypeOK
<1>3. uri' = uri /\ PathEnd' = PathEnd /\ First({"#"})' = First({"#"})
  BY <1>1, Static DEF Kept
<1>4. /\ PathEnd \in 1 .. Len(uri) + 1
      /\ \A k \in 1 .. PathEnd - 1 : uri[k] \notin {"?", "#"}
  BY <1>2, PathEndIs
<1>5. PathEnd <= Len(uri) /\ uri[PathEnd] = "?"
  BY <1>2, <1>4 DEF At
<1> DEFINE e == Past(it, STRING \ {"#"})
<1>6. /\ e \in it .. Len(uri) + 1
      /\ e > Len(uri) \/ uri[e] \notin STRING \ {"#"}
      /\ \A k \in it .. e - 1 : uri[k] \in STRING \ {"#"}
  BY <1>1, <1>2, PastStops
<1> HIDE DEF e
<1>7. e <= Len(uri) => uri[e] = "#"
  BY <1>2, <1>6
<1>8. e = First({"#"})
  <2>1. ASSUME NEW k \in 1 .. e - 1 PROVE uri[k] \notin {"#"}
    <3>1. CASE k < PathEnd
      BY <1>4, <3>1
    <3>2. CASE k = PathEnd
      BY <1>5, <3>2
    <3>3. CASE k > PathEnd
      <4>1. k \in it .. e - 1
        BY <1>2, <1>4, <1>6, <3>3
      <4> QED
        BY <1>6, <4>1
    <3> QED
      BY <1>2, <1>4, <1>6, <3>1, <3>2, <3>3
  <2>2. e \in 1 .. Len(uri) + 1
    BY <1>2, <1>6
  <2> QED
    BY <1>2, <1>7, <2>1, <2>2, FirstUnique
<1>9. it' = e /\ (e <= Len(uri) => uri[e] \in Delimiters)
  BY <1>1, <1>7 DEF Delimiters, e
<1> QED
  BY <1>1, <1>2, <1>3, <1>5, <1>8, <1>9 DEF Placed

LEMMA FragmentPlaced == IInv /\ Placed /\ uri_fragment => Placed'
<1> SUFFICES ASSUME IInv, Placed, uri_fragment PROVE Placed'
  OBVIOUS
<1>1. uri' = uri /\ Len(uri) \in Nat
  BY FragmentDoes, TargetIs DEF Placed, Kept
<1> QED
  BY <1>1, FragmentDoes DEF Placed

LEMMA StepPlaced == IInv /\ Placed /\ [Next]_vars => Placed'
<1> SUFFICES ASSUME IInv, Placed, [Next]_vars PROVE Placed'
  OBVIOUS
<1>1. CASE uri_done
  BY <1>1, DoneMoves DEF Placed, Kept
<1>2. CASE UNCHANGED vars
  <2>1. Kept /\ UNCHANGED <<it, state, flags, r>>
    BY <1>2 DEF vars, Kept
  <2>2. /\ PathEnd' = PathEnd /\ First({"#"})' = First({"#"}) /\ At(PathEnd)' = At(PathEnd)
    BY <2>1, Static DEF Kept
  <2> QED
    BY <2>1, <2>2 DEF Placed, Kept
<1> QED
  BY <1>1, <1>2, MainPlaced, DelimeterPlaced, DepthPlaced, CgiPlaced, QueryPlaced,
     FragmentPlaced DEF Next

-----------------------------------------------------------------------------
(* What has been cut off is what the reference reads off.                  *)
LEMMA FrontIs ==
  ASSUME IInv, state \in Walking
  PROVE  Front \in Seq(STRING)
<1>1. return_location_root # NULL /\ return_location_root \in Locations /\ conf \in Configs
  BY DEF IInv, TypeOK, Linked, Walking, Locations
<1>2. return_location_root.uri \in Seq(STRING)
  BY <1>1, ConfigAssumption DEF Locations, LocationType
<1>3. <<>> \in Seq(STRING)
  OBVIOUS
<1> QED
  BY <1>2, <1>3 DEF Front

LEMMA FirstsOrdered ==
  ASSUME uri \in Uris
  PROVE  PathEnd <= First({"#"}) /\ First({"#"}) \in 1 .. Len(uri) + 1
<1>1. /\ PathEnd \in 1 .. Len(uri) + 1 /\ Len(uri) \in Nat
      /\ \A k \in 1 .. PathEnd - 1 : uri[k] \notin {"?", "#"}
  BY PathEndIs, TargetIs
<1>2. /\ First({"#"}) \in 1 .. Len(uri) + 1
      /\ First({"#"}) <= Len(uri) => uri[First({"#"})] = "#"
  BY FirstIs
<1> QED
  BY <1>1, <1>2

\* A text that stands for the target up to a slash, and the component behind it.
LEMMA SameComponent ==
  ASSUME uri \in Uris, NEW i \in 1 .. Len(uri), uri[i] = "/",
         NEW s \in Seq(STRING), Same(s, Upto(i - 1))
  PROVE  s \o Component(i) \in Seq(STRING) /\ Same(s \o Component(i), Upto(Lettered(i) - 1))
<1> DEFINE f == Past(i, {"/"})
           a == Lettered(i)
           t == Append(s, "/")
           w == From(f, a)
<1>1. /\ f \in i .. Len(uri) + 1 /\ a \in f .. Len(uri) + 1
      /\ \A k \in i .. f - 1 : uri[k] = "/"
      /\ f <= Len(uri) => uri[f] # "/"
  BY OneComponent
<1>2. uri \in Seq(STRING) /\ Len(uri) \in Nat /\ i \in Nat
  BY TargetIs
<1>3. Component(i) = <<"/">> \o w
  BY DEF Component
<1> HIDE DEF f, a
<1>4. f \in i + 1 .. Len(uri) + 1
  BY <1>1, <1>2
<1>5. t \in Seq(STRING) /\ EndsInSlash(t) /\ Same(t, Upto(i))
  <2>1. "/" \in STRING
    BY <1>2
  <2>2. i - 1 \in 0 .. Len(uri) /\ i - 1 < Len(uri) /\ (i - 1) + 1 = i
    BY <1>2
  <2>3. Upto(i - 1) \in Seq(STRING) /\ Upto(i) = Append(Upto(i - 1), "/")
    BY <2>2, UptoStep
  <2>4. Append(s, "/") \in Seq(STRING) /\ EndsInSlash(Append(s, "/"))
    BY <2>1, AppendProperties DEF EndsInSlash
  <2>5. Same(Append(s, "/"), Append(Upto(i - 1), "/"))
    BY <2>1, <2>3, SameStep
  <2> QED
    BY <2>3, <2>4, <2>5
<1> HIDE DEF t
<1>6. Same(t, Upto(f - 1))
  <2>1. i + 1 \in 1 .. Len(uri) + 1 /\ (i + 1) - 1 = i
    BY <1>2
  <2>2. \A k \in i + 1 .. f - 1 : uri[k] = "/"
    BY <1>1, <1>2
  <2> QED
    BY <1>4, <1>5, <2>1, <2>2, SameSlashes
<1>7. t \o w \in Seq(STRING) /\ Same(t \o w, Upto(a - 1))
  <2>1. f \in 1 .. Len(uri) + 1
    BY <1>1, <1>2
  <2> QED
    BY <1>1, <1>5, <1>6, <2>1, SameFurther
<1>8. s \o Component(i) = t \o w
  <2>1. w \in Seq(STRING)
    <3>1. f \in 1 .. Len(uri) + 1
      BY <1>1, <1>2
    <3> QED
      BY <1>1, <3>1, FromIs
  <2>2. "/" \in STRING /\ <<"/">> \in Seq(STRING)
    <3>1. "/" \in STRING
      BY <1>2
    <3> QED
      BY <3>1
  <2> HIDE DEF w
  <2>3. s \o (<<"/">> \o w) = (s \o <<"/">>) \o w
    BY <2>1, <2>2, ConcatAssociative
  <2>4. t = s \o <<"/">>
    BY <2>2, AppendIsConcat DEF t
  <2> QED
    BY <1>3, <2>3, <2>4
<1> QED
  BY <1>7, <1>8 DEF a

\* The prime of Stands, for the provers.
LEMMA StandsNext ==
  ASSUME NEW s, NEW t, Pieces' = s, Upto(Walked - 1)' = t, Same(s, t)
  PROVE  Stands'
<1>1. Same(Pieces', Upto(Walked - 1)')
  BY DEF Same
<1>2. Stands' <=> Same(Pieces', Upto(Walked - 1)')
  BY DEF Stands, Same, path_resolve_, EndsInSlash
<1> QED
  BY <1>1, <1>2

LEMMA InitCut == Init => Cut
<1> SUFFICES ASSUME Init PROVE Cut
  OBVIOUS
<1>1. state = "uri_main" /\ r = NothingResolved
  BY TargetIs DEF Init
<1> QED
  BY <1>1 DEF Cut, Walking, InPath, NothingResolved

LEMMA MainCut == IInv /\ Placed /\ Cut /\ uri_main => Cut'
<1> SUFFICES ASSUME IInv, Placed, Cut, uri_main PROVE Cut'
  OBVIOUS
<1>1. /\ state = "uri_main" /\ state' \in {"uri_find_delimeter_case", "thrown"}
      /\ it = 1 /\ it' = Lettered(1) /\ Kept /\ r.script_name_ = <<>>
      /\ return_location_root' = Served /\ r'.path_info_ = <<>>
      /\ "notfound_uri" \in flags' <=> ~Known
      /\ r'.script_name_ = IF Known THEN <<>> ELSE <<>> \o Component(1)
      /\ r'.query_string_ = <<>> /\ r'.fragment_ = <<>>
  <2>1. state = "uri_main" /\ it = 1 /\ r.script_name_ = <<>> /\ r.path_info_ = <<>>
    BY MainDoes DEF Placed
  <2>2. r.query_string_ = <<>> /\ r.fragment_ = <<>>
    BY <2>1 DEF Cut
  <2> QED
    BY <2>1, <2>2, MainDoes
<1>2. uri \in Uris /\ Len(uri) \in Nat \ {0} /\ uri[1] = "/" /\ conf \in Configs
  BY TargetIs DEF Placed, IInv, TypeOK
<1>3. /\ Lettered(1) \in 1 .. Len(uri) + 1 /\ Component(1) \in Seq(STRING)
      /\ \A k \in 1 .. Lettered(1) - 1 : uri[k] \notin {"?", "#"}
  <2>1. 1 \in 1 .. Len(uri) + 1
    BY <1>2
  <2> QED
    BY <1>2, <2>1, OneComponent
<1>4. PathEnd' = PathEnd /\ PathEnd \in Nat /\ it' <= PathEnd
  <2>1. 1 <= PathEnd /\ PathEnd \in Nat
    BY PathEndIs, <1>2
  <2>2. 1 \in 1 .. Len(uri) + 1
    BY <1>2
  <2>3. Lettered(1) <= PathEnd
    BY <1>2, <1>3, <2>1, <2>2, WithinPath
  <2>4. PathEnd' = PathEnd
    BY <1>1, Static DEF Kept
  <2> QED
    BY <1>1, <2>1, <2>3, <2>4
<1>5. Walked' = Lettered(1)
  BY <1>1, <1>4 DEF Walked
<1>6. Pieces' = Component(1)
  <2>1. CASE Known
    <3>1. Served.uri = Component(1)
      BY <1>1, <1>2, <2>1, ConfigAssumption DEF Served, Known
    <3>2. Front' = Component(1)
      BY <1>1, <2>1, <3>1 DEF Front
    <3>3. Pieces' = Component(1) \o <<>> \o <<>>
      BY <1>1, <2>1, <3>2 DEF Pieces
    <3> HIDE DEF Component
    <3> QED
      BY <1>3, <3>3
  <2>2. CASE ~Known
    <3>1. Front' = <<>>
      BY <1>1, <2>2 DEF Front
    <3>2. Pieces' = <<>> \o (<<>> \o Component(1)) \o <<>>
      BY <1>1, <2>2, <3>1 DEF Pieces
    <3> HIDE DEF Component
    <3> QED
      BY <1>3, <3>2
  <2> QED
    BY <2>1, <2>2
<1>7. Same(Component(1), Upto(Lettered(1) - 1))
  <2>1. Upto(1 - 1) = <<>>
    <3>1. SubSeq(uri, 1, 0) = <<>>
      BY SubSeqEmpty
    <3> QED
      BY <3>1 DEF Upto
  <2>2. Same(<<>>, Upto(1 - 1)) /\ <<>> \in Seq(STRING)
    BY <2>1 DEF Same
  <2>3. 1 \in 1 .. Len(uri)
    BY <1>2
  <2>4. Same(<<>> \o Component(1), Upto(Lettered(1) - 1))
    BY <1>2, <2>2, <2>3, SameComponent
  <2>5. <<>> \o Component(1) = Component(1)
    BY <1>3
  <2> QED
    BY <2>4, <2>5
<1>8. Stands'
  <2>1. Upto(Walked - 1)' = Upto(Lettered(1) - 1)
    BY <1>1, <1>5 DEF Upto, Kept
  <2> QED
    BY <1>6, <1>7, <2>1, StandsNext
<1>9. ~(it' > PathEnd')
  BY <1>1, <1>2, <1>3, <1>4
<1> QED
  BY <1>1, <1>8, <1>9 DEF Cut, Walking, InPath

LEMMA DelimeterCut == IInv /\ Placed /\ Cut /\ uri_find_delimeter_case => Cut'
<1> SUFFICES ASSUME IInv, Placed, Cut, uri_find_delimeter_case PROVE Cut'
  OBVIOUS
<1>1. /\ state = "uri_find_delimeter_case" /\ Kept
      /\ UNCHANGED <<flags, return_location_root, r>>
      /\ \/ At(it) = "?" /\ it' = it + 1 /\ state' = "uri_query"
         \/ At(it) = "#" /\ it' = it + 1 /\ state' = "uri_fragment"
         \/ At(it) = "." /\ it' = it /\ state' = "uri_cgi"
         \/ At(it) = "/" /\ it' = it /\ state' = "uri_depth"
         \/ At(it) \notin Delimiters /\ it' = it /\ state' = "uri_done"
  BY DelimeterDoes
<1>2. /\ uri \in Uris /\ Len(uri) \in Nat /\ it \in 1 .. Len(uri) + 1
      /\ it <= Len(uri) => uri[it] \in Delimiters
      /\ it > PathEnd => uri[PathEnd] = "?" /\ it = First({"#"})
  BY <1>1, TargetIs DEF Placed, IInv, TypeOK
<1>3. /\ uri' = uri /\ PathEnd' = PathEnd /\ Query' = Query /\ Fragment' = Fragment
  BY <1>1, Static DEF Kept
<1>4. /\ PathEnd \in 1 .. Len(uri) + 1
      /\ \A k \in 1 .. PathEnd - 1 : uri[k] \notin {"?", "#"}
      /\ PathEnd <= Len(uri) => uri[PathEnd] \in {"?", "#"}
      /\ First({"#"}) \in 1 .. Len(uri) + 1
      /\ First({"#"}) <= Len(uri) => uri[First({"#"})] = "#"
      /\ \A k \in 1 .. First({"#"}) - 1 : uri[k] # "#"
  BY <1>2, PathEndIs, FirstIs
<1>5. /\ Stands
      /\ it <= PathEnd => r.query_string_ = <<>>
      /\ it > PathEnd => r.query_string_ = Query
      /\ r.fragment_ = <<>>
  BY <1>1 DEF Cut, Walking, InPath
<1>6. ASSUME NEW c, At(it) = c, c # "end" PROVE it <= Len(uri) /\ uri[it] = c
  BY <1>2, <1>6 DEF At
<1>7. ASSUME Walked' = Walked PROVE Stands'
  <2>1. Pieces' = Pieces /\ Upto(Walked - 1)' = Upto(Walked - 1)
    BY <1>1, <1>3, <1>7 DEF Pieces, Front, Upto
  <2> QED
    BY <1>5, <2>1, StandsNext DEF Stands
<1>8. CASE At(it) = "?" /\ it' = it + 1 /\ state' = "uri_query"
  <2>1. it <= Len(uri) /\ uri[it] = "?"
    BY <1>6, <1>8
  <2>2. it = PathEnd
    BY <1>2, <1>4, <2>1
  <2>3. Walked' = Walked
    BY <1>2, <1>3, <1>8, <2>2 DEF Walked
  <2> QED
    BY <1>1, <1>5, <1>7, <1>8, <2>2, <2>3, <1>4 DEF Cut, InPath
<1>9. CASE At(it) = "#" /\ it' = it + 1 /\ state' = "uri_fragment"
  <2>1. it <= Len(uri) /\ uri[it] = "#"
    BY <1>6, <1>9
  <2>2. it >= PathEnd
    BY <1>2, <1>4, <2>1
  <2>3. Walked' = Walked
    BY <1>2, <1>3, <1>4, <1>9, <2>2 DEF Walked
  <2>4. r.query_string_ = Query
    <3>1. CASE it > PathEnd
      BY <1>5, <3>1
    <3>2. CASE it = PathEnd
      <4>1. At(PathEnd) = "#"
        BY <1>9, <3>2
      <4>2. Query = <<>>
        BY <4>1 DEF Query, PathEnd
      <4> QED
        BY <1>4, <1>5, <3>2, <4>2
    <3> QED
      BY <1>2, <1>4, <2>2, <3>1, <3>2
  <2> QED
    BY <1>1, <1>3, <1>5, <1>7, <1>9, <2>3, <2>4 DEF Cut, InPath
<1>10. CASE At(it) \in {".", "/"} /\ it' = it /\ state' \in {"uri_cgi", "uri_depth"}
  <2>1. Walked' = Walked
    BY <1>3, <1>10 DEF Walked
  <2> QED
    BY <1>1, <1>3, <1>5, <1>7, <1>10, <2>1 DEF Cut, InPath
<1>11. CASE At(it) \notin Delimiters /\ it' = it /\ state' = "uri_done"
  <2>1. it = Len(uri) + 1
    BY <1>2, <1>11 DEF At
  <2>2. Walked' = Walked
    BY <1>3, <1>11 DEF Walked
  <2>3. r.query_string_ = Query
    <3>1. CASE it > PathEnd
      BY <1>5, <3>1
    <3>2. CASE it <= PathEnd
      <4>1. PathEnd = Len(uri) + 1
        BY <1>2, <1>4, <2>1, <3>2
      <4>2. At(PathEnd) # "?"
        BY <1>2, <4>1 DEF At
      <4>3. Query = <<>>
        BY <4>2 DEF Query, PathEnd
      <4> QED
        BY <1>5, <3>2, <4>3
    <3> QED
      BY <1>2, <1>4, <3>1, <3>2
  <2>4. First({"#"}) = Len(uri) + 1
    <3>1. CASE it > PathEnd
      BY <1>2, <2>1, <3>1
    <3>2. CASE it <= PathEnd
      <4>1. PathEnd = Len(uri) + 1
        BY <1>2, <1>4, <2>1, <3>2
      <4>2. \A k \in 1 .. Len(uri) : uri[k] # "#"
        BY <1>2, <1>4, <4>1
      <4> QED
        BY <1>2, <1>4, <4>2
    <3> QED
      BY <1>2, <1>4, <3>1, <3>2
  <2>5. Fragment = <<>>
    <3>1. Fragment = SubSeq(uri, Len(uri) + 1 + 1, Len(uri))
      BY <2>4 DEF Fragment
    <3>2. Len(uri) + 1 + 1 \in Int /\ Len(uri) \in Int /\ Len(uri) < Len(uri) + 1 + 1
      BY <1>2
    <3> QED
      BY <3>1, <3>2, SubSeqEmpty
  <2> QED
    BY <1>1, <1>3, <1>5, <1>7, <1>11, <2>2, <2>3, <2>5 DEF Cut, InPath
<1> QED
  BY <1>1, <1>8, <1>9, <1>10, <1>11

LEMMA Joined ==
  ASSUME NEW u \in Seq(STRING), NEW v \in Seq(STRING), NEW w \in Seq(STRING)
  PROVE  (u \o v) \o w = u \o (v \o w)
BY ConcatAssociative

\* A step within the path adds to the pieces what it passes over.
LEMMA FurtherCut ==
  ASSUME IInv, Placed, Cut, Kept, state \in {"uri_depth", "uri_cgi"},
         state' = "uri_find_delimeter_case", it' <= PathEnd, it' \in 1 .. Len(uri) + 1,
         r'.query_string_ = r.query_string_, r'.fragment_ = r.fragment_,
         UNCHANGED return_location_root, "notfound_uri" \in flags' <=> "notfound_uri" \in flags,
         Same(Front \o r'.script_name_ \o r'.path_info_, Upto(it' - 1))
  PROVE  Cut'
<1>1. /\ uri' = uri /\ PathEnd' = PathEnd /\ PathEnd \in Nat /\ Len(uri) \in Nat
      /\ it < PathEnd
  BY Static, PathEndIs, TargetIs DEF Kept, Placed
<1>2. r.query_string_ = <<>> /\ r.fragment_ = <<>>
  BY <1>1 DEF Cut, InPath, IInv, TypeOK
<1>3. Walked' = it'
  BY <1>1 DEF Walked
<1>4. Stands'
  <2>1. Front' = Front
    BY DEF Front
  <2>2. Pieces' = Front \o r'.script_name_ \o r'.path_info_
    BY <2>1 DEF Pieces
  <2>3. Upto(Walked - 1)' = Upto(it' - 1)
    BY <1>1, <1>3 DEF Upto
  <2> QED
    BY <2>2, <2>3, StandsNext
<1>5. ~(it' > PathEnd')
  BY <1>1
<1> QED
  BY <1>1, <1>2, <1>4, <1>5 DEF Cut, InPath

LEMMA DepthCut == IInv /\ Placed /\ Cut /\ uri_depth => Cut'
<1> SUFFICES ASSUME IInv, Placed, Cut, uri_depth PROVE Cut'
  OBVIOUS
<1> DEFINE a == Lettered(it)
           n == Component(it)
           x == r.script_name_
           p == r.path_info_
<1>1. /\ state = "uri_depth" /\ state' = "uri_find_delimeter_case" /\ Kept
      /\ UNCHANGED return_location_root
      /\ r'.query_string_ = r.query_string_ /\ r'.fragment_ = r.fragment_
      /\ \/ /\ "cgi" \in flags /\ flags' = flags \union {"path_info"}
            /\ it' = Past(a, except_query_fragment_)
            /\ r'.script_name_ = x /\ r'.path_info_ = p \o n \o From(a, it')
         \/ /\ "cgi" \notin flags /\ flags' = flags \union {"depth_uri"}
            /\ it' = a
            /\ r'.script_name_ = x \o n /\ r'.path_info_ = p
  BY DepthDoes
<1>2. /\ uri \in Uris /\ Len(uri) \in Nat /\ it \in 1 .. Len(uri) /\ it < PathEnd /\ uri[it] = "/"
      /\ x \in Seq(STRING) /\ p \in Seq(STRING) /\ ("cgi" \notin flags => p = <<>>)
      /\ PathEnd \in 1 .. Len(uri) + 1
  BY <1>1, TargetIs, PathEndIs DEF Placed, IInv, TypeOK
<1>3. Front \in Seq(STRING) /\ Stands /\ Walked = it
  BY <1>1, <1>2, FrontIs DEF Cut, Walking, Walked
<1>4. /\ Front \o x \o p \in Seq(STRING)
      /\ Same(Front \o x \o p, Upto(it - 1))
  <2>1. Front \o x \o p \in Seq(STRING)
    BY <1>2, <1>3
  <2>2. Pieces = Front \o x \o p
    BY DEF Pieces
  <2>3. Same(Pieces, Upto(it - 1))
    BY <1>3 DEF Stands
  <2> QED
    BY <2>1, <2>2, <2>3
<1>5. n \in Seq(STRING) /\ a \in it .. Len(uri) + 1 /\ \A k \in it .. a - 1 : uri[k] \notin {"?", "#"}
  <2>1. it \in 1 .. Len(uri) + 1
    BY <1>2
  <2> QED
    BY <1>2, <2>1, OneComponent
<1>6. /\ (Front \o x \o p) \o n \in Seq(STRING)
      /\ Same((Front \o x \o p) \o n, Upto(a - 1))
  BY <1>2, <1>4, SameComponent
<1> HIDE DEF a, n, x, p
<1>7. a \in 1 .. Len(uri) + 1 /\ a <= PathEnd
  <2>1. a \in 1 .. Len(uri) + 1 /\ it \in 1 .. Len(uri) + 1 /\ it <= PathEnd
    BY <1>2, <1>5
  <2> QED
    BY <1>2, <1>5, <2>1, WithinPath
<1>8. /\ it' \in 1 .. Len(uri) + 1 /\ it' <= PathEnd
      /\ Same(Front \o r'.script_name_ \o r'.path_info_, Upto(it' - 1))
  <2>1. CASE "cgi" \in flags
    <3> DEFINE b == Past(a, except_query_fragment_)
               w == From(a, b)
    <3>1. b \in a .. Len(uri) + 1 /\ b <= PathEnd
      BY <1>2, <1>7, RunInPath, Tables
    <3> HIDE DEF b
    <3>2. w \in Seq(STRING)
      BY <1>2, <1>7, <3>1, FromIs
    <3>3. Same(((Front \o x \o p) \o n) \o w, Upto(b - 1))
      BY <1>2, <1>6, <1>7, <3>1, SameFurther
    <3> HIDE DEF w
    <3>4. ((Front \o x \o p) \o n) \o w = Front \o x \o (p \o n \o w)
      <4> DEFINE h == Front \o x
      <4>1. h \in Seq(STRING)
        BY <1>2, <1>3
      <4> HIDE DEF h
      <4>2. p \in Seq(STRING) /\ n \in Seq(STRING)
        BY <1>2, <1>5
      <4>3. h \o p \in Seq(STRING)
        BY <4>1, <4>2
      <4>4. n \o w \in Seq(STRING)
        BY <4>2, <3>2
      <4>5. p \o (n \o w) = (p \o n) \o w
        BY <4>2, <3>2, Joined
      <4>6. ((h \o p) \o n) \o w = (h \o p) \o (n \o w)
        BY <4>2, <4>3, <3>2, Joined
      <4>7. (h \o p) \o (n \o w) = h \o (p \o (n \o w))
        <5> DEFINE q == n \o w
        <5>1. q \in Seq(STRING)
          BY <4>4
        <5> HIDE DEF q
        <5>2. (h \o p) \o q = h \o (p \o q)
          BY <4>1, <4>2, <5>1, Joined
        <5> QED
          BY <5>2 DEF q
      <4> QED
        BY <4>5, <4>6, <4>7 DEF h
    <3>5. it' = b /\ r'.script_name_ = x /\ r'.path_info_ = p \o n \o w
      BY <1>1, <2>1 DEF b, w
    <3>6. b \in 1 .. Len(uri) + 1
      BY <1>7, <3>1
    <3> QED
      BY <3>1, <3>3, <3>4, <3>5, <3>6
  <2>2. CASE "cgi" \notin flags
    <3>1. it' = a /\ r'.script_name_ = x \o n /\ r'.path_info_ = p /\ p = <<>>
      BY <1>1, <1>2, <2>2
    <3>2. (Front \o x \o <<>>) \o n = Front \o (x \o n) \o <<>>
      <4>1. x \in Seq(STRING) /\ n \in Seq(STRING) /\ Front \in Seq(STRING)
        BY <1>2, <1>3, <1>5
      <4>2. (Front \o x) \o n = Front \o (x \o n)
        BY <4>1, Joined
      <4>3. Front \o x \in Seq(STRING) /\ x \o n \in Seq(STRING)
        BY <4>1
      <4>4. Front \o x \o <<>> = Front \o x
        BY <4>3
      <4>5. Front \o (x \o n) \in Seq(STRING)
        BY <4>1, <4>3
      <4>6. Front \o (x \o n) \o <<>> = Front \o (x \o n)
        BY <4>5
      <4> QED
        BY <4>2, <4>4, <4>6
    <3> QED
      BY <1>6, <1>7, <3>1, <3>2
  <2> QED
    BY <2>1, <2>2
<1>9. "notfound_uri" \in flags' <=> "notfound_uri" \in flags
  BY <1>1
<1> QED
  BY <1>1, <1>8, <1>9, FurtherCut

LEMMA CgiCut == IInv /\ Placed /\ Cut /\ uri_cgi => Cut'
<1> SUFFICES ASSUME IInv, Placed, Cut, uri_cgi PROVE Cut'
  OBVIOUS
<1> DEFINE x == r.script_name_
           p == r.path_info_
           e == Past(it, except_slash_query_fragment_)
           w == From(it, e)
<1>1. /\ state = "uri_cgi" /\ state' = "uri_find_delimeter_case" /\ Kept
      /\ UNCHANGED return_location_root
      /\ it' = e
      /\ r'.query_string_ = r.query_string_ /\ r'.fragment_ = r.fragment_
      /\ \/ "cgi" \in flags /\ r'.script_name_ = x /\ r'.path_info_ = p \o w
         \/ "cgi" \notin flags /\ r'.script_name_ = x \o w /\ r'.path_info_ = p
      /\ "notfound_uri" \in flags' <=> "notfound_uri" \in flags
  BY CgiDoes
<1>2. /\ uri \in Uris /\ Len(uri) \in Nat /\ it \in 1 .. Len(uri) + 1 /\ it < PathEnd
      /\ x \in Seq(STRING) /\ p \in Seq(STRING) /\ ("cgi" \notin flags => p = <<>>)
      /\ PathEnd \in 1 .. Len(uri) + 1
  BY <1>1, TargetIs, PathEndIs DEF Placed, IInv, TypeOK
<1>3. Front \in Seq(STRING) /\ Stands /\ Walked = it
  BY <1>1, <1>2, FrontIs DEF Cut, Walking, Walked
<1>4. e \in it .. Len(uri) + 1 /\ e \in 1 .. Len(uri) + 1 /\ e <= PathEnd
  <2>1. it <= PathEnd
    BY <1>2
  <2>2. e \in it .. Len(uri) + 1 /\ e <= PathEnd
    BY <1>2, <2>1, RunInPath, Tables
  <2> QED
    BY <1>2, <2>2
<1>5. w \in Seq(STRING)
  BY <1>2, <1>4, FromIs
<1> HIDE DEF x, p, e
<1>6. Front \o x \in Seq(STRING) /\ x \o w \in Seq(STRING)
  BY <1>2, <1>3, <1>5
<1>7. Front \o x \o p \in Seq(STRING) /\ Same(Front \o x \o p, Upto(it - 1))
  <2>1. Front \o x \o p \in Seq(STRING)
    BY <1>2, <1>6
  <2>2. Pieces = Front \o x \o p
    BY DEF Pieces, x, p
  <2> QED
    BY <1>3, <2>1, <2>2 DEF Stands
<1>8. Same((Front \o x \o p) \o w, Upto(e - 1))
  BY <1>2, <1>4, <1>7, SameFurther
<1> HIDE DEF w
<1>9. (Front \o x \o p) \o w = Front \o r'.script_name_ \o r'.path_info_
  <2>1. CASE "cgi" \in flags
    <3>1. ((Front \o x) \o p) \o w = (Front \o x) \o (p \o w)
      <4> DEFINE h == Front \o x
      <4>1. h \in Seq(STRING) /\ p \in Seq(STRING)
        BY <1>2, <1>6
      <4> HIDE DEF h
      <4>2. (h \o p) \o w = h \o (p \o w)
        BY <4>1, <1>5, Joined
      <4> QED
        BY <4>2 DEF h
    <3> QED
      BY <1>1, <2>1, <3>1
  <2>2. CASE "cgi" \notin flags
    <3>1. r'.script_name_ = x \o w /\ r'.path_info_ = <<>> /\ p = <<>>
      BY <1>1, <1>2, <2>2
    <3>2. Front \o x \o <<>> = Front \o x
      BY <1>6
    <3>3. x \in Seq(STRING) /\ Front \in Seq(STRING)
      BY <1>2, <1>3
    <3>4. (Front \o x) \o w = Front \o (x \o w)
      BY <1>5, <3>3, Joined
    <3>5. Front \o (x \o w) \in Seq(STRING)
      BY <1>6, <3>3
    <3>6. Front \o (x \o w) \o <<>> = Front \o (x \o w)
      BY <3>5
    <3> QED
      BY <3>1, <3>2, <3>4, <3>6
  <2> QED
    BY <2>1, <2>2
<1> QED
  BY <1>1, <1>4, <1>8, <1>9, FurtherCut

LEMMA QueryCut == IInv /\ Placed /\ Cut /\ uri_query => Cut'
<1> SUFFICES ASSUME IInv, Placed, Cut, uri_query PROVE Cut'
  OBVIOUS
<1>1. /\ state = "uri_query" /\ state' = "uri_find_delimeter_case" /\ Kept
      /\ UNCHANGED <<flags, return_location_root>>
      /\ r'.query_string_ = r.query_string_ \o From(it, it')
      /\ r'.fragment_ = r.fragment_
      /\ r'.script_name_ = r.script_name_ /\ r'.path_info_ = r.path_info_
  BY QueryDoes
<1>2. /\ uri \in Uris /\ Len(uri) \in Nat /\ it \in 1 .. Len(uri) + 1
      /\ it = PathEnd + 1 /\ At(PathEnd) = "?" /\ PathEnd \in 1 .. Len(uri) + 1
  BY <1>1, TargetIs, PathEndIs DEF Placed, IInv, TypeOK
<1>3. /\ uri' = uri /\ PathEnd' = PathEnd /\ Query' = Query /\ First({"#"})' = First({"#"})
  BY <1>1, Static DEF Kept
<1>4. it' = First({"#"}) /\ it' \in it .. Len(uri) + 1
  <2>1. Placed'
    BY QueryPlaced
  <2>2. it' \in it .. Len(uri) + 1
    BY <1>1, <1>2, PastStops, TargetIs, QueryDoes
  <2>3. it' > PathEnd'
    BY <1>2, <1>3, <2>2
  <2> QED
    BY <1>1, <1>3, <2>1, <2>2, <2>3 DEF Placed
<1>5. Stands /\ r.query_string_ = <<>> /\ r.fragment_ = <<>>
  BY <1>1 DEF Cut, Walking
<1>6. r'.query_string_ = Query
  <2>1. From(it, it') = SubSeq(uri, PathEnd + 1, First({"#"}) - 1)
    BY <1>2, <1>4 DEF From
  <2>2. Query = From(it, it')
    BY <1>2, <2>1 DEF Query, PathEnd
  <2>3. From(it, it') \in Seq(STRING)
    BY <1>2, <1>4, FromIs
  <2>4. <<>> \o From(it, it') = From(it, it')
    BY <2>3
  <2> QED
    BY <1>1, <1>5, <2>2, <2>4
<1>7. Stands'
  <2>1. Walked = PathEnd /\ Walked' = PathEnd
    BY <1>2, <1>3, <1>4 DEF Walked
  <2>2. Pieces' = Pieces /\ Upto(Walked - 1)' = Upto(Walked - 1)
    BY <1>1, <1>3, <2>1 DEF Pieces, Front, Upto
  <2> QED
    BY <1>5, <2>2, StandsNext DEF Stands
<1>8. ~(it' <= PathEnd')
  BY <1>2, <1>3, <1>4
<1> QED
  BY <1>1, <1>3, <1>5, <1>6, <1>7, <1>8 DEF Cut, InPath

LEMMA FragmentCut == IInv /\ Placed /\ Cut /\ uri_fragment => Cut'
<1> SUFFICES ASSUME IInv, Placed, Cut, uri_fragment PROVE Cut'
  OBVIOUS
<1>1. /\ state = "uri_fragment" /\ state' = "uri_done" /\ Kept /\ it' = Len(uri) + 1
      /\ UNCHANGED <<flags, return_location_root>>
      /\ r'.query_string_ = r.query_string_
      /\ r'.fragment_ = r.fragment_ \o From(it, it')
      /\ r'.script_name_ = r.script_name_ /\ r'.path_info_ = r.path_info_
  BY FragmentDoes
<1>2. /\ uri \in Uris /\ Len(uri) \in Nat /\ it \in 1 .. Len(uri) + 1
      /\ it = First({"#"}) + 1 /\ First({"#"}) \in 1 .. Len(uri)
      /\ PathEnd \in 1 .. Len(uri) + 1 /\ PathEnd <= First({"#"})
  BY <1>1, TargetIs, PathEndIs, FirstsOrdered DEF Placed, IInv, TypeOK
<1>3. /\ uri' = uri /\ PathEnd' = PathEnd /\ Query' = Query /\ Fragment' = Fragment
  BY <1>1, Static DEF Kept
<1>4. Stands /\ r.query_string_ = Query /\ r.fragment_ = <<>>
  BY <1>1 DEF Cut, Walking
<1>5. r'.fragment_ = Fragment
  <2>1. From(it, it') = SubSeq(uri, First({"#"}) + 1, Len(uri))
    BY <1>1, <1>2 DEF From
  <2>2. Fragment = From(it, it')
    BY <2>1 DEF Fragment
  <2>3. From(it, it') \in Seq(STRING)
    BY <1>1, <1>2, FromIs
  <2>4. <<>> \o From(it, it') = From(it, it')
    BY <2>3
  <2> QED
    BY <1>1, <1>4, <2>2, <2>4
<1>6. Stands'
  <2>1. Walked = PathEnd /\ Walked' = PathEnd
    <3>1. ~(it <= PathEnd) /\ (it' <= PathEnd => it' = PathEnd)
      BY <1>1, <1>2
    <3> QED
      BY <1>3, <3>1 DEF Walked
  <2>2. Pieces' = Pieces /\ Upto(Walked - 1)' = Upto(Walked - 1)
    BY <1>1, <1>3, <2>1 DEF Pieces, Front, Upto
  <2> QED
    BY <1>4, <2>2, StandsNext DEF Stands
<1> QED
  BY <1>1, <1>3, <1>4, <1>5, <1>6 DEF Cut, InPath

LEMMA StepCut == IInv /\ Placed /\ Cut /\ [Next]_vars => Cut'
<1> SUFFICES ASSUME IInv, Placed, Cut, [Next]_vars PROVE Cut'
  OBVIOUS
<1>1. CASE uri_done
  BY <1>1, DoneMoves DEF Cut, Walking, InPath
<1>2. CASE UNCHANGED vars
  <2>1. Kept /\ UNCHANGED <<it, state, flags, return_location_root, r>>
    BY <1>2 DEF vars, Kept
  <2>2. /\ PathEnd' = PathEnd /\ Query' = Query /\ Fragment' = Fragment
    BY <2>1, Static DEF Kept
  <2>3. Pieces' = Pieces /\ Upto(Walked - 1)' = Upto(Walked - 1)
    BY <2>1, <2>2 DEF Pieces, Front, Upto, Walked, Kept
  <2>4. Stands => Stands'
    BY <2>3, StandsNext DEF Stands
  <2> QED
    BY <2>1, <2>2, <2>4 DEF Cut
<1> QED
  BY <1>1, <1>2, MainCut, DelimeterCut, DepthCut, CgiCut, QueryCut, FragmentCut DEF Next

THEOREM WalkInvariance == Spec => [](IInv /\ Placed /\ Cut)
<1>1. Placed /\ Cut /\ IInv /\ [Next]_vars => Placed' /\ Cut'
  BY StepPlaced, StepCut
<1> QED
  BY InitPlaced, InitCut, Invariance, <1>1, PTL DEF Spec

(* The script name, with the location's own name in front, and the path    *)
(* info make up the path, slashes squeezed; the query and the fragment are  *)
(* what follows the first '?' and the first '#'.                           *)
THEOREM TargetSplit == Spec => []PiecesMakeTheUri
<1>1. IInv /\ Placed /\ Cut => PiecesMakeTheUri
  <2> SUFFICES ASSUME IInv, Placed, Cut, state = "uri_done"
               PROVE  /\ path_resolve_(Pieces) = path_resolve_(Path)
                      /\ r.query_string_ = Query /\ r.fragment_ = Fragment
    BY DEF PiecesMakeTheUri, Pieces, Front
  <2>1. /\ it > Len(uri) /\ it \in 1 .. Len(uri) + 1 /\ Len(uri) \in Nat
        /\ PathEnd \in 1 .. Len(uri) + 1
    BY TargetIs, PathEndIs DEF Placed, IInv, TypeOK
  <2>2. Upto(Walked - 1) = Path
    BY <2>1 DEF Upto, Walked, Path, PathEnd
  <2>3. Stands /\ r.query_string_ = Query /\ r.fragment_ = Fragment
    BY DEF Cut, Walking
  <2> QED
    BY <2>2, <2>3 DEF Stands, Same
<1> QED
  BY WalkInvariance, <1>1, PTL

-----------------------------------------------------------------------------
(***************************************************************************)
(* The location: which flags and pointers the walk has settled, once the   *)
(* components of the path are known for what they are.                     *)
(***************************************************************************)
\* A component by its first and its last position.
IsComponent(b, e) ==
    /\ b \in 2 .. PathEnd - 1 /\ e \in b .. PathEnd - 1
    /\ uri[b - 1] = "/" /\ \A k \in b .. e : uri[k] # "/"
    /\ e = PathEnd - 1 \/ uri[e + 1] = "/"

LEMMA PathIs ==
  ASSUME uri \in Uris
  PROVE  /\ Path \in Seq(STRING) /\ Len(Path) = PathEnd - 1 /\ DOMAIN Path = 1 .. PathEnd - 1
         /\ \A k \in 1 .. PathEnd - 1 : Path[k] = uri[k]
<1>1. uri \in Seq(STRING) /\ Len(uri) \in Nat /\ PathEnd \in 1 .. Len(uri) + 1
  BY TargetIs, PathEndIs
<1>2. \A k \in 1 .. PathEnd - 1 : uri[k] \in STRING
  BY <1>1
<1>3. Path = SubSeq(uri, 1, PathEnd - 1)
  BY DEF Path, PathEnd
<1> QED
  BY <1>1, <1>2, <1>3, SubSeqProperties

LEMMA ComponentsAre ==
  ASSUME uri \in Uris
  PROVE  /\ \A c \in Components : c = <<c[1], c[2]>> /\ IsComponent(c[1], c[2])
         /\ \A b, e : IsComponent(b, e) => <<b, e>> \in Components
<1> DEFINE n == PathEnd - 1
<1>1. /\ Len(Path) = n /\ DOMAIN Path = 1 .. n /\ n \in Nat
      /\ \A k \in 1 .. n : Path[k] = uri[k]
      /\ 1 \in 1 .. n /\ uri[1] = "/"
  BY PathIs, PathEndIs, TargetIs
<1> HIDE DEF n
<1>2. ASSUME NEW c \in Components PROVE c = <<c[1], c[2]>> /\ IsComponent(c[1], c[2])
  <2>1. /\ c \in (1 .. n) \X (1 .. n) /\ c[1] <= c[2] /\ \A k \in c[1] .. c[2] : Path[k] # "/"
        /\ c[1] = 1 \/ Path[c[1] - 1] = "/"
        /\ c[2] = n \/ Path[c[2] + 1] = "/"
    BY <1>1 DEF Components
  <2>2. c = <<c[1], c[2]>> /\ c[1] \in 1 .. n /\ c[2] \in 1 .. n
    BY <2>1
  <2>3. \A k \in c[1] .. c[2] : uri[k] # "/"
    <3> TAKE k \in c[1] .. c[2]
    <3>1. k \in 1 .. n
      BY <1>1, <2>2
    <3> QED
      BY <1>1, <2>1, <3>1
  <2>4. c[1] # 1
    BY <1>1, <2>1, <2>2, <2>3
  <2>5. c[1] \in 2 .. n /\ c[1] - 1 \in 1 .. n
    BY <1>1, <2>2, <2>4
  <2>6. uri[c[1] - 1] = "/"
    BY <1>1, <2>1, <2>4, <2>5
  <2>7. c[2] = n \/ uri[c[2] + 1] = "/"
    <3>1. c[2] # n => c[2] + 1 \in 1 .. n
      BY <1>1, <2>2
    <3> QED
      BY <1>1, <2>1, <3>1
  <2>8. c[2] \in c[1] .. n
    BY <2>1, <2>2
  <2> QED
    BY <2>2, <2>3, <2>5, <2>6, <2>7, <2>8 DEF IsComponent, n
<1>3. ASSUME NEW b, NEW e, IsComponent(b, e) PROVE <<b, e>> \in Components
  <2>1. /\ b \in 2 .. n /\ e \in b .. n
        /\ uri[b - 1] = "/" /\ \A k \in b .. e : uri[k] # "/"
        /\ e = n \/ uri[e + 1] = "/"
    BY <1>3 DEF IsComponent, n
  <2> DEFINE c == <<b, e>>
  <2>2. c \in (1 .. n) \X (1 .. n) /\ c[1] = b /\ c[2] = e
    BY <1>1, <2>1
  <2>3. b <= e /\ b - 1 \in 1 .. n /\ (e # n => e + 1 \in 1 .. n) /\ \A k \in b .. e : k \in 1 .. n
    BY <1>1, <2>1
  <2>4. /\ \A k \in b .. e : Path[k] # "/"
        /\ Path[b - 1] = "/"
        /\ e = n \/ Path[e + 1] = "/"
    BY <1>1, <2>1, <2>3
  <2> HIDE DEF c
  <2>5. c \in Components
    BY <1>1, <2>2, <2>3, <2>4 DEF Components
  <2> QED
    BY <2>5 DEF c
<1> QED
  BY <1>2, <1>3

\* Components do not overlap: one that begins behind another is behind it.
LEMMA Apart ==
  ASSUME uri \in Uris, NEW b, NEW e, IsComponent(b, e), NEW f, NEW g, IsComponent(f, g)
  PROVE  /\ b < f => e < f - 1
         /\ b = f => e = g
<1>1. PathEnd \in Nat
  BY PathEndIs, TargetIs
<1>2. /\ b \in 2 .. PathEnd - 1 /\ e \in b .. PathEnd - 1
      /\ f \in 2 .. PathEnd - 1 /\ g \in f .. PathEnd - 1
      /\ uri[f - 1] = "/" /\ \A k \in b .. e : uri[k] # "/" 
      /\ \A k \in f .. g : uri[k] # "/"
      /\ e = PathEnd - 1 \/ uri[e + 1] = "/"
      /\ g = PathEnd - 1 \/ uri[g + 1] = "/"
  BY DEF IsComponent
<1>3. ASSUME b < f PROVE e < f - 1
  <2>1. f - 1 \notin b .. e
    BY <1>2
  <2> QED
    BY <1>1, <1>2, <1>3, <2>1
<1>4. ASSUME b = f PROVE e = g
  <2>1. ~(e < g)
    <3> SUFFICES ASSUME e < g PROVE FALSE
      OBVIOUS
    <3>1. e + 1 \in f .. g /\ e # PathEnd - 1
      BY <1>1, <1>2, <1>4
    <3> QED
      BY <1>2, <3>1
  <2>2. ~(g < e)
    <3> SUFFICES ASSUME g < e PROVE FALSE
      OBVIOUS
    <3>1. g + 1 \in b .. e /\ g # PathEnd - 1
      BY <1>1, <1>2, <1>4
    <3> QED
      BY <1>2, <3>1
  <2> QED
    BY <1>1, <1>2, <2>1, <2>2
<1> QED
  BY <1>3, <1>4

\* Around a character of the path that is no slash lies a component.
LEMMA Around ==
  ASSUME uri \in Uris, NEW i \in 1 .. PathEnd - 1, uri[i] # "/"
  PROVE  \E b, e : IsComponent(b, e) /\ b <= i /\ i <= e
<1>1. /\ PathEnd \in Nat /\ PathEnd <= Len(uri) + 1 /\ Len(uri) \in Nat /\ uri[1] = "/"
      /\ uri \in Seq(STRING)
  BY PathEndIs, TargetIs
<1> DEFINE B == {k \in 1 .. i : uri[k] = "/"}
           D == {i - k : k \in B}
<1>2. D \subseteq Nat /\ D # {}
  <2>1. 1 \in B /\ B \subseteq 1 .. i /\ i \in Nat
    BY <1>1
  <2> HIDE DEF B
  <2>2. i - 1 \in D
    BY <2>1
  <2>3. \A k \in B : i - k \in Nat
    BY <2>1
  <2>4. \A d \in D : d \in Nat
    BY <2>3
  <2> HIDE DEF D
  <2> QED
    BY <2>2, <2>4
<1>3. PICK m \in D : \A k \in D : m <= k
  <2> HIDE DEF D
  <2> QED
    BY <1>2, LeastOf
<1>4. PICK s \in B : m = i - s
  BY <1>3
<1>5. s \in 1 .. i - 1 /\ uri[s] = "/"
  BY <1>1, <1>4
<1>6. \A k \in s + 1 .. i : uri[k] # "/"
  <2> SUFFICES ASSUME NEW k \in s + 1 .. i, uri[k] = "/" PROVE FALSE
    OBVIOUS
  <2>1. k \in B /\ k > s
    BY <1>1, <1>5
  <2>2. i - k \in D
    BY <2>1
  <2>3. m <= i - k
    BY <1>3, <2>2
  <2> QED
    BY <1>1, <1>4, <1>5, <2>1, <2>3
<1> DEFINE E == {k \in i .. PathEnd - 1 : k = PathEnd - 1 \/ uri[k + 1] = "/"}
<1>7. E \subseteq Nat /\ E # {}
  <2>1. PathEnd - 1 \in E
    BY <1>1
  <2>2. E \subseteq i .. PathEnd - 1 /\ i .. PathEnd - 1 \subseteq Nat
    BY <1>1
  <2> QED
    BY <2>1, <2>2
<1>8. PICK e \in E : \A k \in E : e <= k
  <2> HIDE DEF E
  <2> QED
    BY <1>7, LeastOf
<1>9. e \in i .. PathEnd - 1 /\ (e = PathEnd - 1 \/ uri[e + 1] = "/")
  BY <1>8
<1>10. \A k \in i .. e : uri[k] # "/"
  <2> SUFFICES ASSUME NEW k \in i .. e, uri[k] = "/" PROVE FALSE
    OBVIOUS
  <2>1. k # i /\ k - 1 \in i .. PathEnd - 1 /\ (k - 1) + 1 = k /\ k - 1 < e
    BY <1>1, <1>9
  <2>2. k - 1 \in E
    BY <2>1
  <2> QED
    BY <1>8, <1>9, <2>1, <2>2
<1> HIDE DEF E, B, D
<1>11. \A k \in s + 1 .. e : uri[k] # "/"
  <2> TAKE k \in s + 1 .. e
  <2>1. k \in s + 1 .. i \/ k \in i .. e
    BY <1>1, <1>5, <1>9
  <2> QED
    BY <1>6, <1>10, <2>1
<1>12. s + 1 \in 2 .. PathEnd - 1 /\ (s + 1) - 1 = s /\ e \in s + 1 .. PathEnd - 1 /\ s + 1 <= i /\ i <= e
  BY <1>1, <1>5, <1>9
<1>13. IsComponent(s + 1, e)
  BY <1>5, <1>9, <1>11, <1>12 DEF IsComponent
<1> QED
  BY <1>12, <1>13

\* The first component, and where its letters end.
LEMMA HeadIs ==
  ASSUME uri \in Uris
  PROVE  /\ Begins \in 2 .. PathEnd /\ Dotted \in Begins .. PathEnd
         /\ \A k \in 1 .. Begins - 1 : uri[k] = "/"
         /\ Begins < PathEnd => uri[Begins] # "/"
         /\ \A k \in Begins .. Dotted - 1 : uri[k] \notin {"/", "."}
         /\ Dotted < PathEnd => uri[Dotted] \in {"/", "."}
         /\ Dotted = Lettered(1) /\ Component(1) = <<"/">> \o From(Begins, Dotted)
         /\ Dotted = PathEnd => At(Dotted) # "."
<1>1. /\ uri \in Seq(STRING) /\ Len(uri) \in Nat \ {0} /\ uri[1] = "/" /\ 1 \in 1 .. Len(uri) + 1
      /\ PathEnd \in 1 .. Len(uri) + 1 /\ 1 < PathEnd
      /\ \A k \in 1 .. PathEnd - 1 : uri[k] \notin {"?", "#"}
      /\ PathEnd <= Len(uri) => uri[PathEnd] \in {"?", "#"}
  BY TargetIs, PathEndIs
<1>2. Dotted = Lettered(1) /\ Component(1) = <<"/">> \o From(Begins, Dotted)
  BY DEF Dotted, Begins, Lettered, Component, usual_for_uri_parse_
<1>3. /\ Begins \in 1 .. Len(uri) + 1
      /\ Dotted \in Begins .. Len(uri) + 1 /\ Dotted \in 1 .. Len(uri) + 1
      /\ \A k \in 1 .. Begins - 1 : uri[k] = "/"
      /\ Begins <= Len(uri) => uri[Begins] # "/"
      /\ \A k \in Begins .. Dotted - 1 : uri[k] \in Letter
      /\ Dotted <= Len(uri) => uri[Dotted] \in Delimiters
      /\ \A k \in 1 .. Dotted - 1 : uri[k] \notin {"?", "#", "."}
  BY <1>1, <1>2, OneComponent DEF Begins
<1>4. Dotted <= PathEnd
  <2>1. \A k \in 1 .. Dotted - 1 : uri[k] \notin {"?", "#"}
    BY <1>3
  <2>2. 1 <= PathEnd
    BY <1>1
  <2> QED
    BY <1>1, <1>3, <2>1, <2>2, WithinPath
<1>5. Begins \in 2 .. PathEnd /\ Dotted \in Begins .. PathEnd
  BY <1>1, <1>3, <1>4
<1>6. ASSUME NEW k \in Begins .. Dotted - 1 PROVE uri[k] \notin {"/", "."}
  BY <1>3, Tables DEF Delimiters
<1>7. Dotted < PathEnd => uri[Dotted] \in {"/", "."}
  <2> SUFFICES ASSUME Dotted < PathEnd PROVE uri[Dotted] \in {"/", "."}
    OBVIOUS
  <2>1. Dotted <= Len(uri) /\ Dotted \in 1 .. PathEnd - 1
    BY <1>1, <1>5
  <2> QED
    BY <1>1, <1>3, <2>1 DEF Delimiters
<1>8. Dotted = PathEnd => At(Dotted) # "."
  BY <1>1 DEF At
<1>9. Begins < PathEnd => uri[Begins] # "/"
  BY <1>1, <1>3
<1> QED
  BY <1>2, <1>3, <1>5, <1>6, <1>7, <1>8, <1>9

LEMMA FirstComponentIs ==
  ASSUME uri \in Uris
  PROVE  /\ Components = {} => Begins = PathEnd
         /\ Components # {} =>
               /\ Begins < PathEnd
               /\ \E e \in Nat : /\ IsComponent(Begins, e) /\ FirstComponent = <<Begins, e>>
                                 /\ Dotted - 1 <= e
<1>1. /\ PathEnd \in Nat /\ Begins \in 2 .. PathEnd /\ Dotted \in Begins .. PathEnd
      /\ \A k \in 1 .. Begins - 1 : uri[k] = "/"
      /\ Begins < PathEnd => uri[Begins] # "/"
      /\ \A k \in Begins .. Dotted - 1 : uri[k] \notin {"/", "."}
  BY HeadIs, PathEndIs, TargetIs
<1>2. ASSUME NEW b, NEW e, IsComponent(b, e) PROVE b \in Begins .. PathEnd - 1 /\ e \in Nat
  <2>1. b \in 2 .. PathEnd - 1 /\ e \in b .. PathEnd - 1 /\ uri[b] # "/"
    BY <1>1, <1>2 DEF IsComponent
  <2>2. ~(b < Begins)
    BY <1>1, <2>1
  <2> QED
    BY <1>1, <2>1, <2>2
<1>3. CASE Begins = PathEnd
  <2>1. Components = {}
    <3> SUFFICES ASSUME NEW c \in Components PROVE FALSE
      OBVIOUS
    <3>1. IsComponent(c[1], c[2])
      BY ComponentsAre
    <3>2. c[1] \in Begins .. PathEnd - 1
      BY <1>2, <3>1
    <3> QED
      BY <1>1, <1>3, <3>2
  <2> QED
    BY <1>3, <2>1
<1>4. CASE Begins < PathEnd
  <2>1. Begins \in 1 .. PathEnd - 1 /\ uri[Begins] # "/"
    BY <1>1, <1>4
  <2>2. PICK b, e : IsComponent(b, e) /\ b <= Begins /\ Begins <= e
    BY <2>1, Around
  <2>3. b = Begins /\ e \in Nat
    BY <1>1, <1>2, <2>2
  <2>4. IsComponent(Begins, e)
    BY <2>2, <2>3
  <2> DEFINE F == <<Begins, e>>
             Is(c) == \A d \in Components : c[1] <= d[1]
  <2>5. F \in Components /\ Is(F)
    <3>1. F \in Components
      BY <2>4, ComponentsAre
    <3>2. ASSUME NEW d \in Components PROVE Begins <= d[1]
      <4>1. IsComponent(d[1], d[2])
        BY ComponentsAre
      <4>2. d[1] \in Begins .. PathEnd - 1
        BY <1>2, <4>1
      <4> QED
        BY <1>1, <4>2
    <3> QED
      BY <3>1, <3>2
  <2> DEFINE C == CHOOSE c \in Components : Is(c)
  <2>6. C \in Components /\ Is(C)
    <3> HIDE DEF Is, F
    <3> QED
      BY <2>5
  <2>7. C = FirstComponent
    BY DEF FirstComponent
  <2> HIDE DEF C
  <2>8. C = F
    <3>1. C = <<C[1], C[2]>> /\ IsComponent(C[1], C[2])
      BY <2>6, ComponentsAre
    <3>2. C[1] \in Begins .. PathEnd - 1
      BY <1>2, <3>1
    <3>3. C[1] <= Begins
      BY <2>5, <2>6
    <3>4. C[1] = Begins
      BY <1>1, <3>2, <3>3
    <3>5. C[2] = e
      BY <2>4, <3>1, <3>4, Apart
    <3> QED
      BY <3>1, <3>4, <3>5
  <2>9. Dotted - 1 <= e
    <3> SUFFICES ASSUME e < Dotted - 1 PROVE FALSE
      BY <1>1, <2>3
    <3>1. e \in Begins .. PathEnd - 1 /\ (e = PathEnd - 1 \/ uri[e + 1] = "/")
      BY <2>4 DEF IsComponent
    <3>2. e + 1 \in Begins .. Dotted - 1 /\ e # PathEnd - 1
      BY <1>1, <3>1
    <3> QED
      BY <1>1, <3>1, <3>2
  <2> QED
    BY <1>4, <2>3, <2>4, <2>5, <2>7, <2>8, <2>9
<1> QED
  BY <1>1, <1>3, <1>4

\* The texts of a component.
LEMMA PieceIs ==
  ASSUME uri \in Uris, NEW i \in 1 .. Len(uri), NEW j \in i .. Len(uri)
  PROVE  /\ SubSeq(uri, i, j) \in Seq(STRING) /\ Len(SubSeq(uri, i, j)) = (j - i) + 1
         /\ \A k \in 1 .. (j - i) + 1 : SubSeq(uri, i, j)[k] = uri[(i + k) - 1]
<1>1. uri \in Seq(STRING) /\ Len(uri) \in Nat
  BY TargetIs
<1>2. i \in Int /\ j \in Int /\ i <= j /\ \A k \in i .. j : uri[k] \in STRING
  BY <1>1
<1>3. /\ SubSeq(uri, i, j) \in Seq(STRING)
      /\ Len(SubSeq(uri, i, j)) = IF i <= j THEN j - i + 1 ELSE 0
      /\ \A k \in 1 .. j - i + 1 : SubSeq(uri, i, j)[k] = uri[i + k - 1]
  BY <1>2, SubSeqProperties
<1> QED
  BY <1>2, <1>3

LEMMA TextIs ==
  ASSUME uri \in Uris, NEW b, NEW e, IsComponent(b, e)
  PROVE  Text(<<b, e>>) = SubSeq(uri, b, e) /\ b \in 1 .. Len(uri) /\ e \in b .. Len(uri)
<1>1. /\ b \in 2 .. PathEnd - 1 /\ e \in b .. PathEnd - 1
      /\ PathEnd \in 1 .. Len(uri) + 1 /\ Len(uri) \in Nat /\ uri \in Seq(STRING)
  BY PathEndIs, TargetIs DEF IsComponent
<1>2. SubSeq(SubSeq(uri, 1, PathEnd - 1), b, e) = SubSeq(uri, 1 + b - 1, 1 + e - 1)
  <2>1. /\ 1 \in 1 .. Len(uri) /\ PathEnd - 1 \in 1 .. Len(uri)
        /\ b \in 1 .. (PathEnd - 1) - 1 + 1 /\ e \in 1 .. (PathEnd - 1) - 1 + 1
    BY <1>1
  <2> QED
    BY <1>1, <2>1, SubSeqOfSubSeq
<1>3. 1 + b - 1 = b /\ 1 + e - 1 = e /\ b \in 1 .. Len(uri) /\ e \in b .. Len(uri)
  BY <1>1
<1> QED
  BY <1>2, <1>3 DEF Text, Path, PathEnd

LEMMA ExtensionIs ==
  ASSUME uri \in Uris, NEW i \in 1 .. Len(uri), NEW j \in i .. Len(uri), NEW m \in i .. j,
         uri[m] = ".", \A k \in m + 1 .. j : uri[k] # "."
  PROVE  HasDot(SubSeq(uri, i, j)) /\ Extension(SubSeq(uri, i, j)) = SubSeq(uri, m, j)
<1> DEFINE s == SubSeq(uri, i, j)
           l == (m - i) + 1
           n == (j - i) + 1
           Is(k) == s[k] = "." /\ \A h \in k + 1 .. Len(s) : s[h] # "."
<1>1. /\ uri \in Seq(STRING) /\ Len(uri) \in Nat /\ i \in Nat /\ j \in Nat /\ m \in Nat
      /\ i <= m /\ m <= j
  BY TargetIs
<1>2. s \in Seq(STRING) /\ Len(s) = n /\ \A k \in 1 .. n : s[k] = uri[(i + k) - 1]
  BY PieceIs
<1>3. l \in 1 .. n /\ n \in Nat /\ (i + l) - 1 = m /\ (i + n) - 1 = j
  BY <1>1
<1>4. DOMAIN s = 1 .. n
  BY <1>2
<1>5. s[l] = "."
  BY <1>2, <1>3
<1> HIDE DEF l, n, s
<1>6. \A h \in l + 1 .. n : s[h] # "."
  <2> TAKE h \in l + 1 .. n
  <2>1. h \in 1 .. n /\ (i + h) - 1 \in m + 1 .. j
    BY <1>1, <1>3
  <2> QED
    BY <1>2, <2>1
<1>7. l \in DOMAIN s /\ Is(l)
  BY <1>2, <1>3, <1>4, <1>5, <1>6
<1>8. ASSUME NEW k \in DOMAIN s, Is(k) PROVE k = l
  <2>1. k \in 1 .. n /\ \A h \in k + 1 .. n : s[h] # "."
    BY <1>2, <1>4, <1>8
  <2>2. ~(k < l)
    BY <1>3, <1>5, <2>1
  <2>3. ~(l < k)
    BY <1>3, <1>6, <1>8, <2>1
  <2> QED
    BY <1>3, <2>1, <2>2, <2>3
<1> DEFINE last == CHOOSE k \in DOMAIN s : Is(k)
<1>9. last = l
  <2> HIDE DEF Is
  <2> QED
    BY <1>7, <1>8
<1>10. Extension(s) = SubSeq(s, last, Len(s))
  BY DEF Extension
<1>11. SubSeq(s, l, n) = SubSeq(uri, m, j)
  <2>1. /\ l \in 1 .. j - i + 1 /\ n \in 1 .. j - i + 1
        /\ i + l - 1 = m /\ i + n - 1 = j
    BY <1>1, <1>3 DEF l, n
  <2>2. i \in 1 .. Len(uri) /\ j \in 1 .. Len(uri)
    BY <1>1
  <2>3. SubSeq(SubSeq(uri, i, j), l, n) = SubSeq(uri, i + l - 1, i + n - 1)
    BY <1>1, <2>1, <2>2, SubSeqOfSubSeq
  <2> QED
    BY <2>1, <2>3 DEF s
<1>12. HasDot(s)
  BY <1>7 DEF HasDot
<1> QED
  BY <1>2, <1>9, <1>10, <1>11, <1>12 DEF s

(* uri_main finds the location that the first component names.             *)
LEMMA HomeServed ==
  ASSUME uri \in Uris, conf \in Configs, it = 1
  PROVE  (Known <=> Found) /\ Served = Home
<1> DEFINE n == Component(1)
           slash == <<"/">>
<1>1. /\ PathEnd \in Nat /\ PathEnd <= Len(uri) + 1 /\ Len(uri) \in Nat
      /\ Begins \in 2 .. PathEnd /\ Dotted \in Begins .. PathEnd
      /\ Begins < PathEnd => uri[Begins] # "/"
      /\ \A k \in Begins .. Dotted - 1 : uri[k] \notin {"/", "."}
      /\ Dotted < PathEnd => uri[Dotted] \in {"/", "."}
      /\ Dotted = PathEnd => At(Dotted) # "."
      /\ Dotted = Lettered(1) /\ n = slash \o From(Begins, Dotted)
  BY HeadIs, PathEndIs, TargetIs
<1>2. /\ slash \in DOMAIN conf.uri_case
      /\ \A p \in DOMAIN conf.uri_case : \A k \in 2 .. Len(p) : p[k] # "."
  BY ConfigAssumption
<1>3. Known <=> n \in DOMAIN conf.uri_case /\ At(Dotted) # "."
  BY <1>1 DEF Known
<1>4. Served = IF Known THEN conf.uri_case[n] ELSE conf.uri_case[slash]
  BY DEF Served
<1>5. Dotted < PathEnd => At(Dotted) = uri[Dotted]
  BY <1>1 DEF At
<1> HIDE DEF n
<1>6. CASE Components = {}
  <2>1. Begins = PathEnd /\ Dotted = PathEnd /\ Begins = Dotted
    BY <1>1, <1>6, FirstComponentIs
  <2>2. From(Begins, Dotted) = <<>>
    <3>1. Begins \in Int /\ Begins - 1 \in Int /\ Begins - 1 < Begins
      BY <1>1
    <3> QED
      BY <2>1, <3>1, SubSeqEmpty DEF From
  <2>3. slash \o <<>> = slash
    OBVIOUS
  <2>4. n = slash
    BY <1>1, <2>2, <2>3
  <2>5. Name = slash
    BY <1>6 DEF Name
  <2> HIDE DEF slash
  <2> QED
    BY <1>1, <1>2, <1>3, <1>4, <2>1, <2>4, <2>5 DEF Found, Home
<1>7. CASE Components # {}
  <2>1. Begins < PathEnd
    BY <1>7, FirstComponentIs
  <2>2. PICK e \in Nat : /\ IsComponent(Begins, e) /\ FirstComponent = <<Begins, e>>
                         /\ Dotted - 1 <= e
    BY <1>7, FirstComponentIs
  <2>3. /\ Begins \in 1 .. Len(uri) /\ e \in Begins .. Len(uri) /\ e <= PathEnd - 1
        /\ Text(<<Begins, e>>) = SubSeq(uri, Begins, e)
        /\ \A k \in Begins .. e : uri[k] # "/"
        /\ e = PathEnd - 1 \/ uri[e + 1] = "/"
    <3>1. /\ Text(<<Begins, e>>) = SubSeq(uri, Begins, e)
          /\ Begins \in 1 .. Len(uri) /\ e \in Begins .. Len(uri)
      BY <2>2, TextIs
    <3>2. /\ e \in Begins .. PathEnd - 1 /\ \A k \in Begins .. e : uri[k] # "/"
          /\ e = PathEnd - 1 \/ uri[e + 1] = "/"
      BY <2>2 DEF IsComponent
    <3>3. e <= PathEnd - 1
      BY <3>2
    <3> QED
      BY <3>1, <3>2, <3>3
  <2>4. Name = slash \o SubSeq(uri, Begins, e)
    BY <1>7, <2>2, <2>3 DEF Name
  <2>5. CASE At(Dotted) = "."
    <3>1. Dotted < PathEnd /\ uri[Dotted] = "."
      BY <1>1, <1>5, <2>5
    <3>2. Dotted <= e
      <4> SUFFICES ASSUME e < Dotted PROVE FALSE
        BY <1>1, <2>3
      <4>1. e + 1 = Dotted /\ e # PathEnd - 1
        BY <1>1, <2>2, <2>3, <3>1
      <4> QED
        BY <2>3, <3>1, <4>1
    <3> DEFINE w == SubSeq(uri, Begins, e)
               l == (Dotted - Begins) + 1
    <3>3. /\ w \in Seq(STRING) /\ Len(w) = (e - Begins) + 1
          /\ \A k \in 1 .. (e - Begins) + 1 : w[k] = uri[(Begins + k) - 1]
      BY <2>3, PieceIs
    <3>4. l \in 1 .. (e - Begins) + 1 /\ (Begins + l) - 1 = Dotted
      BY <1>1, <2>3, <3>2
    <3> HIDE DEF w, l
    <3>5. w[l] = "." /\ l \in 1 .. Len(w) /\ w \in Seq(STRING) /\ l \in Nat
      BY <3>1, <3>3, <3>4
    <3>6. (slash \o w)[l + 1] = "." /\ Len(slash \o w) = Len(w) + 1 /\ l + 1 \in 2 .. Len(w) + 1
      BY <3>5
    <3>7. slash \o w \notin DOMAIN conf.uri_case
      BY <1>2, <3>6
    <3>8. ~Found
      BY <2>4, <3>7 DEF Found, w
    <3>9. ~Known
      BY <1>3, <2>5
    <3> QED
      BY <1>4, <3>8, <3>9 DEF Home
  <2>6. CASE At(Dotted) # "."
    <3>1. Dotted < PathEnd => uri[Dotted] = "/"
      BY <1>1, <1>5, <2>6
    <3>2. Dotted # Begins
      BY <1>1, <2>1, <3>1
    <3>3. e = Dotted - 1
      <4>1. ~(e > Dotted - 1)
        <5> SUFFICES ASSUME e > Dotted - 1 PROVE FALSE
          OBVIOUS
        <5>1. Dotted \in Begins .. e /\ Dotted < PathEnd
          BY <1>1, <2>3
        <5> QED
          BY <2>3, <3>1, <5>1
      <4> QED
        BY <1>1, <2>2, <4>1
    <3>4. Name = n
      BY <1>1, <2>4, <3>3 DEF From
    <3> QED
      BY <1>3, <1>4, <2>6, <3>4 DEF Found, Home
  <2> QED
    BY <2>5, <2>6
<1> QED
  BY <1>6, <1>7

\* A script is a component with a dot in it.
LEMMA ScriptsAre ==
  ASSUME uri \in Uris, NEW c \in Scripts
  PROVE  /\ c \in Components /\ c = <<c[1], c[2]>> /\ IsComponent(c[1], c[2])
         /\ \E m \in c[1] .. c[2] : uri[m] = "."
<1>1. c \in Components /\ HasDot(Text(c))
  BY DEF Scripts
<1>2. c = <<c[1], c[2]>> /\ IsComponent(c[1], c[2])
  BY <1>1, ComponentsAre
<1> DEFINE b == c[1]
           e == c[2]
<1>3. Text(c) = SubSeq(uri, b, e) /\ b \in 1 .. Len(uri) /\ e \in b .. Len(uri)
  BY <1>2, TextIs
<1> HIDE DEF b, e
<1>4. /\ SubSeq(uri, b, e) \in Seq(STRING) /\ Len(SubSeq(uri, b, e)) = (e - b) + 1
      /\ \A k \in 1 .. (e - b) + 1 : SubSeq(uri, b, e)[k] = uri[(b + k) - 1]
  BY <1>3, PieceIs
<1> DEFINE s == SubSeq(uri, b, e)
<1>5. PICK k \in DOMAIN s : s[k] = "."
  BY <1>1, <1>3 DEF HasDot
<1>6. k \in 1 .. (e - b) + 1 /\ uri[(b + k) - 1] = "."
  <2>1. DOMAIN s = 1 .. (e - b) + 1
    BY <1>4
  <2> QED
    BY <1>4, <1>5, <2>1
<1>7. (b + k) - 1 \in b .. e
  BY <1>3, <1>6, TargetIs
<1> QED
  BY <1>1, <1>2, <1>6, <1>7 DEF b, e

\* Nothing of this changes while the walk goes on.
LEMMA StaticToo ==
  ASSUME Kept
  PROVE  /\ Components' = Components /\ FirstComponent' = FirstComponent
         /\ Name' = Name /\ (Found' <=> Found) /\ Home' = Home
         /\ Scripts' = Scripts /\ Script' = Script
         /\ Lost' <=> Lost
         /\ \A c : Text(c)' = Text(c)
<1>1. Path' = Path /\ UNCHANGED <<conf, method, uri>>
  BY Static DEF Kept
<1>2. Components' = Components /\ \A c : Text(c)' = Text(c)
  BY <1>1 DEF Components, Text
<1>3. FirstComponent' = FirstComponent
  BY <1>2 DEF FirstComponent
<1>4. Name' = Name
  BY <1>2, <1>3 DEF Name
<1>5. (Found' <=> Found) /\ Home' = Home
  BY <1>1, <1>4 DEF Found, Home
<1>6. Scripts' = Scripts
  BY <1>1, <1>2 DEF Scripts
<1>7. Script' = Script
  BY <1>6 DEF Script
<1>8. Lost' <=> Lost
  BY <1>1, <1>3, <1>5, <1>6, <1>7 DEF Lost
<1> QED
  BY <1>2, <1>3, <1>4, <1>5, <1>6, <1>7, <1>8

(* Which location the flags and the pointers stand for: so far no script,  *)
(* a cgi_pass at home, or the first script of the path.                    *)
SlashIn(i, j) == \E k \in i .. j : uri[k] = "/"
AtHome ==
    /\ Walked >= Dotted
    /\ return_location_root = Home
    /\ "notfound_uri" \in flags <=> ~Found
    /\ "cgi_pass" \in flags <=> Home.cgi_pass # <<>>
NoScriptYet ==
    /\ return_location = Home /\ ~r.is_cgi_
    /\ \A c \in Scripts : c[2] >= Walked
    /\ "depth_uri" \in flags <=> SlashIn(Dotted, Walked - 1)
PassedOn == r.is_cgi_ /\ r.cgi_loc_ = Home /\ return_location = Home /\ "depth_uri" \notin flags
ScriptFound ==
    \E c \in Scripts :
        /\ \A d \in Scripts : c[1] <= d[1]
        /\ r.is_cgi_ /\ r.cgi_loc_ = conf.cgi_case[Extension(Text(c))]
        /\ return_location = r.cgi_loc_
        /\ "depth_uri" \in flags <=> SlashIn(Dotted, c[1])
Chosen ==
    /\ AtHome
    /\ "cgi" \notin flags => NoScriptYet
    /\ "cgi" \in flags /\ "cgi_pass" \in flags => PassedOn
    /\ "cgi" \in flags /\ "cgi_pass" \notin flags => ScriptFound
Settled == (state \in Walking => Chosen) /\ LocationAsConfigured

LEMMA MainSettled == IInv /\ Placed /\ Settled /\ uri_main => Settled'
<1> SUFFICES ASSUME IInv, Placed, uri_main PROVE Settled'
  OBVIOUS
<1>1. /\ state = "uri_main" /\ state' \in {"uri_find_delimeter_case", "thrown"}
      /\ it' = Lettered(it) /\ Kept
      /\ return_location' = Served /\ return_location_root' = Served
      /\ flags' \subseteq {"notfound_uri", "cgi", "cgi_pass"}
      /\ "notfound_uri" \in flags' <=> ~Known
      /\ "cgi" \in flags' <=> "cgi_pass" \in flags'
      /\ state' # "thrown" => ("cgi_pass" \in flags' <=> Served.cgi_pass # <<>>)
      /\ "cgi" \in flags' => r'.is_cgi_ /\ r'.cgi_loc_ = Served
      /\ "cgi" \notin flags' => ~r'.is_cgi_
  BY MainDoes
<1>2. uri \in Uris /\ conf \in Configs /\ it = 1
  BY <1>1 DEF Placed, IInv, TypeOK
<1>3. (Known <=> Found) /\ Served = Home
  BY <1>2, HomeServed
<1>4. /\ PathEnd \in Nat /\ Begins \in 2 .. PathEnd /\ Dotted \in Begins .. PathEnd
      /\ Dotted = Lettered(1)
      /\ \A k \in 1 .. Begins - 1 : uri[k] = "/"
      /\ \A k \in Begins .. Dotted - 1 : uri[k] \notin {"/", "."}
  BY <1>2, HeadIs, PathEndIs, TargetIs
<1>5. /\ (Found' <=> Found) /\ Home' = Home /\ Scripts' = Scripts
      /\ PathEnd' = PathEnd /\ Dotted' = Dotted /\ uri' = uri
  BY <1>1, Static, StaticToo DEF Kept
<1>6. Walked' = Dotted
  BY <1>1, <1>2, <1>4, <1>5 DEF Walked
<1>7. ASSUME NEW c \in Scripts PROVE c[2] >= Dotted
  <2>1. PICK m \in c[1] .. c[2] : uri[m] = "."
    BY <1>2, ScriptsAre
  <2>2. c[1] \in 2 .. PathEnd - 1 /\ c[2] \in c[1] .. PathEnd - 1
    BY <1>2, ScriptsAre DEF IsComponent
  <2>3. m \notin 1 .. Begins - 1 /\ m \notin Begins .. Dotted - 1
    BY <1>4, <2>1
  <2>4. m \in Int /\ m >= 2 /\ m <= c[2]
    BY <2>1, <2>2
  <2> QED
    BY <1>4, <2>2, <2>3, <2>4
<1>8. ~SlashIn(Dotted, Dotted - 1)
  BY <1>4 DEF SlashIn
<1>9. ~SlashIn(Dotted, Walked - 1)'
  BY <1>4, <1>5, <1>6 DEF SlashIn
<1>10. ASSUME state' # "thrown" PROVE Chosen'
  <2>1. AtHome'
    BY <1>1, <1>3, <1>4, <1>5, <1>6, <1>10 DEF AtHome
  <2>2. "cgi" \notin flags' => NoScriptYet'
    BY <1>1, <1>3, <1>5, <1>6, <1>7, <1>9 DEF NoScriptYet
  <2>3. "cgi" \in flags' => PassedOn'
    BY <1>1, <1>3, <1>5 DEF PassedOn
  <2> QED
    BY <1>1, <2>1, <2>2, <2>3 DEF Chosen
<1>11. LocationAsConfigured'
  BY <1>1 DEF LocationAsConfigured
<1> QED
  BY <1>1, <1>10, <1>11 DEF Settled, Walking

\* A step that only moves the walk out of the path, or within its last slash.
LEMMA SettledStays ==
  ASSUME Settled, Kept, Walked' = Walked, state \in Walking, state' \in Walking,
         UNCHANGED <<flags, return_location, return_location_root>>,
         r'.is_cgi_ = r.is_cgi_, r'.cgi_loc_ = r.cgi_loc_
  PROVE  Settled'
<1>1. /\ (Found' <=> Found) /\ Home' = Home /\ Scripts' = Scripts
      /\ Dotted' = Dotted /\ uri' = uri /\ conf' = conf
      /\ \A c : Text(c)' = Text(c)
  BY Static, StaticToo DEF Kept
<1>2. Chosen
  BY DEF Settled
<1>3. AtHome'
  BY <1>1, <1>2 DEF Chosen, AtHome
<1>4. NoScriptYet => NoScriptYet'
  BY <1>1 DEF NoScriptYet, SlashIn
<1>5. PassedOn => PassedOn'
  BY <1>1 DEF PassedOn
<1>6. ScriptFound => ScriptFound'
  BY <1>1 DEF ScriptFound, SlashIn
<1>7. LocationAsConfigured'
  BY DEF LocationAsConfigured, Walking
<1> QED
  BY <1>2, <1>3, <1>4, <1>5, <1>6, <1>7 DEF Settled, Chosen

LEMMA OutsideSettled ==
  IInv /\ Placed /\ Settled /\ (uri_find_delimeter_case \/ uri_query \/ uri_fragment) => Settled'
<1> SUFFICES ASSUME IInv, Placed, Settled PROVE uri_find_delimeter_case \/ uri_query \/ uri_fragment => Settled'
  OBVIOUS
<1>1. /\ uri \in Uris /\ Len(uri) \in Nat /\ it \in 1 .. Len(uri) + 1
      /\ PathEnd \in 1 .. Len(uri) + 1 /\ PathEnd <= First({"#"})
      /\ First({"#"}) \in 1 .. Len(uri) + 1
      /\ \A k \in 1 .. PathEnd - 1 : uri[k] \notin {"?", "#"}
  BY TargetIs, PathEndIs, FirstsOrdered DEF Placed, IInv, TypeOK
<1>2. CASE uri_find_delimeter_case
  <2>1. /\ state = "uri_find_delimeter_case" /\ Kept /\ state' \in Walking
        /\ UNCHANGED <<flags, return_location, return_location_root, r>>
        /\ \/ it' = it
           \/ it' = it + 1 /\ At(it) \in {"?", "#"}
    BY <1>2, DelimeterDoes DEF Walking
  <2>2. PathEnd' = PathEnd
    BY <2>1, Static DEF Kept
  <2>3. At(it) \in {"?", "#"} => it >= PathEnd
    <3>1. At(it) \in {"?", "#"} => it <= Len(uri) /\ uri[it] \in {"?", "#"}
      BY DEF At
    <3> QED
      BY <1>1, <3>1
  <2>4. Walked' = Walked
    <3>1. CASE it' = it
      BY <2>2, <3>1 DEF Walked
    <3>2. CASE it' = it + 1 /\ it >= PathEnd
      BY <1>1, <2>2, <3>2 DEF Walked
    <3> QED
      BY <2>1, <2>3, <3>1, <3>2
  <2> QED
    BY <2>1, <2>4, SettledStays DEF Walking
<1>3. CASE uri_query
  <2>1. /\ state = "uri_query" /\ Kept /\ state' \in Walking
        /\ UNCHANGED <<flags, return_location, return_location_root>>
        /\ r'.is_cgi_ = r.is_cgi_ /\ r'.cgi_loc_ = r.cgi_loc_
        /\ it' = Past(it, STRING \ {"#"})
    BY <1>3, QueryDoes DEF Walking
  <2>2. it' \in it .. Len(uri) + 1
    BY <1>1, <2>1, PastStops, TargetIs
  <2>3. PathEnd' = PathEnd /\ it = PathEnd + 1
    BY <2>1, Static DEF Kept, Placed
  <2>4. Walked' = Walked
    <3>1. ~(it' <= PathEnd) /\ ~(it <= PathEnd)
      BY <1>1, <2>2, <2>3
    <3> QED
      BY <2>3, <3>1 DEF Walked
  <2> QED
    BY <2>1, <2>4, SettledStays DEF Walking
<1>4. CASE uri_fragment
  <2>1. /\ state = "uri_fragment" /\ Kept /\ state' \in Walking
        /\ UNCHANGED <<flags, return_location, return_location_root>>
        /\ r'.is_cgi_ = r.is_cgi_ /\ r'.cgi_loc_ = r.cgi_loc_
        /\ it' = Len(uri) + 1
    BY <1>4, FragmentDoes DEF Walking
  <2>2. PathEnd' = PathEnd /\ it = First({"#"}) + 1
    BY <2>1, Static DEF Kept, Placed
  <2>3. Walked' = Walked
    <3>1. ~(it <= PathEnd) /\ (it' <= PathEnd => it' = PathEnd)
      BY <1>1, <2>1, <2>2
    <3> QED
      BY <2>2, <3>1 DEF Walked
  <2> QED
    BY <2>1, <2>3, SettledStays DEF Walking
<1> QED
  BY <1>2, <1>3, <1>4

LEMMA DepthSettled == IInv /\ Placed /\ Settled /\ uri_depth => Settled'
<1> SUFFICES ASSUME IInv, Placed, Settled, uri_depth PROVE Settled'
  OBVIOUS
<1>1. /\ state = "uri_depth" /\ state' = "uri_find_delimeter_case" /\ Kept
      /\ UNCHANGED <<return_location, return_location_root>>
      /\ r'.is_cgi_ = r.is_cgi_ /\ r'.cgi_loc_ = r.cgi_loc_
      /\ \/ /\ "cgi" \in flags /\ flags' = flags \union {"path_info"}
            /\ it' = Past(Lettered(it), except_query_fragment_)
         \/ /\ "cgi" \notin flags /\ flags' = flags \union {"depth_uri"}
            /\ it' = Lettered(it)
  BY DepthDoes
<1>2. /\ uri \in Uris /\ Len(uri) \in Nat /\ it \in 1 .. Len(uri) + 1 /\ it < PathEnd
      /\ uri[it] = "/" /\ PathEnd \in 1 .. Len(uri) + 1 /\ Dotted \in 2 .. PathEnd
  BY <1>1, TargetIs, PathEndIs, HeadIs DEF Placed, IInv, TypeOK
<1>3. /\ (Found' <=> Found) /\ Home' = Home /\ Scripts' = Scripts
      /\ Dotted' = Dotted /\ uri' = uri /\ conf' = conf /\ PathEnd' = PathEnd
      /\ \A c : Text(c)' = Text(c)
  BY <1>1, Static, StaticToo DEF Kept
<1> DEFINE a == Lettered(it)
<1>4. /\ a \in it .. Len(uri) + 1 /\ \A k \in it .. a - 1 : uri[k] \notin {"?", "#", "."}
      /\ \A k \in it .. Past(it, {"/"}) - 1 : uri[k] = "/"
      /\ Past(it, {"/"}) <= Len(uri) => uri[Past(it, {"/"})] # "/"
      /\ a \in Past(it, {"/"}) .. Len(uri) + 1
      /\ Past(it, {"/"}) \in it .. Len(uri) + 1
  BY <1>2, OneComponent
<1> HIDE DEF a
<1>5. a > it /\ a <= PathEnd
  <2>1. Past(it, {"/"}) # it
    BY <1>2, <1>4
  <2>2. a <= PathEnd
    <3>1. it \in 1 .. Len(uri) + 1 /\ it <= PathEnd /\ \A k \in it .. a - 1 : uri[k] \notin {"?", "#"}
      BY <1>2, <1>4
    <3> QED
      BY <1>2, <1>4, <3>1, WithinPath
  <2> QED
    BY <1>2, <1>4, <2>1, <2>2
<1>6. Chosen /\ Walked = it
  BY <1>1, <1>2 DEF Settled, Walking, Walked
<1>7. Walked' \in Nat /\ Walked' >= it /\ ("cgi" \notin flags => Walked' = a)
  <2>1. CASE "cgi" \in flags
    <3>1. it' = Past(a, except_query_fragment_)
      BY <1>1, <2>1 DEF a
    <3>2. a \in 1 .. Len(uri) + 1
      BY <1>2, <1>4
    <3>3. it' \in a .. Len(uri) + 1 /\ it' <= PathEnd
      BY <1>2, <1>5, <3>1, <3>2, RunInPath, Tables
    <3>4. Walked' = it'
      BY <1>3, <3>3 DEF Walked
    <3> QED
      BY <1>2, <1>5, <2>1, <3>2, <3>3, <3>4
  <2>2. CASE "cgi" \notin flags
    <3>1. it' = a
      BY <1>1, <2>2 DEF a
    <3>2. Walked' = a
      BY <1>3, <1>5, <3>1 DEF Walked
    <3> QED
      BY <1>2, <1>4, <1>5, <3>2
  <2> QED
    BY <2>1, <2>2
<1>8. AtHome'
  <2>1. Walked' >= Dotted
    BY <1>2, <1>6, <1>7 DEF Chosen, AtHome
  <2> QED
    BY <1>1, <1>3, <1>6, <2>1 DEF Chosen, AtHome
<1>9. CASE "cgi" \in flags
  <2>1. PassedOn => PassedOn'
    BY <1>1, <1>3, <1>9 DEF PassedOn
  <2>2. ScriptFound => ScriptFound'
    BY <1>1, <1>3, <1>9 DEF ScriptFound, SlashIn
  <2>3. /\ "cgi" \in flags'
        /\ "cgi_pass" \in flags' <=> "cgi_pass" \in flags
    BY <1>1, <1>9
  <2> QED
    BY <1>1, <1>6, <1>8, <1>9, <2>1, <2>2, <2>3 DEF Settled, Chosen, LocationAsConfigured
<1>10. CASE "cgi" \notin flags
  <2>1. NoScriptYet /\ flags' = flags \union {"depth_uri"} /\ Walked' = a
    BY <1>1, <1>6, <1>7, <1>10 DEF Chosen
  <2>2. ASSUME NEW c \in Scripts PROVE c[2] >= a
    <3> DEFINE b == c[1]
               e == c[2]
    <3>1. /\ b \in 2 .. PathEnd - 1 /\ e \in b .. PathEnd - 1
          /\ \A k \in b .. e : uri[k] # "/"
      BY <1>2, ScriptsAre DEF IsComponent
    <3>2. PICK m \in b .. e : uri[m] = "."
      BY <1>2, ScriptsAre
    <3>3. e >= it
      BY <1>6, <2>1 DEF NoScriptYet
    <3> HIDE DEF b, e
    <3>4. it \notin b .. e
      BY <1>2, <3>1
    <3>5. m \notin it .. a - 1
      BY <1>4, <3>2
    <3>6. b > it
      BY <1>2, <3>1, <3>3, <3>4
    <3>7. m \in Int /\ m > it /\ m <= e
      BY <1>2, <3>1, <3>2, <3>6
    <3>8. a \in Int
      BY <1>2, <1>4
    <3>9. e >= a
      BY <1>2, <3>1, <3>5, <3>7, <3>8
    <3> QED
      BY <3>9 DEF e
  <2>3. SlashIn(Dotted, Walked - 1)'
    <3>1. it \in Dotted .. a - 1
      BY <1>2, <1>4, <1>5, <1>6 DEF Chosen, AtHome
    <3> QED
      BY <1>2, <1>3, <2>1, <3>1 DEF SlashIn
  <2>4. NoScriptYet'
    BY <1>1, <1>3, <2>1, <2>2, <2>3 DEF NoScriptYet
  <2>5. "cgi" \notin flags'
    BY <1>10, <2>1
  <2> QED
    BY <1>1, <1>8, <2>4, <2>5 DEF Settled, Chosen, LocationAsConfigured
<1> QED
  BY <1>9, <1>10

LEMMA CgiSettled == IInv /\ Placed /\ Settled /\ uri_cgi => Settled'
<1> SUFFICES ASSUME IInv, Placed, Settled, uri_cgi PROVE Settled'
  OBVIOUS
<1> DEFINE j == Past(it, except_slash_query_fragment_)
           w == From(it, j)
<1>1. /\ state = "uri_cgi" /\ state' = "uri_find_delimeter_case" /\ Kept
      /\ UNCHANGED return_location_root /\ it' = j
      /\ \/ /\ "cgi" \in flags /\ UNCHANGED <<flags, return_location>>
            /\ r'.is_cgi_ = r.is_cgi_ /\ r'.cgi_loc_ = r.cgi_loc_
         \/ /\ "cgi" \notin flags
            /\ \/ /\ HasDot(w) /\ Extension(w) \in DOMAIN conf.cgi_case
                  /\ r'.is_cgi_ /\ r'.cgi_loc_ = conf.cgi_case[Extension(w)]
                  /\ return_location' = r'.cgi_loc_
                  /\ flags' = flags \union {"cgi"}
               \/ /\ ~(HasDot(w) /\ Extension(w) \in DOMAIN conf.cgi_case)
                  /\ UNCHANGED return_location
                  /\ flags' = flags \union {"check_extension"}
                  /\ r'.is_cgi_ = r.is_cgi_ /\ r'.cgi_loc_ = r.cgi_loc_
  BY CgiDoes
<1>2. /\ uri \in Uris /\ uri \in Seq(STRING) /\ Len(uri) \in Nat /\ it \in 1 .. Len(uri) + 1
      /\ it < PathEnd /\ uri[it] = "." /\ PathEnd \in 1 .. Len(uri) + 1
      /\ \A k \in 1 .. PathEnd - 1 : uri[k] \notin {"?", "#"}
  BY <1>1, TargetIs, PathEndIs DEF Placed, IInv, TypeOK
<1>3. /\ (Found' <=> Found) /\ Home' = Home /\ Scripts' = Scripts
      /\ Dotted' = Dotted /\ uri' = uri /\ conf' = conf /\ PathEnd' = PathEnd
      /\ \A c : Text(c)' = Text(c)
  BY <1>1, Static, StaticToo DEF Kept
<1>4. Dotted \in 2 .. PathEnd
  BY <1>2, HeadIs, PathEndIs
<1>5. /\ j \in it .. Len(uri) + 1 /\ j <= PathEnd
      /\ \A k \in it .. j - 1 : uri[k] # "/"
      /\ j < PathEnd => uri[j] = "/"
  <2>1. it <= PathEnd
    BY <1>2
  <2>2. /\ j \in it .. Len(uri) + 1 /\ j <= PathEnd
        /\ j <= Len(uri) => uri[j] \in Delimiters
        /\ \A k \in it .. j - 1 : uri[k] \in except_slash_query_fragment_
    BY <1>2, <2>1, RunInPath, Tables
  <2>3. j <= Len(uri) => uri[j] \notin except_slash_query_fragment_
    BY <1>2, PastStops
  <2> HIDE DEF j
  <2>4. \A k \in it .. j - 1 : uri[k] # "/"
    BY <2>2, Tables
  <2>5. ASSUME j < PathEnd PROVE uri[j] = "/"
    <3>1. j <= Len(uri) /\ j \in 1 .. PathEnd - 1
      BY <1>2, <2>2, <2>5
    <3>2. uri[j] # "."
      BY <2>3, <3>1 DEF except_slash_query_fragment_
    <3> QED
      BY <1>2, <2>2, <3>1, <3>2 DEF Delimiters
  <2> QED
    BY <2>2, <2>4, <2>5
<1>6. j > it
  <2>1. j # it
    <3>1. j <= Len(uri) => uri[j] \notin except_slash_query_fragment_
      BY <1>2, PastStops
    <3>2. it <= Len(uri) /\ uri[it] \in except_slash_query_fragment_
      BY <1>2, Tables
    <3> QED
      BY <3>1, <3>2
  <2> QED
    BY <1>2, <1>5, <2>1
<1> HIDE DEF j
<1>7. Chosen /\ Walked = it /\ Walked' = j
  BY <1>1, <1>2, <1>3, <1>5 DEF Settled, Walking, Walked
<1>8. AtHome'
  <2>1. Walked' >= Dotted
    BY <1>2, <1>4, <1>5, <1>7 DEF Chosen, AtHome
  <2>2. /\ "notfound_uri" \in flags' <=> "notfound_uri" \in flags
        /\ "cgi_pass" \in flags' <=> "cgi_pass" \in flags
    BY <1>1
  <2> QED
    BY <1>1, <1>3, <1>7, <2>1, <2>2 DEF Chosen, AtHome
\* The component the walk is in.
<1>9. PICK b, e : IsComponent(b, e) /\ b <= it /\ it <= e
  <2>1. it \in 1 .. PathEnd - 1 /\ uri[it] # "/"
    BY <1>2
  <2> QED
    BY <1>2, <2>1, Around
<1>10. /\ b \in 2 .. PathEnd - 1 /\ e \in b .. PathEnd - 1 /\ e = j - 1
       /\ \A k \in b .. e : uri[k] # "/"
  <2>1. /\ b \in 2 .. PathEnd - 1 /\ e \in b .. PathEnd - 1
        /\ \A k \in b .. e : uri[k] # "/"
        /\ e = PathEnd - 1 \/ uri[e + 1] = "/"
    BY <1>9 DEF IsComponent
  <2>2. ~(e < j - 1)
    <3> SUFFICES ASSUME e < j - 1 PROVE FALSE
      OBVIOUS
    <3>1. e + 1 \in it .. j - 1 /\ e # PathEnd - 1
      BY <1>2, <1>5, <1>9, <2>1
    <3> QED
      BY <1>5, <2>1, <3>1
  <2>3. ~(e > j - 1)
    <3> SUFFICES ASSUME e > j - 1 PROVE FALSE
      OBVIOUS
    <3>1. j \in b .. e /\ j < PathEnd
      BY <1>2, <1>5, <1>9, <2>1
    <3> QED
      BY <1>5, <2>1, <3>1
  <2> QED
    BY <1>2, <1>5, <2>1, <2>2, <2>3
<1> DEFINE c == <<b, e>>
<1>11. c \in Components /\ c[1] = b /\ c[2] = e
  BY <1>2, <1>9, ComponentsAre
\* What the walk cut off has the extension of the component.
<1>12. HasDot(w) /\ HasDot(Text(c)) /\ Extension(w) = Extension(Text(c))
  <2> DEFINE S == {k \in it .. e : uri[k] = "."}
             D == {e - k : k \in S}
  <2>1. S \subseteq it .. e /\ it \in S /\ it \in Nat /\ e \in Nat
    BY <1>2, <1>9, <1>10
  <2> HIDE DEF S
  <2>2. \A d \in D : d \in Nat
    BY <2>1
  <2>3. e - it \in D
    BY <2>1
  <2>4. PICK d \in D : \A k \in D : d <= k
    <3> HIDE DEF D
    <3> QED
      BY <2>2, <2>3, LeastOf
  <2>5. PICK m \in S : d = e - m
    BY <2>4
  <2>6. m \in it .. e /\ uri[m] = "."
    BY <2>1, <2>5 DEF S
  <2>7. \A k \in m + 1 .. e : uri[k] # "."
    <3> SUFFICES ASSUME NEW k \in m + 1 .. e, uri[k] = "." PROVE FALSE
      OBVIOUS
    <3>1. k \in S /\ k > m /\ k \in Nat
      BY <2>1, <2>6 DEF S
    <3>2. e - k \in D
      BY <3>1
    <3>3. e - m <= e - k
      BY <2>4, <2>5, <3>2
    <3> QED
      BY <2>1, <2>6, <3>1, <3>3
  <2> HIDE DEF D
  <2>8. w = SubSeq(uri, it, e)
    BY <1>2, <1>5, <1>10 DEF From
  <2>9. Text(c) = SubSeq(uri, b, e) /\ b \in 1 .. Len(uri) /\ e \in b .. Len(uri)
    BY <1>2, <1>9, TextIs
  <2>10. it \in 1 .. Len(uri) /\ e \in it .. Len(uri) /\ m \in b .. e
    BY <1>2, <1>9, <1>10, <2>6, <2>9
  <2>11. HasDot(SubSeq(uri, it, e)) /\ Extension(SubSeq(uri, it, e)) = SubSeq(uri, m, e)
    BY <1>2, <2>6, <2>7, <2>10, ExtensionIs
  <2>12. HasDot(SubSeq(uri, b, e)) /\ Extension(SubSeq(uri, b, e)) = SubSeq(uri, m, e)
    BY <1>2, <2>6, <2>7, <2>9, <2>10, ExtensionIs
  <2> HIDE DEF w, c
  <2> QED
    BY <2>8, <2>9, <2>11, <2>12
<1>13. c \in Scripts <=> Extension(w) \in DOMAIN conf.cgi_case
  BY <1>11, <1>12 DEF Scripts
<1>14. ASSUME NEW d \in Scripts, d[2] >= it
       PROVE  /\ b <= d[1] /\ d[1] \in Nat /\ d[2] \in Nat
              /\ d[2] < j => d = c
  <2>1. d = <<d[1], d[2]>> /\ IsComponent(d[1], d[2])
    BY <1>2, ScriptsAre
  <2>2. d[1] \in 2 .. PathEnd - 1 /\ d[2] \in d[1] .. PathEnd - 1
    BY <2>1 DEF IsComponent
  <2>3. /\ d[1] < b => d[2] < b - 1
        /\ b < d[1] => e < d[1] - 1
        /\ b = d[1] => e = d[2]
    BY <1>2, <1>9, <2>1, Apart
  <2>4. b <= d[1]
    BY <1>2, <1>9, <1>10, <1>14, <2>2, <2>3
  <2>5. d[2] < j => b = d[1]
    BY <1>2, <1>5, <1>10, <2>2, <2>3, <2>4
  <2>6. d[1] \in Nat /\ d[2] \in Nat
    BY <1>2, <2>2
  <2> QED
    BY <2>1, <2>3, <2>4, <2>5, <2>6
<1> HIDE DEF c, w
<1>15. CASE "cgi" \in flags
  <2>1. PassedOn => PassedOn'
    BY <1>1, <1>3, <1>15 DEF PassedOn
  <2>2. ScriptFound => ScriptFound'
    BY <1>1, <1>3, <1>15 DEF ScriptFound, SlashIn
  <2>3. UNCHANGED flags
    BY <1>1, <1>15
  <2> QED
    BY <1>1, <1>7, <1>8, <1>15, <2>1, <2>2, <2>3 DEF Settled, Chosen, LocationAsConfigured
<1>16. CASE "cgi" \notin flags
  <2>1. NoScriptYet /\ "cgi_pass" \notin flags
    BY <1>7, <1>16 DEF Chosen, IInv, Linked
  <2>2. /\ \A d \in Scripts : d[2] >= it
        /\ "depth_uri" \in flags <=> SlashIn(Dotted, it - 1)
        /\ return_location = Home /\ ~r.is_cgi_
    BY <1>7, <2>1 DEF NoScriptYet
  <2>3. CASE Extension(w) \in DOMAIN conf.cgi_case
    <3>1. /\ r'.is_cgi_ /\ r'.cgi_loc_ = conf.cgi_case[Extension(w)]
          /\ return_location' = r'.cgi_loc_ /\ flags' = flags \union {"cgi"}
      BY <1>1, <1>12, <1>16, <2>3
    <3>2. c \in Scripts /\ \A d \in Scripts : b <= d[1]
      BY <1>13, <1>14, <2>2, <2>3
    <3>3. SlashIn(Dotted, it - 1) <=> SlashIn(Dotted, b)
      <4>1. ASSUME NEW k \in Dotted .. it - 1, uri[k] = "/" PROVE k \in Dotted .. b
        <5>1. k \notin b .. e
          BY <1>10, <4>1
        <5> QED
          BY <1>2, <1>4, <1>9, <1>10, <5>1
      <4>2. ASSUME NEW k \in Dotted .. b, uri[k] = "/" PROVE k \in Dotted .. it - 1
        <5>1. k \notin b .. e
          BY <1>10, <4>2
        <5> QED
          BY <1>2, <1>4, <1>9, <1>10, <5>1
      <4> QED
        BY <4>1, <4>2 DEF SlashIn
    <3>4. "depth_uri" \in flags' <=> SlashIn(Dotted, b)
      BY <2>2, <3>1, <3>3
    <3>5. c[1] = b /\ Extension(w) = Extension(Text(c))
      BY <1>11, <1>12
    <3>6. ScriptFound'
      BY <1>3, <3>1, <3>2, <3>4, <3>5 DEF ScriptFound, SlashIn
    <3>7. "cgi" \in flags' /\ "cgi_pass" \notin flags'
      BY <2>1, <3>1
    <3> QED
      BY <1>1, <1>8, <3>6, <3>7 DEF Settled, Chosen, LocationAsConfigured
  <2>4. CASE Extension(w) \notin DOMAIN conf.cgi_case
    <3>1. /\ UNCHANGED return_location /\ r'.is_cgi_ = r.is_cgi_
          /\ flags' = flags \union {"check_extension"}
      BY <1>1, <1>16, <2>4
    <3>2. ASSUME NEW d \in Scripts PROVE d[2] >= j
      <4>1. d # c
        BY <1>13, <2>4
      <4>2. ~(d[2] < j) /\ d[2] \in Nat
        BY <1>14, <2>2, <4>1
      <4> QED
        BY <1>2, <1>5, <4>2
    <3>3. SlashIn(Dotted, it - 1) <=> SlashIn(Dotted, j - 1)
      <4>1. Dotted \in Nat /\ it \in Nat /\ j \in Nat /\ it <= j /\ Dotted <= it
        BY <1>2, <1>4, <1>5, <1>7 DEF Chosen, AtHome
      <4>2. ASSUME NEW k \in Dotted .. j - 1, uri[k] = "/" PROVE k \in Dotted .. it - 1
        <5>1. k \notin it .. j - 1
          BY <1>5, <4>2
        <5> QED
          BY <4>1, <5>1
      <4>3. \A k \in Dotted .. it - 1 : k \in Dotted .. j - 1
        BY <4>1
      <4> QED
        BY <4>2, <4>3 DEF SlashIn
    <3>4. "depth_uri" \in flags' <=> SlashIn(Dotted, j - 1)
      BY <2>2, <3>1, <3>3
    <3>5. NoScriptYet'
      BY <1>3, <1>7, <2>2, <3>1, <3>2, <3>4 DEF NoScriptYet, SlashIn
    <3>6. "cgi" \notin flags'
      BY <1>16, <3>1
    <3> QED
      BY <1>1, <1>8, <3>5, <3>6 DEF Settled, Chosen, LocationAsConfigured
  <2> QED
    BY <2>3, <2>4
<1> QED
  BY <1>15, <1>16

LEMMA DoneDoes ==
  ASSUME IInv, uri_done
  PROVE  /\ state = "uri_done" /\ state' = "uri_end" /\ Kept
         /\ r'.is_cgi_ = Decided.r.is_cgi_ /\ r'.cgi_loc_ = Decided.r.cgi_loc_
         /\ \/ return_location' = Decided.loc
            \/ /\ return_location' = return_location_root
               /\ Decided.loc # NULL /\ "cgi" \in flags /\ "notfound_uri" \notin flags
<1>1. /\ state = "uri_done" /\ state' = "uri_end" /\ Kept
      /\ \/ return_location' = Decided.loc
         \/ /\ return_location' = return_location_root
            /\ Decided.loc # NULL /\ "cgi" \in flags /\ "notfound_uri" \notin flags
  <2> HIDE DEF Decided
  <2> QED
    BY DEF uri_done, Kept
<1>2. Decided.r = [f \in Fields |-> Decided.r[f]]
  BY <1>1, DecidedWell
<1>3. r'.is_cgi_ = Decided.r.is_cgi_ /\ r'.cgi_loc_ = Decided.r.cgi_loc_
  <2> HIDE DEF Decided
  <2> QED
    BY <1>2 DEF uri_done, Fields
<1> QED
  BY <1>1, <1>3

\* What the decision comes to, from the flags.
LEMMA DecidedAs ==
  ASSUME IInv, state = "uri_done"
  PROVE  /\ Nowhere => Decided.loc = NULL /\ ~Decided.r.is_cgi_
         /\ ~Nowhere => Decided.loc = return_location
         /\ ~Nowhere /\ CgiByPathInfo => Decided.r.is_cgi_
         /\ ~Nowhere /\ ~CgiByPathInfo => Decided.r = r
<1>1. CASE Nowhere
  BY <1>1 DEF Decided, IInv, Shape, Fields
<1>2. CASE ~Nowhere /\ CgiByPathInfo
  BY <1>2 DEF Decided, IInv, Shape, Fields
<1>3. CASE ~Nowhere /\ ~CgiByPathInfo
  BY <1>3 DEF Decided
<1> QED
  BY <1>1, <1>2, <1>3

LEMMA DoneSettled == IInv /\ Placed /\ Settled /\ uri_done => Settled'
<1> SUFFICES ASSUME IInv, Placed, Settled, uri_done PROVE Settled'
  OBVIOUS
<1>1. /\ state = "uri_done" /\ state' = "uri_end" /\ Kept
      /\ r'.is_cgi_ = Decided.r.is_cgi_ /\ r'.cgi_loc_ = Decided.r.cgi_loc_
      /\ \/ return_location' = Decided.loc
         \/ /\ return_location' = return_location_root
            /\ Decided.loc # NULL /\ "cgi" \in flags /\ "notfound_uri" \notin flags
  BY DoneDoes
<1>2. /\ Nowhere => Decided.loc = NULL /\ ~Decided.r.is_cgi_
      /\ ~Nowhere => Decided.loc = return_location
      /\ ~Nowhere /\ CgiByPathInfo => Decided.r.is_cgi_
      /\ ~Nowhere /\ ~CgiByPathInfo => Decided.r = r
  BY <1>1, DecidedAs
<1> HIDE DEF Decided
<1>3. /\ uri \in Uris /\ conf \in Configs /\ Len(uri) \in Nat /\ it \in 1 .. Len(uri) + 1
      /\ it > Len(uri) /\ PathEnd \in 1 .. Len(uri) + 1 /\ PathEnd \in Nat
      /\ Begins \in 2 .. PathEnd /\ Dotted \in Begins .. PathEnd
      /\ Begins < PathEnd => uri[Begins] # "/"
      /\ \A k \in Begins .. Dotted - 1 : uri[k] \notin {"/", "."}
  BY <1>1, TargetIs, PathEndIs, HeadIs DEF Placed, IInv, TypeOK
<1>4. Walked = PathEnd
  BY <1>3 DEF Walked
<1>5. /\ (Found' <=> Found) /\ Home' = Home /\ Scripts' = Scripts /\ Script' = Script
      /\ (Lost' <=> Lost) /\ uri' = uri /\ conf' = conf /\ method' = method
      /\ \A c : Text(c)' = Text(c)
  BY <1>1, StaticToo DEF Kept
<1>6. Chosen /\ ("cgi_pass" \in flags => "cgi" \in flags)
  BY <1>1 DEF Settled, Walking, IInv, Linked
<1>7. /\ return_location_root = Home
      /\ "notfound_uri" \in flags <=> ~Found
      /\ "cgi_pass" \in flags <=> Home.cgi_pass # <<>>
  BY <1>6 DEF Chosen, AtHome
\* Below an unknown first component there is a component.
<1>8. ~Found => Components # {}
  <2> SUFFICES ASSUME Components = {} PROVE Found
    OBVIOUS
  <2> QED
    BY <1>3, ConfigAssumption DEF Found, Name
<1>9. CASE "cgi" \in flags /\ "cgi_pass" \in flags
  <2>1. PassedOn /\ Home.cgi_pass # <<>>
    BY <1>6, <1>7, <1>9 DEF Chosen
  <2>2. ~Nowhere /\ ~CgiByPathInfo
    BY <1>9, <2>1 DEF PassedOn, Nowhere, CgiByPathInfo
  <2>3. return_location' = Home /\ r'.is_cgi_
    BY <1>1, <1>2, <1>7, <2>1, <2>2 DEF PassedOn
  <2>4. ~Lost
    BY <2>1 DEF Lost
  <2> QED
    BY <1>1, <1>5, <2>1, <2>3, <2>4 DEF Settled, Walking, LocationAsConfigured
<1>10. CASE "cgi" \in flags /\ "cgi_pass" \notin flags
  <2>1. ScriptFound /\ Home.cgi_pass = <<>>
    BY <1>6, <1>7, <1>10 DEF Chosen
  <2>2. PICK c \in Scripts :
              /\ \A d \in Scripts : c[1] <= d[1]
              /\ r.is_cgi_ /\ r.cgi_loc_ = conf.cgi_case[Extension(Text(c))]
              /\ return_location = r.cgi_loc_
              /\ "depth_uri" \in flags <=> SlashIn(Dotted, c[1])
    BY <2>1 DEF ScriptFound
  <2>3. /\ c \in Components /\ c = <<c[1], c[2]>> /\ IsComponent(c[1], c[2])
    BY <1>3, ScriptsAre
  <2> DEFINE Is(d) == \A f \in Scripts : d[1] <= f[1]
             S == CHOOSE d \in Scripts : Is(d)
  <2>4. S \in Scripts /\ Is(S)
    <3>1. Is(c)
      BY <2>2
    <3> HIDE DEF Is
    <3> QED
      BY <3>1
  <2>5. Script = S
    BY DEF Script
  <2> HIDE DEF S
  <2>6. Script = c
    <3>1. S = <<S[1], S[2]>> /\ IsComponent(S[1], S[2])
      BY <1>3, <2>4, ScriptsAre
    <3>2. S[1] \in Nat /\ c[1] \in Nat
      BY <1>3, <2>3, <3>1 DEF IsComponent
    <3>3. S[1] = c[1]
      BY <2>2, <2>4, <3>2
    <3>4. S[2] = c[2]
      BY <1>3, <2>3, <3>1, <3>3, Apart
    <3> QED
      BY <2>3, <2>5, <3>1, <3>3, <3>4
  <2>7. SlashIn(Dotted, c[1]) <=> c # FirstComponent
    <3> DEFINE b == c[1]
    <3>1. PICK e \in Nat : IsComponent(Begins, e) /\ FirstComponent = <<Begins, e>>
      BY <1>3, <2>3, FirstComponentIs
    <3>2. b \in 2 .. PathEnd - 1 /\ uri[b - 1] = "/" /\ uri[b] # "/" /\ Begins < PathEnd
      BY <1>3, <2>3, <3>1 DEF IsComponent
    <3>3. ASSUME c = FirstComponent PROVE ~SlashIn(Dotted, b)
      <4>1. b = Begins
        BY <3>1, <3>3
      <4> SUFFICES ASSUME NEW k \in Dotted .. b, uri[k] = "/" PROVE FALSE
        BY DEF SlashIn
      <4>2. k = b
        BY <1>3, <4>1
      <4> QED
        BY <3>2, <4>2
    <3>4. ASSUME c # FirstComponent PROVE SlashIn(Dotted, b)
      <4>1. b # Begins
        <5> SUFFICES ASSUME b = Begins PROVE FALSE
          OBVIOUS
        <5>1. c[2] = e
          BY <1>3, <2>3, <3>1, Apart
        <5> QED
          BY <2>3, <3>1, <3>4, <5>1
      <4>2. Begins < b
        <5>1. \A k \in 1 .. Begins - 1 : uri[k] = "/"
          BY <1>3, HeadIs
        <5>2. b \notin 1 .. Begins - 1
          BY <3>2, <5>1
        <5> QED
          BY <1>3, <3>2, <4>1, <5>2
      <4>3. b - 1 \notin Begins .. Dotted - 1
        BY <1>3, <3>2
      <4>4. b - 1 \in Dotted .. b
        BY <1>3, <3>2, <4>2, <4>3
      <4> QED
        BY <3>2, <4>4 DEF SlashIn
    <3> QED
      BY <3>3, <3>4
  <2>8. Scripts # {} /\ (Nowhere <=> Lost)
    <3>1. Nowhere <=> c # FirstComponent /\ ~Found
      BY <1>7, <2>2, <2>7 DEF Nowhere
    <3>2. Lost <=> ~Found /\ c # FirstComponent
      BY <2>1, <2>2, <2>6 DEF Lost
    <3> QED
      BY <2>2, <3>1, <3>2
  <2>9. CASE Lost
    <3>1. return_location' = NULL /\ ~r'.is_cgi_
      BY <1>1, <1>2, <2>8, <2>9
    <3> QED
      BY <1>1, <1>5, <2>9, <3>1 DEF Settled, Walking, LocationAsConfigured
  <2>10. CASE ~Lost
    <3>1. Decided.loc = return_location /\ Decided.r = r
      BY <1>2, <1>10, <2>8, <2>10 DEF CgiByPathInfo
    <3>2. r'.is_cgi_ /\ r'.cgi_loc_ = conf.cgi_case[Extension(Text(Script))]
      BY <1>1, <2>2, <2>6, <3>1
    <3>3. return_location' = r'.cgi_loc_ \/ (return_location' = Home /\ Found)
      BY <1>1, <1>7, <2>2, <3>1
    <3> QED
      BY <1>1, <1>5, <2>1, <2>8, <2>10, <3>2, <3>3 DEF Settled, Walking, LocationAsConfigured
  <2> QED
    BY <2>9, <2>10
<1>11. CASE "cgi" \notin flags
  <2>1. NoScriptYet /\ Home.cgi_pass = <<>>
    BY <1>6, <1>7, <1>11 DEF Chosen
  <2>2. /\ return_location = Home /\ ~r.is_cgi_
        /\ \A c \in Scripts : c[2] >= PathEnd
        /\ "depth_uri" \in flags <=> SlashIn(Dotted, PathEnd - 1)
    BY <1>4, <2>1 DEF NoScriptYet
  <2>3. Scripts = {}
    <3> SUFFICES ASSUME NEW c \in Scripts PROVE FALSE
      OBVIOUS
    <3>1. c[1] \in 2 .. PathEnd - 1 /\ c[2] \in c[1] .. PathEnd - 1
      BY <1>3, ScriptsAre DEF IsComponent
    <3>2. c[2] >= PathEnd
      BY <2>2
    <3> QED
      BY <1>3, <3>1, <3>2
  <2>4. Nowhere <=> Lost
    <3>1. CASE Found
      BY <1>7, <3>1 DEF Nowhere, Lost
    <3>2. CASE ~Found
      <4>1. PICK e \in Nat : /\ IsComponent(Begins, e) /\ FirstComponent = <<Begins, e>>
                             /\ Dotted - 1 <= e
        BY <1>3, <1>8, <3>2, FirstComponentIs
      <4>2. e \in Begins .. PathEnd - 1 /\ \A k \in Begins .. e : uri[k] # "/"
        BY <4>1 DEF IsComponent
      <4>3. FirstComponent[2] = e
        BY <4>1
      <4>4. Lost <=> \E k \in e .. PathEnd - 1 : uri[k] = "/"
        <5>1. Len(Path) = PathEnd - 1 /\ \A k \in 1 .. PathEnd - 1 : Path[k] = uri[k]
          BY <1>3, PathIs
        <5>2. \A k \in e .. PathEnd - 1 : k \in 1 .. PathEnd - 1
          BY <1>3, <4>2
        <5>3. Lost <=> \E k \in e .. PathEnd - 1 : Path[k] = "/"
          BY <2>1, <2>3, <3>2, <4>3, <5>1 DEF Lost
        <5> QED
          BY <5>1, <5>2, <5>3
      <4>5. ASSUME NEW k \in e .. PathEnd - 1, uri[k] = "/" PROVE k \in Dotted .. PathEnd - 1
        <5>1. k \notin Begins .. e
          BY <4>2, <4>5
        <5> QED
          BY <1>3, <4>1, <4>2, <5>1
      <4>6. ASSUME NEW k \in Dotted .. PathEnd - 1, uri[k] = "/" PROVE k \in e .. PathEnd - 1
        <5>1. k \notin Begins .. e
          BY <4>2, <4>6
        <5> QED
          BY <1>3, <4>1, <4>2, <5>1
      <4>7. Lost <=> SlashIn(Dotted, PathEnd - 1)
        BY <4>4, <4>5, <4>6 DEF SlashIn
      <4> QED
        BY <1>7, <2>2, <3>2, <4>7 DEF Nowhere
    <3> QED
      BY <3>1, <3>2
  <2>5. CASE Lost
    <3>1. return_location' = NULL /\ ~r'.is_cgi_
      BY <1>1, <1>2, <1>11, <2>4, <2>5
    <3> QED
      BY <1>1, <1>5, <2>5, <3>1 DEF Settled, Walking, LocationAsConfigured
  <2>6. CASE ~Lost
    <3>1. return_location' = Home
      BY <1>1, <1>2, <1>11, <2>2, <2>4, <2>6
    <3>2. r'.is_cgi_ <=> CgiByPathInfo
      BY <1>1, <1>2, <2>2, <2>4, <2>6
    <3>3. CgiByPathInfo <=> /\ Found /\ Home.cgi_path_info # <<>>
                            /\ method \in Home.accepted_methods
      BY <1>7, <1>11, <2>2 DEF CgiByPathInfo
    <3> QED
      BY <1>1, <1>5, <2>1, <2>3, <2>6, <3>1, <3>2, <3>3 DEF Settled, Walking, LocationAsConfigured
  <2> QED
    BY <2>5, <2>6
<1> QED
  BY <1>9, <1>10, <1>11

LEMMA InitSettled == Init => Settled
<1> SUFFICES ASSUME Init PROVE Settled
  OBVIOUS
<1>1. state = "uri_main"
  BY TargetIs DEF Init
<1> QED
  BY <1>1 DEF Settled, Walking, LocationAsConfigured

LEMMA StepSettled == IInv /\ Placed /\ Settled /\ [Next]_vars => Settled'
<1> SUFFICES ASSUME IInv, Placed, Settled, [Next]_vars PROVE Settled'
  OBVIOUS
<1>1. CASE UNCHANGED vars
  <2>1. Kept /\ UNCHANGED <<it, state, flags, return_location, return_location_root, r>>
    BY <1>1 DEF vars, Kept
  <2>2. Walked' = Walked
    <3>1. PathEnd' = PathEnd
      BY <2>1, Static DEF Kept
    <3> QED
      BY <2>1, <3>1 DEF Walked
  <2>3. CASE state \in Walking
    BY <2>1, <2>2, <2>3, SettledStays
  <2>4. CASE state \notin Walking
    <3>1. /\ (Found' <=> Found) /\ Home' = Home /\ Scripts' = Scripts /\ Script' = Script
          /\ (Lost' <=> Lost) /\ conf' = conf /\ method' = method
          /\ \A c : Text(c)' = Text(c)
      BY <2>1, StaticToo DEF Kept
    <3>2. LocationAsConfigured'
      BY <2>1, <3>1 DEF Settled, LocationAsConfigured
    <3> QED
      BY <2>1, <2>4, <3>2 DEF Settled, Walking
  <2> QED
    BY <2>3, <2>4
<1> QED
  BY <1>1, MainSettled, OutsideSettled, DepthSettled, CgiSettled, DoneSettled DEF Next

(* The location that serves a target is the one its first component names,  *)
(* else "/"; a script along the path is served by the CGI location of its   *)
(* extension, a path below an unknown first component by nobody, and a CGI  *)
(* program runs exactly where the configuration says so.                    *)
THEOREM ServedAsConfigured == Spec => []LocationAsConfigured
<1>1. IInv /\ Placed /\ Settled /\ [Next]_vars => Placed' /\ Settled'
  BY StepPlaced, StepSettled
<1>2. Settled => LocationAsConfigured
  BY DEF Settled
<1> QED
  BY InitPlaced, InitSettled, Invariance, <1>1, <1>2, PTL DEF Spec
=============================================================================
