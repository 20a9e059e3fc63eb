-------------------------- MODULE ChunkLineProofs --------------------------
(***************************************************************************)
(* What the two walks of spx_syntax_checker.cpp accept, for every request  *)
(* line, chunk line, limit and width of an integer.  AcceptsTheGrammar is  *)
(* not inductive: Walked says what every state of the switch has seen of   *)
(* the line.  ChunkCounted needs Sized, that a size is only returned for a *)
(* line that is nothing but its digits.                                    *)
(***************************************************************************)
EXTENDS ChunkLine, TLAPS, SequenceTheorems, WellFoundedInduction

Token == STRING \ {"end"}

States ==
    {"start_line__start", "start_line__method", "start_line__sp_before_uri",
     "start_line__uri_start", "start_line__uri", "start_line__http_protocol_version",
     "start_line__almost_done"}

\* All octets of the target that were passed are usual ones.
UsualBefore(i) == \A k \in 4 .. i : line[k] \in usual_
MethodSeen == Len(line) <= MaxLength /\ Len(line) >= 1 /\ line[1] \in SUPPORTED
              /\ req_type = line[1]

Walked ==
    /\ state = "start_line__start" => it = 1 /\ req_type = "REQ_UNDEFINED"
    /\ state = "start_line__method" =>
          it = 1 /\ Len(line) \in 1 .. MaxLength /\ req_type = "REQ_UNDEFINED"
    /\ state = "start_line__sp_before_uri" => it = 2 /\ MethodSeen
    /\ state = "start_line__uri_start" =>
          it = 3 /\ MethodSeen /\ Len(line) >= 2 /\ line[2] = "SP"
    /\ state = "start_line__uri" =>
          it = 4 /\ MethodSeen /\ Len(line) >= 3 /\ line[2] = "SP" /\ line[3] = "/"
    /\ state = "start_line__http_protocol_version" =>
          /\ MethodSeen /\ it \in 5 .. Len(line) + 1
          /\ line[2] = "SP" /\ line[3] = "/" /\ UsualBefore(it - 2) /\ line[it - 1] = "SP"
    /\ state = "start_line__almost_done" =>
          /\ MethodSeen /\ it \in 6 .. Len(line) + 1
          /\ line[2] = "SP" /\ line[3] = "/" /\ UsualBefore(it - 3)
          /\ line[it - 2] = "SP" /\ line[it - 1] = "HTTP/1.1"

ExtensionStates ==
    {"chunked_BWS_before_ext", "chunked_semicolon", "chunked_ext_name", "chunked_equal",
     "chunked_ext_quoted_open", "chunked_ext_value", "chunked_ext_quoted_close",
     "chunked_almost_done"}
CallerStates == {"chunk_returned", "chunk", "too_large", "bad_request"}

\* The line is digits, and their value is what was read.
OnlyASize == /\ line # <<>> /\ \A i \in DOMAIN line : line[i] \in hexdigit_
             /\ chunk_size = Read(line) /\ ~chunk_ext
Sized ==
    /\ state \in {"chunked_start", "chunked_size"} \union ExtensionStates => ret = "none"
    /\ state \in {"chunked_start", "chunked_size"} => it = 1 /\ ~chunk_ext
    /\ state = "chunked_size" => At(1) \in hexdigit_
    /\ state \in CallerStates /\ ret = "spx_ok" => OnlyASize

\* Which lines have been accepted when the walk has returned.
AcceptsTheShape ==
    state = "returned" => /\ ret = "spx_ok" <=> HasTheShape
                          /\ req_type = IF HasTheShape THEN line[1] ELSE "REQ_UNDEFINED"

WalkedInv == /\ state \in States \union {"returned"}
             /\ Walked /\ AcceptsTheShape /\ UriIsTheTarget
SizedInv  == /\ state \in {"chunked_start", "chunked_size"} \union ExtensionStates
                             \union CallerStates
             /\ _body_size \in Nat /\ _body_limit \in Nat
             /\ Sized /\ ChunkCounted

\* One of the two walks is under way.
IInv == line \in Seq(Token) /\ (WalkedInv \/ SizedInv)

-----------------------------------------------------------------------------
(* A loop over the octets of a table stops at the first one outside it, at *)
(* the latest at the end of the line.                                      *)
LEMMA PastStops ==
  ASSUME line \in Seq(Token), NEW i \in 1 .. Len(line) + 1, NEW table
  PROVE  /\ Past(i, table) \in i .. Len(line) + 1
         /\ Past(i, table) > Len(line) \/ line[Past(i, table)] \notin table
         /\ \A k \in i .. Past(i, table) - 1 : line[k] \in table
<1> DEFINE Stops == {j \in i .. Len(line) + 1 : j > Len(line) \/ line[j] \notin table}
           Less == OpToRel(<, Nat)
<1>1. Len(line) \in Nat
  OBVIOUS
<1>2. Stops \subseteq Nat /\ Stops # {}
  BY <1>1
<1>3. PICK j \in Stops : \A k \in Stops : ~(<<k, j>> \in Less)
  <2> HIDE DEF Less, Stops
  <2>1. IsWellFoundedOn(Less, Nat)
    BY NatLessThanWellFounded DEF Less
  <2> QED
    BY <2>1, <1>2, WFMin
<1>4. \A k \in Stops : ~(k < j)
  BY <1>2, <1>3 DEF OpToRel
<1>5. \A k \in i .. j - 1 : line[k] \in table
  BY <1>1, <1>4
<1> DEFINE Is(p) == /\ p > Len(line) \/ line[p] \notin table
                    /\ \A k \in i .. p - 1 : line[k] \in table
<1>6. j \in i .. Len(line) + 1 /\ Is(j)
  BY <1>5
<1>7. Past(i, table) = CHOOSE p \in i .. Len(line) + 1 : Is(p)
  BY DEF Past
<1> HIDE DEF Is
<1>8. Past(i, table) \in i .. Len(line) + 1 /\ Is(Past(i, table))
  BY <1>6, <1>7
<1> QED
  BY <1>8 DEF Is

(* Where the line ends, and only there, At says so.                        *)
LEMMA AtEnds ==
  ASSUME line \in Seq(Token), NEW i \in Nat \ {0}
  PROVE  /\ At(i) = "end" <=> i > Len(line)
         /\ i <= Len(line) => At(i) = line[i]
BY DEF At, Token

-----------------------------------------------------------------------------
(* The walk over a request line: what each state has seen is kept.         *)
LineWalked == line \in Seq(Token) /\ WalkedInv

(* A request line has its first space behind the method.                   *)
LEMMA RejectKeeps ==
  ASSUME LineWalked, Reject, ~HasTheShape
  PROVE  LineWalked'
<1>1. ~HasTheShape'
  BY DEF HasTheShape, Reject
<1> QED
  BY <1>1 DEF LineWalked, WalkedInv, Reject, Walked, AcceptsTheShape, UriIsTheTarget, States

LEMMA StartKeeps == LineWalked /\ start_line__start => LineWalked'
<1> SUFFICES ASSUME LineWalked, start_line__start PROVE LineWalked'
  OBVIOUS
<1>1. it = 1 /\ Len(line) \in Nat
  BY DEF LineWalked, WalkedInv, Walked, start_line__start
<1>2. CASE Len(line) <= MaxLength /\ At(it) \in alpha_upper_case_
  <2>1. Len(line) >= 1
    BY <1>1, <1>2 DEF At, alpha_upper_case_, SUPPORTED
  <2> QED
    BY <1>1, <1>2, <2>1, StartLineAssumption
       DEF LineWalked, WalkedInv, start_line__start, Goto, Walked, AcceptsTheShape, UriIsTheTarget, States
<1>3. CASE Len(line) > MaxLength \/ At(it) \notin alpha_upper_case_
  <2>1. ~HasTheShape
    BY <1>1, <1>3, StartLineAssumption DEF HasTheShape, At, alpha_upper_case_
  <2>2. Reject
    BY <1>1, <1>3, StartLineAssumption DEF start_line__start
  <2> QED
    BY <2>1, <2>2, RejectKeeps
<1> QED
  BY <1>1, <1>2, <1>3, StartLineAssumption

LEMMA MethodKeeps == LineWalked /\ start_line__method => LineWalked'
<1> SUFFICES ASSUME LineWalked, start_line__method PROVE LineWalked'
  OBVIOUS
<1> DEFINE after == Past(it, alpha_upper_case_)
           supported == after = it + 1 /\ At(it) \in SUPPORTED
<1>1. /\ it = 1 /\ Len(line) \in 1 .. MaxLength /\ line \in Seq(Token)
      /\ state = "start_line__method" /\ req_type = "REQ_UNDEFINED"
  BY DEF LineWalked, WalkedInv, Walked, start_line__method
<1>2. /\ after \in 1 .. Len(line) + 1
      /\ after > Len(line) \/ line[after] \notin alpha_upper_case_
      /\ \A k \in 1 .. after - 1 : line[k] \in alpha_upper_case_
  BY <1>1, PastStops
<1>3. \/ supported /\ req_type' = At(it) /\ Goto("start_line__sp_before_uri", after)
      \/ ~supported /\ Reject
  BY DEF start_line__method
<1> HIDE DEF after
<1>4. CASE supported /\ req_type' = At(it) /\ Goto("start_line__sp_before_uri", after)
  BY <1>1, <1>4, StartLineAssumption
     DEF LineWalked, WalkedInv, Goto, Walked, MethodSeen, AcceptsTheShape, UriIsTheTarget, States, At
<1>5. CASE ~supported /\ Reject
  <2>1. ASSUME HasTheShape PROVE FALSE
    <3>1. line[1] \in SUPPORTED /\ line[2] = "SP" /\ Len(line) >= 5
      BY <2>1, StartLineAssumption DEF HasTheShape
    <3>2. line[1] \in alpha_upper_case_ /\ line[2] \notin alpha_upper_case_
      BY <3>1 DEF alpha_upper_case_, SUPPORTED
    <3>3. after = 2
      BY <1>1, <1>2, <3>1, <3>2
    <3> QED
      BY <1>1, <1>5, <3>1, <3>3 DEF At
  <2> QED
    BY <1>5, <2>1, RejectKeeps
<1> QED
  BY <1>3, <1>4, <1>5

LEMMA SpaceKeeps == LineWalked /\ start_line__sp_before_uri => LineWalked'
<1> SUFFICES ASSUME LineWalked, start_line__sp_before_uri PROVE LineWalked'
  OBVIOUS
<1>1. it = 2 /\ Len(line) \in Nat /\ MethodSeen /\ line \in Seq(Token)
  BY DEF LineWalked, WalkedInv, Walked, start_line__sp_before_uri
<1>2. CASE At(it) = "SP" /\ Goto("start_line__uri_start", it + 1) /\ UNCHANGED req_type
  <2>1. Len(line) >= 2 /\ line[2] = "SP"
    BY <1>1, <1>2 DEF At
  <2>2. MethodSeen'
    BY <1>1, <1>2 DEF MethodSeen, Goto
  <2> QED
    BY <1>1, <1>2, <2>1, <2>2
       DEF LineWalked, WalkedInv, Goto, Walked, AcceptsTheShape, UriIsTheTarget, States
<1>3. CASE At(it) # "SP" /\ Reject
  <2>1. ~HasTheShape
    BY <1>1, <1>3, StartLineAssumption DEF HasTheShape, At
  <2> QED
    BY <1>3, <2>1, RejectKeeps
<1> QED
  BY <1>2, <1>3 DEF start_line__sp_before_uri

LEMMA UriStartKeeps == LineWalked /\ start_line__uri_start => LineWalked'
<1> SUFFICES ASSUME LineWalked, start_line__uri_start PROVE LineWalked'
  OBVIOUS
<1>1. /\ it = 3 /\ Len(line) \in Nat /\ MethodSeen /\ line \in Seq(Token)
      /\ Len(line) >= 2 /\ line[2] = "SP"
  BY DEF LineWalked, WalkedInv, Walked, start_line__uri_start
<1>2. CASE At(it) = "/" /\ Goto("start_line__uri", it + 1) /\ UNCHANGED req_type
  <2>1. Len(line) >= 3 /\ line[3] = "/"
    BY <1>1, <1>2 DEF At
  <2>2. MethodSeen'
    BY <1>1, <1>2 DEF MethodSeen, Goto
  <2> QED
    BY <1>1, <1>2, <2>1, <2>2
       DEF LineWalked, WalkedInv, Goto, Walked, AcceptsTheShape, UriIsTheTarget, States
<1>3. CASE At(it) # "/" /\ Reject
  <2>1. ~HasTheShape
    BY <1>1, <1>3, StartLineAssumption DEF HasTheShape, At
  <2> QED
    BY <1>3, <2>1, RejectKeeps
<1> QED
  BY <1>2, <1>3 DEF start_line__uri_start

LEMMA UriKeeps == LineWalked /\ start_line__uri => LineWalked'
<1> SUFFICES ASSUME LineWalked, start_line__uri PROVE LineWalked'
  OBVIOUS
<1> DEFINE i == Past(it, usual_)
<1>1. /\ it = 4 /\ Len(line) \in Nat /\ MethodSeen /\ line \in Seq(Token)
      /\ Len(line) >= 3 /\ line[2] = "SP" /\ line[3] = "/"
  BY DEF LineWalked, WalkedInv, Walked, start_line__uri
<1>2. /\ i \in 4 .. Len(line) + 1
      /\ i > Len(line) \/ line[i] \notin usual_
      /\ \A k \in 4 .. i - 1 : line[k] \in usual_
  BY <1>1, PastStops
<1>3. \/ At(i) = "SP" /\ Goto("start_line__http_protocol_version", i + 1) /\ UNCHANGED req_type
      \/ At(i) # "SP" /\ Reject
  BY DEF start_line__uri
<1> HIDE DEF i
<1>4. CASE At(i) = "SP" /\ Goto("start_line__http_protocol_version", i + 1) /\ UNCHANGED req_type
  <2>1. i <= Len(line) /\ line[i] = "SP"
    BY <1>2, <1>4 DEF At
  <2>2. MethodSeen'
    BY <1>1, <1>4 DEF MethodSeen, Goto
  <2>3. it' = i + 1 /\ it' \in 5 .. Len(line) + 1 /\ it' - 2 = i - 1 /\ it' - 1 = i
    BY <1>1, <1>2, <1>4, <2>1 DEF Goto
  <2>4. UsualBefore(it - 2)'
    BY <1>2, <1>4, <2>3 DEF UsualBefore, Goto
  <2>5. line' = line /\ state' = "start_line__http_protocol_version"
    BY <1>4 DEF Goto
  <2>6. Walked'
    BY <1>1, <2>1, <2>2, <2>3, <2>4, <2>5 DEF Walked
  <2> QED
    BY <1>1, <2>5, <2>6 DEF LineWalked, WalkedInv, AcceptsTheShape, UriIsTheTarget, States
<1>5. CASE At(i) # "SP" /\ Reject
  <2>1. ASSUME HasTheShape PROVE FALSE
    <3>1. /\ Len(line) >= 5 /\ line[Len(line) - 1] = "SP"
          /\ \A k \in 4 .. Len(line) - 2 : line[k] \in usual_
      BY <2>1, StartLineAssumption DEF HasTheShape
    <3>2. line[Len(line) - 1] \notin usual_
      BY <3>1 DEF usual_, digit_alpha_, alpha_upper_case_, SUPPORTED
    <3>3. i = Len(line) - 1
      BY <1>1, <1>2, <3>1, <3>2
    <3> QED
      BY <1>1, <1>5, <3>1, <3>3 DEF At
  <2> QED
    BY <1>5, <2>1, RejectKeeps
<1> QED
  BY <1>3, <1>4, <1>5

LEMMA VersionKeeps == LineWalked /\ start_line__http_protocol_version => LineWalked'
<1> SUFFICES ASSUME LineWalked, start_line__http_protocol_version PROVE LineWalked'
  OBVIOUS
<1>1. /\ it \in 5 .. Len(line) + 1 /\ Len(line) \in Nat /\ MethodSeen /\ line \in Seq(Token)
      /\ line[2] = "SP" /\ line[3] = "/" /\ UsualBefore(it - 2) /\ line[it - 1] = "SP"
  BY DEF LineWalked, WalkedInv, Walked, start_line__http_protocol_version
<1>2. CASE At(it) = "HTTP/1.1" /\ Goto("start_line__almost_done", it + 1) /\ UNCHANGED req_type
  <2>1. it <= Len(line) /\ line[it] = "HTTP/1.1"
    BY <1>1, <1>2 DEF At
  <2>2. MethodSeen' /\ line' = line /\ state' = "start_line__almost_done"
    BY <1>1, <1>2 DEF MethodSeen, Goto
  <2>3. it' = it + 1 /\ it' \in 6 .. Len(line) + 1
        /\ it' - 3 = it - 2 /\ it' - 2 = it - 1 /\ it' - 1 = it
    BY <1>1, <1>2, <2>1 DEF Goto
  <2>4. UsualBefore(it - 3)'
    BY <1>1, <2>2, <2>3 DEF UsualBefore
  <2>5. Walked'
    BY <1>1, <2>1, <2>2, <2>3, <2>4 DEF Walked
  <2> QED
    BY <1>1, <2>2, <2>5 DEF LineWalked, WalkedInv, AcceptsTheShape, UriIsTheTarget, States
<1>3. CASE At(it) # "HTTP/1.1" /\ Reject
  <2>1. ASSUME HasTheShape PROVE FALSE
    <3>1. /\ Len(line) >= 5 /\ line[Len(line)] = "HTTP/1.1"
          /\ \A k \in 4 .. Len(line) - 2 : line[k] \in usual_
      BY <2>1, StartLineAssumption DEF HasTheShape
    <3>2. line[it - 1] \notin usual_
      BY <1>1 DEF usual_, digit_alpha_, alpha_upper_case_, SUPPORTED
    <3>3. it = Len(line)
      BY <1>1, <3>1, <3>2
    <3> QED
      BY <1>1, <1>3, <3>1, <3>3 DEF At
  <2> QED
    BY <1>3, <2>1, RejectKeeps
<1> QED
  BY <1>2, <1>3 DEF start_line__http_protocol_version

(* The first and the last space of a request line are those around its     *)
(* target.                                                                 *)
LEMMA TargetCut ==
  ASSUME line \in Seq(Token), HasTheShape
  PROVE  BetweenSpaces = SubSeq(line, 3, Len(line) - 2)
<1>1. /\ Len(line) \in Nat /\ Len(line) >= 5
      /\ line[1] # "SP" /\ line[2] = "SP" /\ line[3] # "SP" /\ line[Len(line)] # "SP"
      /\ line[Len(line) - 1] = "SP" /\ \A k \in 4 .. Len(line) - 2 : line[k] # "SP"
  BY StartLineAssumption
     DEF HasTheShape, usual_, digit_alpha_, alpha_upper_case_, SUPPORTED
<1>2. Spaces = {2, Len(line) - 1}
  BY <1>1 DEF Spaces
<1>3. (CHOOSE i \in Spaces : \A j \in Spaces : i <= j) = 2
  BY <1>1, <1>2
<1>4. (CHOOSE i \in Spaces : \A j \in Spaces : j <= i) = Len(line) - 1
  BY <1>1, <1>2
<1>5. BetweenSpaces = SubSeq(line, 2 + 1, (Len(line) - 1) - 1)
  BY <1>3, <1>4 DEF BetweenSpaces
<1> QED
  BY <1>1, <1>5

LEMMA ThreeParts ==
  ASSUME NEW S, NEW a \in Seq(S), NEW u \in Seq(S), NEW b \in Seq(S), NEW w \in Seq(S),
         Len(w) = Len(a) + Len(u) + Len(b),
         \A i \in 1 .. Len(a) : w[i] = a[i],
         \A i \in 1 .. Len(u) : w[Len(a) + i] = u[i],
         \A i \in 1 .. Len(b) : w[Len(a) + Len(u) + i] = b[i]
  PROVE  w = a \o u \o b
<1>1. /\ a \o u \in Seq(S) /\ Len(a \o u) = Len(a) + Len(u)
      /\ \A i \in 1 .. Len(a) + Len(u) :
            (a \o u)[i] = IF i <= Len(a) THEN a[i] ELSE u[i - Len(a)]
  BY ConcatProperties
<1> DEFINE front == a \o u
<1> HIDE DEF front
<1>2. /\ front \o b \in Seq(S) /\ Len(front \o b) = Len(front) + Len(b)
      /\ \A i \in 1 .. Len(front) + Len(b) :
            (front \o b)[i] = IF i <= Len(front) THEN front[i] ELSE b[i - Len(front)]
  <2>1. front \in Seq(S)
    BY <1>1 DEF front
  <2> QED
    BY <2>1, ConcatProperties
<1>3. Len(a) \in Nat /\ Len(u) \in Nat /\ Len(b) \in Nat
  OBVIOUS
<1>4. \A i \in 1 .. Len(w) : w[i] = (front \o b)[i]
  <2> TAKE i \in 1 .. Len(w)
  <2>1. CASE i <= Len(a)
    BY <1>1, <1>2, <1>3, <2>1 DEF front
  <2>2. CASE i > Len(a) /\ i <= Len(a) + Len(u)
    <3>1. i - Len(a) \in 1 .. Len(u) /\ Len(a) + (i - Len(a)) = i
      BY <1>3, <2>2
    <3>2. w[i] = u[i - Len(a)]
      BY <3>1
    <3> QED
      BY <1>1, <1>2, <1>3, <2>2, <3>2 DEF front
  <2>3. CASE i > Len(a) + Len(u)
    <3>1. /\ i - (Len(a) + Len(u)) \in 1 .. Len(b)
          /\ Len(a) + Len(u) + (i - (Len(a) + Len(u))) = i
      BY <1>3, <2>3
    <3>2. w[i] = b[i - (Len(a) + Len(u))]
      BY <3>1
    <3> QED
      BY <1>1, <1>2, <1>3, <2>3, <3>2 DEF front
  <2>4. Len(w) \in Nat /\ i \in 1 .. Len(w)
    OBVIOUS
  <2>5. i <= Len(a) \/ (i > Len(a) /\ i <= Len(a) + Len(u)) \/ i > Len(a) + Len(u)
    BY <1>3, <2>4
  <2> QED
    BY <2>1, <2>2, <2>3, <2>5
<1>5. w = front \o b
  BY <1>1, <1>2, <1>4, SeqEqual DEF front
<1> QED
  BY <1>5 DEF front

LEMMA TargetHolds ==
  ASSUME line \in Seq(Token), HasTheShape,
         NEW u \in Seq(Token), Len(u) = Len(line) - 4,
         \A i \in 1 .. Len(line) - 4 : u[i] = line[i + 2]
  PROVE  /\ u # <<>> /\ u[1] = "/"
         /\ \A i \in DOMAIN u : u[i] # "SP"
         /\ line = <<line[1], "SP">> \o u \o <<"SP", "HTTP/1.1">>
<1>1. /\ Len(line) \in Nat /\ Len(line) >= 5
      /\ line[2] = "SP" /\ line[3] = "/" /\ line[Len(line)] = "HTTP/1.1"
      /\ line[Len(line) - 1] = "SP" /\ \A k \in 4 .. Len(line) - 2 : line[k] # "SP"
  <2>1. /\ Len(line) \in Nat /\ Len(line) >= 5
        /\ line[2] = "SP" /\ line[3] = "/" /\ line[Len(line)] = "HTTP/1.1"
        /\ line[Len(line) - 1] = "SP" /\ \A k \in 4 .. Len(line) - 2 : line[k] \in usual_
    BY StartLineAssumption DEF HasTheShape
  <2>2. "SP" \notin usual_
    BY DEF usual_, digit_alpha_, alpha_upper_case_, SUPPORTED
  <2> QED
    BY <2>1, <2>2
<1>2. \A k \in 3 .. Len(line) - 2 : line[k] \in Token /\ line[k] # "SP"
  BY <1>1
<1>3. /\ u \in Seq(Token) /\ Len(u) = Len(line) - 4
      /\ \A i \in 1 .. Len(line) - 4 : u[i] = line[i + 2]
  OBVIOUS
<1> DEFINE a == <<line[1], "SP">>
           b == <<"SP", "HTTP/1.1">>
<1>4. a \in Seq(Token) /\ Len(a) = 2 /\ a[1] = line[1] /\ a[2] = "SP"
  BY <1>1 DEF Token
<1>5. b \in Seq(Token) /\ Len(b) = 2 /\ b[1] = "SP" /\ b[2] = "HTTP/1.1"
  <2>1. line[Len(line) - 1] \in Token /\ line[Len(line)] \in Token
    BY <1>1
  <2> QED
    BY <1>1, <2>1
<1> HIDE DEF a, b
<1>6. Len(line) = Len(a) + Len(u) + Len(b)
  BY <1>1, <1>3, <1>4, <1>5
<1>7. \A i \in 1 .. Len(a) : line[i] = a[i]
  BY <1>1, <1>4
<1>8. \A i \in 1 .. Len(u) : line[Len(a) + i] = u[i]
  <2> TAKE i \in 1 .. Len(u)
  <2>1. i \in 1 .. Len(line) - 4 /\ Len(a) + i = i + 2
    BY <1>1, <1>3, <1>4
  <2> QED
    BY <1>3, <2>1
<1>9. \A i \in 1 .. Len(b) : line[Len(a) + Len(u) + i] = b[i]
  <2> TAKE i \in 1 .. Len(b)
  <2>1. Len(a) + Len(u) + i = Len(line) - 2 + i
    BY <1>1, <1>3, <1>4, <1>5
  <2> QED
    BY <1>1, <1>5, <2>1
<1>10. line = a \o u \o b
  <2>1. a \in Seq(Token) /\ b \in Seq(Token) /\ u \in Seq(Token) /\ line \in Seq(Token)
    BY <1>4, <1>5
  <2> QED
    BY <1>6, <1>7, <1>8, <1>9, <2>1, ThreeParts, Zenon
<1>11. u # <<>> /\ u[1] = "/" /\ \A i \in DOMAIN u : u[i] # "SP"
  <2>1. DOMAIN u = 1 .. Len(line) - 4 /\ 1 \in 1 .. Len(line) - 4
    BY <1>1, <1>3
  <2>2. \A i \in 1 .. Len(line) - 4 : u[i] # "SP"
    BY <1>1, <1>2, <1>3
  <2>3. u[1] = line[1 + 2]
    BY <1>3, <2>1
  <2>4. u # <<>>
    BY <1>1, <1>3
  <2> QED
    BY <1>1, <2>1, <2>2, <2>3, <2>4
<1> QED
  BY <1>10, <1>11 DEF a, b

LEMMA DoneKeeps == LineWalked /\ start_line__almost_done => LineWalked'
<1> SUFFICES ASSUME LineWalked, start_line__almost_done PROVE LineWalked'
  OBVIOUS
<1>1. /\ it \in 6 .. Len(line) + 1 /\ Len(line) \in Nat /\ MethodSeen /\ line \in Seq(Token)
      /\ line[2] = "SP" /\ line[3] = "/" /\ UsualBefore(it - 3)
      /\ line[it - 2] = "SP" /\ line[it - 1] = "HTTP/1.1"
  BY DEF LineWalked, WalkedInv, Walked, start_line__almost_done
<1>2. ASSUME At(it) = "end", state' = "returned", ret' = "spx_ok", _uri' = BetweenSpaces,
             UNCHANGED <<line, it, req_type>>
      PROVE  LineWalked'
  <2>1. it = Len(line) + 1
    BY <1>1, <1>2, AtEnds
  <2>2. HasTheShape
    BY <1>1, <2>1, StartLineAssumption DEF HasTheShape, MethodSeen, UsualBefore
  <2>3. _uri' = SubSeq(line, 3, Len(line) - 2)
    BY <1>1, <1>2, <2>2, TargetCut
  <2>4. /\ _uri' # <<>> /\ _uri'[1] = "/"
        /\ \A i \in DOMAIN _uri' : _uri'[i] # "SP"
        /\ line = <<line[1], "SP">> \o _uri' \o <<"SP", "HTTP/1.1">>
    <3>1. Len(line) \in Nat /\ Len(line) >= 5
      BY <1>1, <2>2, StartLineAssumption DEF HasTheShape
    <3>2. \A k \in 3 .. Len(line) - 2 : line[k] \in Token
      BY <1>1, <3>1
    <3>3. /\ _uri' \in Seq(Token) /\ Len(_uri') = Len(line) - 4
          /\ \A i \in 1 .. Len(line) - 4 : _uri'[i] = line[i + 2]
      BY <2>3, <3>1, <3>2, SubSeqProperties
    <3> QED
      BY <1>1, <2>2, <3>3, TargetHolds
  <2>5. UriIsTheTarget'
    BY <1>1, <1>2, <2>4 DEF UriIsTheTarget, MethodSeen
  <2>6. HasTheShape'
    BY <1>2, <2>2 DEF HasTheShape
  <2>7. AcceptsTheShape'
    BY <1>1, <1>2, <2>6 DEF AcceptsTheShape, MethodSeen
  <2> QED
    BY <1>1, <1>2, <2>5, <2>7 DEF LineWalked, WalkedInv, Walked, States
<1>3. CASE At(it) # "end" /\ Reject
  <2>1. ASSUME HasTheShape PROVE FALSE
    <3>1. it <= Len(line)
      BY <1>1, <1>3, AtEnds
    <3>2. line[it - 2] \notin usual_ /\ line[it - 1] # "SP"
      BY <1>1 DEF usual_, digit_alpha_, alpha_upper_case_, SUPPORTED
    <3>3. /\ \A k \in 4 .. Len(line) - 2 : line[k] \in usual_
      BY <2>1 DEF HasTheShape
    <3> QED
      BY <1>1, <3>1, <3>2, <3>3
  <2> QED
    BY <1>3, <2>1, RejectKeeps
<1> QED
  BY <1>2, <1>3 DEF start_line__almost_done

LEMMA NextKeeps == LineWalked /\ Next => LineWalked'
BY StartKeeps, MethodKeeps, SpaceKeeps, UriStartKeeps, UriKeeps, VersionKeeps, DoneKeeps DEF Next

-----------------------------------------------------------------------------
(* The value of a string of digits.  The recursive function Value is the    *)
(* CHOOSE of one that satisfies its equation: there is one of every length. *)
LEMMA NatCounts ==
  ASSUME NEW n \in Nat, NEW T, 0 \in T, \A k \in 0 .. n - 1 : k \in T => k + 1 \in T
  PROVE  \A k \in 0 .. n : k \in T
<1> DEFINE Rest == {k \in 0 .. n : k \notin T}
           Less == OpToRel(<, Nat)
<1> SUFFICES ASSUME Rest # {} PROVE FALSE
  OBVIOUS
<1>0. Rest \subseteq Nat
  OBVIOUS
<1>1. PICK m \in Rest : \A k \in Rest : ~(<<k, m>> \in Less)
  <2> HIDE DEF Less, Rest
  <2>1. IsWellFoundedOn(Less, Nat)
    BY NatLessThanWellFounded DEF Less
  <2> QED
    BY <1>0, <2>1, WFMin
<1>2. m \in Nat /\ \A k \in Rest : ~(k < m)
  <2> HIDE DEF Rest
  <2> QED
    BY <1>0, <1>1 DEF OpToRel
<1>3. m \in 0 .. n /\ m \notin T
  OBVIOUS
<1>4. m # 0 /\ m - 1 \in 0 .. n - 1
  BY <1>3
<1>5. m - 1 \in T
  BY <1>2, <1>4
<1>6. (m - 1) + 1 \in T
  BY <1>4, <1>5
<1> QED
  BY <1>3, <1>6

LEMMA ValueIsNat ==
  ASSUME NEW digits \in Seq(hexdigit_)
  PROVE  Value(digits) \in Nat
<1> DEFINE n == Len(digits)
           Is(v) == v = [k \in 0 .. n |-> IF k = 0 THEN 0
                                          ELSE Base * v[k - 1] + Digits[digits[k]]]
           Equations(v, m) == /\ v \in [0 .. m -> Nat] /\ v[0] = 0
                              /\ \A k \in 1 .. m : v[k] = Base * v[k - 1] + Digits[digits[k]]
           T == {m \in 0 .. n : \E v : Equations(v, m)}
<1>1. n \in Nat
  OBVIOUS
<1>2. \A k \in 1 .. n : Digits[digits[k]] \in Nat
  BY <1>1, ChunkLineAssumption DEF hexdigit_
<1>3. Base \in Nat
  BY ChunkLineAssumption
<1> HIDE DEF n
<1>4. 0 \in T
  <2>1. Equations([k \in 0 .. 0 |-> 0], 0)
    OBVIOUS
  <2> HIDE DEF Equations
  <2> QED
    BY <1>1, <2>1
<1>5. ASSUME NEW m \in 0 .. n - 1, m \in T PROVE m + 1 \in T
  <2>1. PICK v : Equations(v, m)
    BY <1>5
  <2> DEFINE w == [k \in 0 .. m + 1 |-> IF k <= m THEN v[k]
                                        ELSE Base * v[m] + Digits[digits[m + 1]]]
  <2>2. m + 1 \in 1 .. n /\ m \in Nat
    BY <1>1
  <2>3. Base * v[m] + Digits[digits[m + 1]] \in Nat
    <3>1. v[m] \in Nat
      BY <2>1, <2>2
    <3>2. Base * v[m] \in Nat
      BY <1>3, <3>1
    <3> QED
      BY <1>2, <2>2, <3>2
  <2>4. w \in [0 .. m + 1 -> Nat]
    BY <2>1, <2>2, <2>3
  <2>5. \A k \in 1 .. m + 1 : w[k] = Base * w[k - 1] + Digits[digits[k]]
    BY <2>1, <2>2
  <2>6. w[0] = 0
    BY <2>1, <2>2
  <2>7. Equations(w, m + 1)
    BY <2>4, <2>5, <2>6
  <2> HIDE DEF Equations
  <2> QED
    BY <1>1, <2>2, <2>7
<1>6. n \in T
  <2> HIDE DEF T
  <2>1. \A m \in 0 .. n : m \in T
    BY <1>1, <1>4, <1>5, NatCounts
  <2> QED
    BY <1>1, <2>1
<1>7. PICK g : Equations(g, n)
  BY <1>6
<1>8. Is(g)
  BY <1>1, <1>7
<1> DEFINE v == CHOOSE v : Is(v)
<1>9. Is(v)
  <2> HIDE DEF Is
  <2> QED
    BY <1>8
<1>10. Value(digits) = v[n]
  BY DEF Value, n
<1> DEFINE U == {m \in 0 .. n : v[m] \in Nat}
<1> HIDE DEF v
<1>11. 0 \in U
  BY <1>1, <1>9
<1>12. ASSUME NEW m \in 0 .. n - 1, m \in U PROVE m + 1 \in U
  <2>1. m + 1 \in 1 .. n /\ v[m] \in Nat /\ (m + 1) - 1 = m
    BY <1>1, <1>12
  <2>2. v[m + 1] = Base * v[m] + Digits[digits[m + 1]]
    BY <1>1, <1>9, <2>1
  <2>3. v[m + 1] \in Nat
    BY <1>2, <1>3, <2>1, <2>2
  <2> QED
    BY <1>1, <2>1, <2>3
<1>13. n \in U
  <2> HIDE DEF U
  <2>1. \A m \in 0 .. n : m \in U
    BY <1>1, <1>11, <1>12, NatCounts
  <2> QED
    BY <1>1, <2>1
<1> QED
  BY <1>10, <1>13

-----------------------------------------------------------------------------
(* The walk over a chunk line.  Only chunked_size returns spx_ok: from any  *)
(* other state the walk goes on among the extensions or ends in an error.   *)
LEMMA ExtensionOrError ==
  ASSUME line \in Seq(Token), SizedInv, state \in ExtensionStates, Walk
  PROVE  /\ UNCHANGED <<line, _body_limit, _body_size>>
         /\ \/ state' \in ExtensionStates /\ ret' = ret
            \/ state' = "chunk_returned" /\ ret' = "spx_error"
BY DEF Walk, ExtensionStates, chunked_start, chunked_size, chunked_BWS_before_ext,
       chunked_semicolon, chunked_ext_name, chunked_equal, chunked_ext_quoted_open,
       chunked_ext_value, AfterValue, chunked_ext_quoted_close, chunked_almost_done,
       To, Goto, ChunkError

LEMMA ExtensionKeeps ==
  ASSUME line \in Seq(Token), SizedInv, state \in ExtensionStates, Walk
  PROVE  line' \in Seq(Token) /\ SizedInv'
<1>1. ret = "none"
  BY DEF SizedInv, Sized
<1> QED
  BY <1>1, ExtensionOrError DEF SizedInv, Sized, ChunkCounted, ExtensionStates, CallerStates

LEMMA ChunkErrorKeeps ==
  ASSUME line \in Seq(Token), SizedInv, ChunkError
  PROVE  line' \in Seq(Token) /\ SizedInv'
BY DEF SizedInv, Sized, ChunkError, ChunkCounted, ExtensionStates, CallerStates

LEMMA ChunkStartKeeps ==
  ASSUME line \in Seq(Token), SizedInv, chunked_start
  PROVE  line' \in Seq(Token) /\ SizedInv'
<1>1. state = "chunked_start" /\ it = 1 /\ ret = "none" /\ ~chunk_ext
  BY DEF SizedInv, Sized, chunked_start
<1>2. CASE At(it) \in hexdigit_ /\ To("chunked_size", it) /\ UNCHANGED <<chunk_size, chunk_ext>>
  <2>1. At(1) \in hexdigit_ /\ (At(1))' = At(1) /\ hexdigit_' = hexdigit_
    BY <1>1, <1>2 DEF At, To, Goto, hexdigit_
  <2> QED
    BY <1>1, <1>2, <2>1
       DEF SizedInv, Sized, To, Goto, ChunkCounted, ExtensionStates, CallerStates
<1>3. CASE At(it) \notin hexdigit_ /\ ChunkError
  BY <1>3, ChunkErrorKeeps
<1> QED
  BY <1>2, <1>3 DEF chunked_start

(* The digits run from the start of the line to where the size ends.        *)
LEMMA ChunkSizeKeeps ==
  ASSUME line \in Seq(Token), SizedInv, chunked_size
  PROVE  line' \in Seq(Token) /\ SizedInv'
<1> DEFINE after == Past(it, hexdigit_)
<1>1. /\ state = "chunked_size" /\ it = 1 /\ ret = "none" /\ ~chunk_ext
      /\ At(1) \in hexdigit_ /\ _body_size \in Nat
  BY DEF SizedInv, Sized, chunked_size
<1>2. /\ after \in 1 .. Len(line) + 1
      /\ \A k \in 1 .. after - 1 : line[k] \in hexdigit_
  BY <1>1, PastStops
<1>3. \/ /\ At(after) \in {"end", "semicolon"} \union ows_
         /\ chunk_size' = Read(SubSeq(line, it, after - 1))
         /\ \/ At(after) = "end" /\ state' = "chunk_returned" /\ ret' = "spx_ok"
            \/ state' = "chunked_semicolon" /\ ret' = ret
            \/ state' = "chunked_BWS_before_ext" /\ ret' = ret
         /\ UNCHANGED <<line, chunk_ext, _body_limit, _body_size>>
      \/ ChunkError
  BY DEF chunked_size
<1> HIDE DEF after
<1>4. CASE /\ chunk_size' = Read(SubSeq(line, it, after - 1))
           /\ At(after) = "end" /\ state' = "chunk_returned" /\ ret' = "spx_ok"
           /\ UNCHANGED <<line, chunk_ext, _body_limit, _body_size>>
  <2>1. after = Len(line) + 1
    BY <1>2, <1>4, AtEnds
  <2>2. SubSeq(line, it, after - 1) = line
    BY <1>1, <2>1
  <2>3. line # <<>>
    BY <1>1, ChunkLineAssumption DEF At, hexdigit_
  <2>4. \A i \in DOMAIN line : line[i] \in hexdigit_
    BY <1>2, <2>1
  <2>5. OnlyASize'
    BY <1>1, <1>4, <2>2, <2>3, <2>4 DEF OnlyASize, hexdigit_
  <2> QED
    BY <1>1, <1>4, <2>5 DEF SizedInv, Sized, ChunkCounted, ExtensionStates, CallerStates
<1>5. CASE /\ state' \in {"chunked_semicolon", "chunked_BWS_before_ext"} /\ ret' = ret
           /\ UNCHANGED <<line, chunk_ext, _body_limit, _body_size>>
  BY <1>1, <1>5 DEF SizedInv, Sized, ChunkCounted, ExtensionStates, CallerStates
<1> QED
  BY <1>3, <1>4, <1>5, ChunkErrorKeeps

(* A size two below the width of an integer was read in full, and two more  *)
(* fit; a size within a limit two below the width is one.                   *)
LEMMA CallerKeeps ==
  ASSUME line \in Seq(Token), SizedInv, Caller
  PROVE  line' \in Seq(Token) /\ SizedInv'
<1>1. /\ state = "chunk_returned" /\ _body_size \in Nat /\ _body_limit \in Nat
      /\ ret = "spx_ok" => OnlyASize
      /\ UNCHANGED <<line, it, ret, chunk_size, chunk_ext, skipping, _body_limit>>
  BY DEF SizedInv, Sized, Caller, CallerStates
<1>2. OnlyASize => OnlyASize'
  BY <1>1 DEF OnlyASize, Read, Value, Least, hexdigit_
<1>3. OnlyASize => Value(line) \in Nat /\ chunk_size \in Nat
  <2> SUFFICES ASSUME OnlyASize PROVE Value(line) \in Nat /\ chunk_size \in Nat
    OBVIOUS
  <2>1. line \in Seq(hexdigit_)
    BY DEF OnlyASize
  <2>2. Value(line) \in Nat
    BY <2>1, ValueIsNat
  <2> QED
    BY <2>2, ChunkLineAssumption DEF OnlyASize, Read, Least
<1>4. CASE /\ ret = "spx_ok" /\ Within(chunk_size) /\ state' = "chunk"
           /\ _body_size' = BodySizeWith(chunk_size)
           /\ _chnkd_size' = (chunk_size + 2) % Modulus
  <2>1. OnlyASize' /\ Value(line) \in Nat /\ chunk_size \in Nat
    BY <1>1, <1>2, <1>3, <1>4
  <2>2. ~skipping => _body_size' <= _body_limit
    BY <1>4 DEF Within, BodySizeWith
  <2>6. chunk_size = Read(line)
    BY <1>1, <1>4 DEF OnlyASize
  <2>7. ~skipping /\ _body_limit + 2 < Modulus => Value(line) + 2 < Modulus
    <3> SUFFICES ASSUME ~skipping, _body_limit + 2 < Modulus PROVE Value(line) + 2 < Modulus
      OBVIOUS
    <3>1. chunk_size + 2 < Modulus
      BY <1>1, <1>4, <2>1, ChunkLineAssumption DEF Within, BodySizeWith
    <3> QED
      BY <2>1, <2>6, <3>1, ChunkLineAssumption DEF Read, Least
  <2>8. Value(line) + 2 < Modulus => _chnkd_size' = Value(line) + 2
    <3> SUFFICES ASSUME Value(line) + 2 < Modulus PROVE _chnkd_size' = Value(line) + 2
      OBVIOUS
    <3>1. chunk_size = Value(line)
      BY <2>1, <2>6, ChunkLineAssumption DEF Read, Least
    <3>2. (chunk_size + 2) % Modulus = chunk_size + 2
      BY <2>1, <3>1, ChunkLineAssumption
    <3> QED
      BY <1>4, <3>1, <3>2
  <2>3. Value(line)' = Value(line)
    BY <1>1 DEF Value
  <2>4. ChunkCounted'
    BY <1>1, <1>4, <2>1, <2>2, <2>3, <2>7, <2>8 DEF ChunkCounted, CountedInFull, OnlyASize
  <2>5. _body_size' \in Nat
    BY <1>1, <1>4, <2>1 DEF BodySizeWith
  <2> QED
    BY <1>1, <1>4, <2>1, <2>4, <2>5 DEF SizedInv, Sized, ExtensionStates, CallerStates
<1>5. CASE /\ ret = "spx_ok" /\ state' = "too_large"
           /\ _body_size' = BodySizeWith(chunk_size)
  BY <1>1, <1>2, <1>3, <1>5
     DEF SizedInv, Sized, ChunkCounted, BodySizeWith, ExtensionStates, CallerStates
<1>6. CASE ret = "spx_error" /\ state' = "bad_request" /\ UNCHANGED _body_size
  BY <1>1, <1>6 DEF SizedInv, Sized, ChunkCounted, ExtensionStates, CallerStates
<1> QED
  BY <1>4, <1>5, <1>6 DEF Caller

-----------------------------------------------------------------------------
LEMMA InitIInv == ChunkInit => IInv
<1>1. Init => LineWalked
  BY StartLineAssumption
     DEF Init, LineWalked, WalkedInv, Walked, AcceptsTheShape, UriIsTheTarget, States, Token
<1>2. ASSUME ChunkInit, ~Init
      PROVE  line \in Seq(Token) /\ SizedInv
  BY <1>2, ChunkLineAssumption
     DEF ChunkInit, SizedInv, Sized, ChunkCounted, ExtensionStates, CallerStates, Token
<1> QED
  BY <1>1, <1>2 DEF IInv, LineWalked

LEMMA StepIInv == IInv /\ [ChunkNext]_allVars => IInv'
<1> SUFFICES ASSUME IInv, [ChunkNext]_allVars PROVE IInv'
  OBVIOUS
<1>1. CASE Next
  <2>1. state \in States
    BY <1>1 DEF Next, States, start_line__start, start_line__method,
       start_line__sp_before_uri, start_line__uri_start, start_line__uri,
       start_line__http_protocol_version, start_line__almost_done
  <2>2. LineWalked
    BY <2>1 DEF IInv, LineWalked, SizedInv, States, ExtensionStates, CallerStates
  <2> QED
    BY <1>1, <2>2, NextKeeps DEF IInv, LineWalked
<1>2. CASE Walk
  <2>1. state \in {"chunked_start", "chunked_size"} \union ExtensionStates
    BY <1>2 DEF Walk, ExtensionStates, chunked_start, chunked_size, chunked_BWS_before_ext,
       chunked_semicolon, chunked_ext_name, chunked_equal, chunked_ext_quoted_open,
       chunked_ext_value, chunked_ext_quoted_close, chunked_almost_done
  <2>2. line \in Seq(Token) /\ SizedInv
    BY <2>1 DEF IInv, WalkedInv, States, ExtensionStates
  <2>3. CASE state \in ExtensionStates
    BY <1>2, <2>2, <2>3, ExtensionKeeps DEF IInv
  <2>4. CASE state \in {"chunked_start", "chunked_size"}
    <3>1. chunked_start \/ chunked_size
      BY <1>2, <2>4 DEF Walk, chunked_BWS_before_ext,
         chunked_semicolon, chunked_ext_name, chunked_equal, chunked_ext_quoted_open,
         chunked_ext_value, chunked_ext_quoted_close, chunked_almost_done
    <3> QED
      BY <2>2, <3>1, ChunkStartKeeps, ChunkSizeKeeps DEF IInv
  <2> QED
    BY <2>1, <2>3, <2>4
<1>3. CASE Caller
  <2>1. line \in Seq(Token) /\ SizedInv
    BY <1>3 DEF IInv, WalkedInv, States, Caller
  <2> QED
    BY <1>3, <2>1, CallerKeeps DEF IInv
<1>4. CASE UNCHANGED allVars
  <2>1. UNCHANGED <<line, it, state, ret, req_type, _uri, chunk_size, chunk_ext, skipping,
                    _body_limit, _body_size, _chnkd_size>>
    BY <1>4 DEF allVars, vars, chunkVars
  <2>2. HasTheShape' = HasTheShape /\ MethodSeen' = MethodSeen /\ At(1)' = At(1)
    BY <2>1 DEF HasTheShape, MethodSeen, At
  <2>3. WalkedInv => WalkedInv'
    BY <2>1, <2>2
       DEF WalkedInv, Walked, AcceptsTheShape, UriIsTheTarget, UsualBefore, States
  <2>4. Value(line)' = Value(line)
    BY <2>1 DEF Value
  <2>5. OnlyASize => OnlyASize'
    BY <2>1, <2>4 DEF OnlyASize, Read, Least, hexdigit_
  <2>6. SizedInv => SizedInv'
    BY <2>1, <2>2, <2>4, <2>5 DEF SizedInv, Sized, ChunkCounted, CountedInFull, hexdigit_
  <2> QED
    BY <2>1, <2>3, <2>6 DEF IInv
<1> QED
  BY <1>1, <1>2, <1>3, <1>4 DEF ChunkNext

LEMMA Invariance == ChunkSpec => []IInv
BY InitIInv, StepIInv, PTL DEF ChunkSpec

(* Every line of the grammar is accepted with the method it names, and       *)
(* nothing else but for its percent encoding, however long the line is.     *)
THEOREM LinesAccepted == ChunkSpec => []AcceptsTheGrammar
<1>1. IInv => AcceptsTheGrammar
  BY DEF IInv, WalkedInv, SizedInv, AcceptsTheShape, AcceptsTheGrammar, IsRequestLine, ExtensionStates, CallerStates
<1> QED
  BY <1>1, Invariance, PTL

(* The target cut out of an accepted line is what stands between its method *)
(* and its version.                                                         *)
THEOREM TargetCutOut == ChunkSpec => []UriIsTheTarget
<1>1. IInv => UriIsTheTarget
  BY DEF IInv, WalkedInv, SizedInv, UriIsTheTarget, ExtensionStates, CallerStates
<1> QED
  BY <1>1, Invariance, PTL

(* A chunk is begun for a line that is a size only and fits the limit, if    *)
(* there is one; a size that is two below the width of an integer is counted *)
(* in full, and so is every size under a limit two below it.                 *)
THEOREM ChunksCounted == ChunkSpec => []ChunkCounted
<1>1. IInv => ChunkCounted
  BY DEF IInv, WalkedInv, SizedInv, ChunkCounted, States
<1> QED
  BY <1>1, Invariance, PTL
=============================================================================
