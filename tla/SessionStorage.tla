--------------------------- MODULE SessionStorage ---------------------------
(***************************************************************************)
(* class SessionStorage, its cleaner, Client::set_cookie_ and the responses *)
(* that carry its Set-Cookie.  Each client is a browser on a connection of  *)
(* its own: it keeps the cookie of the last response and sends it back.     *)
(* Time passes in seconds, the resolution of std::time.                    *)
(***************************************************************************)
EXTENDS Integers, Functions

CONSTANTS
  Clients,      \* connections
  Ids,          \* session ids
  NoId,
  AgeTime,      \* AGE_TIME_INT, and the Max-Age of every cookie
  CleanerTime,  \* EXPIRED_CLEANER_TIME
  MaxTime, MaxCount     \* bounds of the model

ASSUME SessionAssumption ==
  /\ {AgeTime, CleanerTime, MaxTime, MaxCount} \subseteq Nat
  /\ NoId \notin Ids /\ Ids \cap {"none", "empty", "other"} = {}

VARIABLES
  now,          \* std::time(NULL)
  timer,        \* seconds since the timer last fired
  storage,      \* storage_: [live ids -> session]
  session_id,   \* per connection: _req.session_id, what Set-Cookie says
  jar,          \* per client: the cookie it was given last
  ordinary      \* history: no live session's id was made twice

vars == <<now, timer, storage, session_id, jar, ordinary>>

Session  == [count : 0 .. MaxCount, valid : Nat]

\* A Set-Cookie names a session; `visited' is history: when set_cookie_ wrote it.
Cookie   == [id : Ids \cup {NoId}, visited : Nat]
NoCookie == [id |-> NoId, visited |-> 0]

-----------------------------------------------------------------------------
(* The storage.                                                            *)

\* Made from the microseconds of the clock and two bits of the descriptor: two
\* requests may be given the same id.
generate_session_id == Ids

Newborn == [count |-> 0, valid |-> now + AgeTime]

AddOver(id) ==      \* mutant: storage_[id] = Session(0)
  storage' = [i \in DOMAIN storage \cup {id} |-> IF i = id THEN Newborn ELSE storage[i]]

\* map::insert leaves the session of a key that exists as it is.
add_new_session(id) ==
  storage' = [i \in DOMAIN storage \cup {id} |-> IF i \in DOMAIN storage THEN storage[i] ELSE Newborn]

VisitedOnly(s)  == [s EXCEPT !.count = @ + 1]                 \* mutant: no refresh_time()
Visited(s)      == [s EXCEPT !.count = @ + 1, !.valid = now + AgeTime]

ExpiredTwice(s) == s.valid + AgeTime < now        \* mutant: valid_time_ taken for the last visit
Expired(s)      == s.valid < now

session_cleaner == storage' = Restrict(storage, {id \in DOMAIN storage : ~Expired(storage[id])})

-----------------------------------------------------------------------------
(* Requests and responses.                                                 *)

Names(c, id) == session_id' = [session_id EXCEPT ![c] = [id |-> id, visited |-> now]]

NewSession(c) == \E id \in generate_session_id : add_new_session(id) /\ Names(c, id)

KnownSession(c, id) ==
  /\ storage[id].count < MaxCount
  /\ Names(c, id)
  /\ storage' = [storage EXCEPT ![id] = Visited(@)]

\* The Cookie header: "none" if there is none, "empty" if it has no value,
\* "other" if it has no sessionID, and otherwise the sessionID.
set_cookie_(c, cookie) ==
  \/ cookie = "empty" /\ UNCHANGED <<storage, session_id>>
  \/ cookie \notin {"empty"} \cup DOMAIN storage /\ NewSession(c)
  \/ cookie \in DOMAIN storage /\ KnownSession(c, cookie)

\* A request whose line and Host are accepted.
Request(c, cookie) ==
  /\ set_cookie_(c, cookie)
  /\ ordinary' = /\ ordinary
                 /\ cookie \in {"empty"} \cup DOMAIN storage \/ session_id'[c].id \notin DOMAIN storage
  /\ UNCHANGED <<now, timer, jar>>

\* A response with Set-Cookie, with its Max-Age from now on: to the request that
\* was accepted last, at once or later (a CGI program, an upload), or a configured
\* error page for one that never came to set_cookie_, its line or its Host being
\* wrong.  A generated error page and a redirect carry none.
Respond(c) ==
  /\ session_id[c] # NoCookie
  /\ jar' = [jar EXCEPT ![c] = session_id[c]]
  /\ UNCHANGED <<now, timer, storage, session_id, ordinary>>

\* A client sends the cookie it holds; it may send none, or one that it held
\* long ago or had from another client.
Cookies == {"none", "empty", "other"} \cup Ids

\* ReqField::clear_ leaves session_id alone: only a new connection has none.
Reconnect(c) ==
  /\ session_id' = [session_id EXCEPT ![c] = NoCookie]
  /\ UNCHANGED <<now, timer, storage, jar, ordinary>>

-----------------------------------------------------------------------------
(* Time.  The event loop handles the timer within the second it fires.     *)

TickOneShot ==                                     \* mutant: the timer is EV_ONESHOT
  /\ now < MaxTime
  /\ now' = now + 1 /\ timer' = timer + 1
  /\ UNCHANGED <<storage, session_id, jar, ordinary>>
Tick ==
  /\ now < MaxTime /\ timer < CleanerTime
  /\ now' = now + 1 /\ timer' = timer + 1
  /\ UNCHANGED <<storage, session_id, jar, ordinary>>

session_timer_event_handler ==
  /\ timer = CleanerTime /\ timer' = 0
  /\ session_cleaner
  /\ UNCHANGED <<now, session_id, jar, ordinary>>

Init ==
  /\ now = 0 /\ timer = 0 /\ storage = <<>>
  /\ session_id = [c \in Clients |-> NoCookie] /\ jar = [c \in Clients |-> NoCookie]
  /\ ordinary = TRUE

Next ==
  \/ \E c \in Clients : \/ Reconnect(c) \/ Respond(c)
                       \/ \E cookie \in Cookies : Request(c, cookie)
  \/ Tick \/ session_timer_event_handler

Spec == Init /\ [][Next]_vars

-----------------------------------------------------------------------------

TypeOK ==
  /\ now \in Nat /\ timer \in 0 .. CleanerTime
  /\ DOMAIN storage \subseteq Ids /\ storage \in [DOMAIN storage -> Session]
  /\ session_id \in [Clients -> Cookie] /\ jar \in [Clients -> Cookie]
  /\ ordinary \in BOOLEAN

\* A browser is recognised for Max-Age from the request at which the session of
\* its cookie was last visited for it, however late or often that cookie was sent:
\* whatever other clients do and whenever the cleaner runs, its session is there.
\* (Longer than that there is no promise, though the browser may hold the cookie
\* for longer: a late response and an error page state a Max-Age of their own and
\* refresh nothing.  An id made twice gets the time the older session has left.)
Recognised(c) ==
  jar[c].id # NoId /\ now <= jar[c].visited + AgeTime => jar[c].id \in DOMAIN storage
BrowserRecognised == ordinary => \A c \in Clients : Recognised(c)

\* A session nobody visits is gone one period of the cleaner after it expired.
NoneOverstays == \A id \in DOMAIN storage : now <= storage[id].valid + CleanerTime

\* A session is never set back, even when its id is generated once more for
\* another client: its count and the time it lasts only grow.
Kept == \A id \in DOMAIN storage \cap DOMAIN storage' :
          storage'[id].count >= storage[id].count /\ storage'[id].valid >= storage[id].valid
LiveSessionKept == [][Kept]_vars
=============================================================================
