------------------------ MODULE SessionStorageProofs ------------------------
(***************************************************************************)
(* What SessionStorage.tla promises holds for any number of clients and    *)
(* ids and any times.  Both safety properties need a strengthening: each   *)
(* cookie, on a client or still to be sent by a connection, names a session *)
(* that lasts for Max-Age from the visit it stands for (Covered), and no    *)
(* live session expired longer ago than the timer last fired (Swept).      *)
(***************************************************************************)
EXTENDS SessionStorage, TLAPS

Covered(k) ==
  k.id # NoId =>
    /\ k.visited <= now
    /\ now <= k.visited + AgeTime => /\ k.id \in DOMAIN storage
                                     /\ k.visited + AgeTime <= storage[k.id].valid

AllCovered == ordinary => \A c \in Clients : Covered(session_id[c]) /\ Covered(jar[c])

\* No session lasts longer than from now on.
Lasting == \A id \in DOMAIN storage : storage[id].valid <= now + AgeTime

Swept == \A id \in DOMAIN storage : now <= storage[id].valid + timer

-----------------------------------------------------------------------------
(* The storage after each of its operations.                               *)

LEMMA Added ==
  ASSUME TypeOK, SessionAssumption, NEW id \in Ids, add_new_session(id)
  PROVE  /\ DOMAIN storage' = DOMAIN storage \cup {id}
         /\ \A i \in DOMAIN storage : storage'[i] = storage[i]
         /\ id \notin DOMAIN storage =>
              storage'[id] = Newborn
  BY DEF add_new_session, Newborn, TypeOK, SessionAssumption

LEMMA Cleaned ==
  ASSUME TypeOK, session_cleaner
  PROVE  /\ DOMAIN storage' = {id \in DOMAIN storage : now <= storage[id].valid}
         /\ \A i \in DOMAIN storage' : storage'[i] = storage[i]
  BY DEF session_cleaner, Restrict, Expired, TypeOK, Session

LEMMA Found ==
  ASSUME TypeOK, SessionAssumption, NEW c \in Clients, NEW id \in DOMAIN storage,
         KnownSession(c, id)
  PROVE  /\ DOMAIN storage' = DOMAIN storage
         /\ \A i \in DOMAIN storage \ {id} : storage'[i] = storage[i]
         /\ storage'[id].valid = now + AgeTime
         /\ storage'[id].count = storage[id].count + 1
  BY DEF KnownSession, Visited, TypeOK, Session

-----------------------------------------------------------------------------

\* The variables have their types: counts stay below the bound of the model.
THEOREM TypeCorrect == Spec => []TypeOK
<1>1. Init => TypeOK
  BY SessionAssumption DEF Init, TypeOK, NoCookie, Cookie, SessionAssumption
<1>2. TypeOK /\ [Next]_vars => TypeOK'
  <2> SUFFICES ASSUME TypeOK, [Next]_vars PROVE TypeOK'
    OBVIOUS
  <2> USE SessionAssumption
  <2>1. ASSUME NEW c \in Clients, Reconnect(c) PROVE TypeOK'
    BY <2>1 DEF Reconnect, NoCookie, Cookie, TypeOK, SessionAssumption
  <2>2. ASSUME NEW c \in Clients, NEW cookie \in Cookies, Request(c, cookie) PROVE TypeOK'
    <3>1. now' = now /\ timer' = timer /\ now + AgeTime \in Nat
      BY <2>2 DEF Request, TypeOK, SessionAssumption
    <3>2. /\ DOMAIN storage' \subseteq Ids /\ storage' \in [DOMAIN storage' -> Session]
          /\ session_id' \in [Clients -> Cookie]
      <4>1. CASE UNCHANGED <<storage, session_id>>
        BY <4>1 DEF TypeOK
      <4>2. CASE NewSession(c)
        BY <4>2, <3>1 DEF NewSession, Names, generate_session_id, add_new_session, Newborn, Session,
                          Cookie, TypeOK, SessionAssumption
      <4>3. CASE cookie \in DOMAIN storage /\ KnownSession(c, cookie)
        <5>1. storage[cookie] \in Session /\ storage[cookie].count + 1 \in 0 .. MaxCount
          BY <4>3 DEF KnownSession, Session, TypeOK, SessionAssumption
        <5>2. Visited(storage[cookie]) \in Session
          BY <5>1, <3>1 DEF Visited, Session
        <5>3. storage' = [storage EXCEPT ![cookie] = Visited(storage[cookie])]
          BY <4>3 DEF KnownSession
        <5>4. [id |-> cookie, visited |-> now] \in Cookie
          BY <4>3 DEF Cookie, TypeOK
        <5> QED
          BY <4>3, <5>2, <5>3, <5>4 DEF KnownSession, Names, TypeOK
      <4> QED
        BY <2>2, <4>1, <4>2, <4>3 DEF Request, set_cookie_
    <3>3. jar' \in [Clients -> Cookie]
      BY <2>2 DEF Request, TypeOK
    <3>4. ordinary' \in BOOLEAN
      BY <2>2 DEF Request
    <3> QED
      BY <3>1, <3>2, <3>3, <3>4 DEF TypeOK
  <2>3. CASE Tick
    BY <2>3 DEF Tick, TypeOK, SessionAssumption
  <2>4. CASE session_timer_event_handler
    BY <2>4, Cleaned DEF session_timer_event_handler, session_cleaner, Restrict, TypeOK, SessionAssumption
  <2>5. CASE UNCHANGED vars
    BY <2>5 DEF vars, TypeOK
  <2>6. ASSUME NEW c \in Clients, Respond(c) PROVE TypeOK'
    BY <2>6 DEF Respond, TypeOK
  <2> QED
    BY <2>1, <2>2, <2>3, <2>4, <2>5, <2>6 DEF Next
<1> QED
  BY <1>1, <1>2, PTL DEF Spec

\* No session stays longer than one period of the cleaner after it expired.
THEOREM SweptInTime == Spec => []NoneOverstays
<1>1. Init => Swept
  BY DEF Init, Swept
<1>2. TypeOK /\ Swept /\ [Next]_vars => Swept'
  <2> SUFFICES ASSUME TypeOK, Swept, [Next]_vars PROVE Swept'
    OBVIOUS
  <2> USE SessionAssumption
  <2>1. ASSUME NEW c \in Clients, Reconnect(c) PROVE Swept'
    BY <2>1 DEF Reconnect, Swept
  <2>2. ASSUME NEW c \in Clients, NEW cookie \in Cookies, Request(c, cookie) PROVE Swept'
    <3>1. now' = now /\ timer' = timer /\ now <= now + AgeTime + timer
      BY <2>2 DEF Request, TypeOK, SessionAssumption
    <3>2. CASE UNCHANGED storage
      BY <3>1, <3>2 DEF Swept
    <3>3. CASE NewSession(c)
      BY <3>1, <3>3, Added DEF NewSession, generate_session_id, add_new_session, Newborn, Swept
    <3>4. CASE cookie \in DOMAIN storage /\ KnownSession(c, cookie)
      <4>1. /\ DOMAIN storage' = DOMAIN storage /\ storage'[cookie].valid = now + AgeTime
            /\ \A i \in DOMAIN storage \ {cookie} : storage'[i] = storage[i]
        BY <3>4, Found
      <4> QED
        BY <3>1, <4>1 DEF Swept
    <3> QED
      BY <2>2, <3>2, <3>3, <3>4 DEF Request, set_cookie_
  <2>3. CASE Tick
    BY <2>3 DEF Tick, Swept, TypeOK, Session, SessionAssumption
  <2>4. CASE session_timer_event_handler
    BY <2>4, Cleaned DEF session_timer_event_handler, Swept, TypeOK, Session, SessionAssumption
  <2>5. CASE UNCHANGED vars
    BY <2>5 DEF vars, Swept
  <2>6. ASSUME NEW c \in Clients, Respond(c) PROVE Swept'
    BY <2>6 DEF Respond, Swept
  <2> QED
    BY <2>1, <2>2, <2>3, <2>4, <2>5, <2>6 DEF Next
<1>3. TypeOK /\ Swept => NoneOverstays
  BY SessionAssumption DEF TypeOK, Swept, NoneOverstays, Session, SessionAssumption
<1> QED
  BY <1>1, <1>2, <1>3, TypeCorrect, PTL DEF Spec

\* As long as ids do not repeat, a browser finds its session for Max-Age from the
\* visit its cookie stands for, whenever the response that brought it was sent.
THEOREM BrowserSafe == Spec => []BrowserRecognised
<1>1. Init => AllCovered
  BY DEF Init, AllCovered, Covered, NoCookie
<1>2. TypeOK /\ AllCovered /\ [Next]_vars => AllCovered'
  <2> SUFFICES ASSUME TypeOK, AllCovered, [Next]_vars, ordinary', NEW d \in Clients
               PROVE  Covered(session_id[d])' /\ Covered(jar[d])'
    BY DEF AllCovered
  <2>0. ordinary
    BY DEF Next, Reconnect, Request, Respond, Tick, session_timer_event_handler, vars
  <2> Covered(session_id[d]) /\ Covered(jar[d])
    BY <2>0 DEF AllCovered
  <2> /\ now \in Nat /\ AgeTime \in Nat
      /\ session_id[d].visited \in Nat /\ jar[d].visited \in Nat
      /\ \A i \in DOMAIN storage : storage[i].valid \in Nat
    BY SessionAssumption DEF TypeOK, Cookie, Session, SessionAssumption
  <2> USE SessionAssumption
  <2>1. ASSUME NEW c \in Clients, Reconnect(c) PROVE Covered(session_id[d])' /\ Covered(jar[d])'
    BY <2>1 DEF Reconnect, Covered, NoCookie, TypeOK
  <2>2. ASSUME NEW c \in Clients, NEW cookie \in Cookies, Request(c, cookie)
        PROVE  Covered(session_id[d])' /\ Covered(jar[d])'
    <3>1. now' = now /\ jar' = jar
      BY <2>2 DEF Request
    <3>2. CASE UNCHANGED <<storage, session_id>>
      BY <3>1, <3>2 DEF Covered
    <3>3. CASE ~UNCHANGED <<storage, session_id>>
      <4>1. PICK id \in Ids :
              /\ session_id' = [session_id EXCEPT ![c] = [id |-> id, visited |-> now]]
              /\ id \in DOMAIN storage' /\ storage'[id].valid = now + AgeTime
              /\ \A i \in DOMAIN storage :
                   /\ i \in DOMAIN storage'
                   /\ storage'[i] = storage[i] \/ storage'[i].valid = now + AgeTime
        <5>1. CASE cookie \notin {"empty"} \cup DOMAIN storage /\ NewSession(c)
          <6>1. PICK id \in Ids : add_new_session(id) /\ Names(c, id)
            BY <5>1 DEF NewSession, generate_session_id
          <6>2. session_id' = [session_id EXCEPT ![c] = [id |-> id, visited |-> now]]
            BY <6>1 DEF Names
          <6>3. id \notin DOMAIN storage
            BY <2>2, <5>1, <6>2 DEF Request, TypeOK
          <6>4. /\ DOMAIN storage' = DOMAIN storage \cup {id}
                /\ \A i \in DOMAIN storage : storage'[i] = storage[i]
                /\ storage'[id] = Newborn
            BY <6>1, <6>3, Added
          <6>5. storage'[id].valid = now + AgeTime
            BY <6>4 DEF Newborn
          <6> QED
            BY <6>2, <6>4, <6>5
        <5>2. CASE cookie \in DOMAIN storage /\ KnownSession(c, cookie)
          <6>1. /\ DOMAIN storage' = DOMAIN storage /\ storage'[cookie].valid = now + AgeTime
                /\ \A i \in DOMAIN storage \ {cookie} : storage'[i] = storage[i]
            BY <5>2, Found
          <6>2. /\ cookie \in Ids
                /\ session_id' = [session_id EXCEPT ![c] = [id |-> cookie, visited |-> now]]
            BY <5>2 DEF KnownSession, Names, TypeOK
          <6> QED
            BY <5>2, <6>1, <6>2
        <5> QED
          BY <2>2, <3>3, <5>1, <5>2 DEF Request, set_cookie_
      <4>2. ASSUME NEW k \in Cookie, Covered(k) PROVE Covered(k)'
        <5>1. k.visited \in Nat
          BY DEF Cookie
        <5>2. CASE k.id # NoId /\ now <= k.visited + AgeTime
          <6>1. /\ k.id \in DOMAIN storage /\ k.visited <= now
                /\ k.visited + AgeTime <= storage[k.id].valid
            BY <4>2, <5>2 DEF Covered
          <6>2. /\ k.id \in DOMAIN storage'
                /\ \/ storage'[k.id] = storage[k.id]
                   \/ storage'[k.id].valid = now + AgeTime
            BY <4>1, <6>1, Zenon
          <6> QED
            BY <3>1, <5>1, <6>1, <6>2 DEF Covered
        <5> QED
          BY <3>1, <4>2, <5>1, <5>2 DEF Covered
      <4>3. jar[d] \in Cookie /\ session_id[d] \in Cookie
        BY DEF TypeOK
      <4>4. Covered(jar[d])'
        BY <3>1, <4>2, <4>3 DEF Covered
      <4>5. CASE d = c
        <5>1. session_id'[d] = [id |-> id, visited |-> now]
          BY <4>1, <4>5 DEF TypeOK
        <5> QED
          BY <3>1, <4>1, <4>4, <5>1 DEF Covered
      <4>6. CASE d # c
        <5>1. session_id'[d] = session_id[d]
          BY <4>1, <4>6 DEF TypeOK
        <5> QED
          BY <4>2, <4>3, <4>4, <5>1 DEF Covered
      <4> QED
        BY <4>5, <4>6
    <3> QED
      BY <3>2, <3>3
  <2>3. CASE Tick
    BY <2>3 DEF Tick, Covered
  <2>4. CASE session_timer_event_handler
    <3>1. now' = now /\ jar' = jar /\ session_id' = session_id /\ session_cleaner
      BY <2>4 DEF session_timer_event_handler
    <3>2. /\ DOMAIN storage' = {id \in DOMAIN storage : now <= storage[id].valid}
          /\ \A i \in DOMAIN storage' : storage'[i] = storage[i]
      BY <3>1, Cleaned
    <3> QED
      BY <3>1, <3>2 DEF Covered
  <2>5. CASE UNCHANGED vars
    BY <2>5 DEF vars, Covered
  <2>6. ASSUME NEW c \in Clients, Respond(c) PROVE Covered(session_id[d])' /\ Covered(jar[d])'
    <3>1. now' = now /\ storage' = storage /\ session_id' = session_id
      BY <2>6 DEF Respond
    <3>2. jar'[d] = jar[d] \/ jar'[d] = session_id[d]
      BY <2>6 DEF Respond, TypeOK
    <3> QED
      BY <3>1, <3>2 DEF Covered
  <2> QED
    BY <2>1, <2>2, <2>3, <2>4, <2>5, <2>6 DEF Next
<1>3. TypeOK /\ AllCovered => BrowserRecognised
  BY DEF AllCovered, Covered, BrowserRecognised, Recognised
<1> QED
  BY <1>1, <1>2, <1>3, TypeCorrect, PTL DEF Spec

\* No step sets a live session back, whatever ids are generated.
THEOREM NeverSetBack == Spec => LiveSessionKept
<1>1. Init => Lasting
  BY DEF Init, Lasting
<1>2. TypeOK /\ Lasting /\ [Next]_vars => Lasting' /\ [Kept]_vars
  <2> SUFFICES ASSUME TypeOK, Lasting, [Next]_vars PROVE Lasting' /\ [Kept]_vars
    OBVIOUS
  <2> USE SessionAssumption
  <2>1. now + AgeTime \in Nat /\ \A i \in DOMAIN storage : storage[i].count \in Nat /\ storage[i].valid \in Nat
    BY DEF TypeOK, Session, SessionAssumption
  <2>2. ASSUME NEW c \in Clients, Reconnect(c) PROVE Lasting' /\ Kept
    BY <2>1, <2>2 DEF Reconnect, Lasting, Kept
  <2>3. ASSUME NEW c \in Clients, NEW cookie \in Cookies, Request(c, cookie) PROVE Lasting' /\ Kept
    <3>1. now' = now
      BY <2>3 DEF Request
    <3>2. CASE UNCHANGED storage
      BY <2>1, <3>1, <3>2 DEF Lasting, Kept
    <3>3. CASE NewSession(c)
      BY <2>1, <3>1, <3>3, Added DEF NewSession, generate_session_id, add_new_session, Newborn, Lasting, Kept
    <3>4. CASE cookie \in DOMAIN storage /\ KnownSession(c, cookie)
      <4>1. /\ DOMAIN storage' = DOMAIN storage
            /\ storage'[cookie].valid = now + AgeTime
            /\ storage'[cookie].count = storage[cookie].count + 1
            /\ \A i \in DOMAIN storage \ {cookie} : storage'[i] = storage[i]
        BY <3>4, Found
      <4> QED
        BY <2>1, <3>1, <4>1 DEF Lasting, Kept
    <3> QED
      BY <2>3, <3>2, <3>3, <3>4 DEF Request, set_cookie_
  <2>4. CASE Tick
    BY <2>1, <2>4 DEF Tick, Lasting, Kept, TypeOK, SessionAssumption
  <2>5. CASE session_timer_event_handler
    BY <2>1, <2>5, Cleaned DEF session_timer_event_handler, Lasting, Kept
  <2>6. CASE UNCHANGED vars
    BY <2>1, <2>6 DEF vars, Lasting, Kept
  <2>7. ASSUME NEW c \in Clients, Respond(c) PROVE Lasting' /\ Kept
    BY <2>1, <2>7 DEF Respond, Lasting, Kept
  <2> QED
    BY <2>2, <2>3, <2>4, <2>5, <2>6, <2>7 DEF Next
<1> QED
  BY <1>1, <1>2, TypeCorrect, PTL DEF Spec, LiveSessionKept

=============================================================================
