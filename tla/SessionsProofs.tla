--------------------------- MODULE SessionsProofs ---------------------------
(***************************************************************************)
(* Proofs about Sessions: its type invariant, that a project gets a second *)
(* session only when two creations overlapped, and that a page without a   *)
(* ticket is never the answer of an expired cache.                         *)
(***************************************************************************)
EXTENDS Sessions, TLAPS

-----------------------------------------------------------------------------
(* The record of a request *)

ReqOK == req \in [Browser -> Requests]

LEMMA NewRequestType ==
  ASSUME NEW purpose \in Purpose, NEW hasPat \in BOOLEAN, NEW calm \in BOOLEAN
  PROVE  NewRequest(purpose, hasPat, calm) \in Requests
<1>1. {} \in Contents
  BY DEF Contents
<1> QED BY <1>1 DEF NewRequest, Requests

LEMMA AskType ==
  ASSUME ReqOK, NEW b \in Browser, NEW purpose \in Purpose, NEW hasPat \in BOOLEAN,
         Ask(b, purpose, hasPat)
  PROVE  ReqOK'
BY NewRequestType DEF ReqOK, Ask

LEMMA ForgetType ==
  ASSUME ReqOK, NEW b \in Browser, NEW calm \in BOOLEAN,
         req' = [req EXCEPT ![b] = NewRequest("poll", FALSE, calm)]
  PROVE  ReqOK'
<1>1. NewRequest("poll", FALSE, calm) \in Requests
  BY NewRequestType DEF Purpose
<1> QED BY <1>1 DEF ReqOK

\* A step that empties the request of b, or leaves every request alone.
LEMMA NoRequestType ==
  ASSUME ReqOK, NEW b \in Browser,
         req' = [req EXCEPT ![b] = NoRequest] \/ req' = req
  PROVE  ReqOK'
BY ForgetType DEF NoRequest, ReqOK

LEMMA ShowTypes ==
  ASSUME SessionsTypeOK, NEW b \in Browser, NEW tickets \in Contents,
         NEW iterations \in BOOLEAN, Show(b, tickets, iterations)
  PROVE  ReqOK' /\ sprints' \in [Browser -> BOOLEAN]
<1>1. req[b] \in Requests /\ ReqOK
  BY DEF SessionsTypeOK, ReqOK
<1>2. (tickets = {} /\ req[b].calm) \in BOOLEAN
  BY <1>1 DEF Requests
<1>3. ReqOK'
  BY <1>1, <1>2, ForgetType DEF Show
<1> QED BY <1>3 DEF Show, SessionsTypeOK

-----------------------------------------------------------------------------
(* Where the browsers are, and which keys Redis has *)

\* No step takes a browser to a session that does not exist.
LEMMA PlacesStep ==
  ASSUME SessionsTypeOK, [Next]_vars
  PROVE  PlacesOK'
<1>0. PlacesOK /\ rows \in Nat
  BY DEF SessionsTypeOK
<1> USE <1>0 DEF PlacesOK, Go, Screen, Step
<1>1. ASSUME NEW b \in Browser, BrowserStep(b) PROVE PlacesOK'
  <2> USE DEF BrowserStays
  <2>1. CASE Login(b)
    BY <2>1 DEF Login
  <2>2. CASE Enter(b)
    BY <2>2 DEF Enter
  <2>3. CASE Reload(b)
    BY <2>3 DEF Reload, Visit
  <2>4. CASE Clear(b)
    BY <2>4 DEF Clear
  <2>5. CASE Logout(b)
    BY <2>5 DEF Logout
  <2>6. CASE Poll(b)
    BY <2>6 DEF Poll
  <2>7. CASE \E s \in Session : Follow(b, s)
    BY <2>7 DEF Follow, Session
  <2> QED BY <1>1, <2>1, <2>2, <2>3, <2>4, <2>5, <2>6, <2>7 DEF BrowserStep
<1>2. ASSUME NEW b \in Browser, RequestStep(b) PROVE PlacesOK'
  <2> USE DEF RequestStays
  <2>1. CASE Iterate(b)
    BY <2>1 DEF Iterate, Allowed
  <2>2. CASE Insert(b)
    BY <2>2 DEF Insert
  <2>3. CASE Look(b)
    BY <2>3 DEF Look, Show
  <2>4. CASE Take(b)
    BY <2>4 DEF Take
  <2>5. CASE Fetch(b)
    BY <2>5 DEF Fetch, Allowed
  <2>6. CASE Store(b)
    BY <2>6 DEF Store, SetTickets
  <2>7. CASE Fill(b)
    BY <2>7 DEF Fill
  <2>8. CASE Answer(b)
    <3>1. \/ pc' = [pc EXCEPT ![b] = "board"]
          \/ pc' = [pc EXCEPT ![b] = "empty"]
      BY <2>8 DEF Answer, Show
    <3> QED BY <2>8, <3>1 DEF Answer
  <2>9. CASE Refused(b)
    BY <2>9 DEF Refused, BrowserStays
  <2> QED BY <1>2, <2>1, <2>2, <2>3, <2>4, <2>5, <2>6, <2>7, <2>8, <2>9 DEF RequestStep
<1>3. ASSUME NEW b \in Browser, Fail(b) PROVE PlacesOK'
  <2>1. CASE req[b].why = "poll"
    <3>1. pc[b] \notin {"iterate", "insert"}
      BY <2>1 DEF SessionsTypeOK, CreatorsOK, Creating
    <3>2. sid[b] # 0
      BY <1>3, <3>1 DEF Fail
    <3> QED BY <1>3, <2>1, <3>2 DEF Fail
  <2>2. CASE req[b].why # "poll"
    BY <1>3, <2>2 DEF Fail
  <2> QED BY <2>1, <2>2
<1>4. CASE \/ \E s \in Session : DupCreate(s) \/ SlotExpires(s) \/ MetaExpires(s) \/ TicketsExpire(s)
           \/ DupUpdate \/ AdoChange
           \/ \E u \in User : PatExpires(u)
  <2>1. UNCHANGED <<pc, sid, rows>>
    BY <1>4 DEF DupCreate, SlotExpires, MetaExpires, TicketsExpire, DupUpdate, AdoChange,
                PatExpires, DupStays, OthersStay, Expire
  <2> QED BY <2>1
<1>5. CASE UNCHANGED vars
  BY <1>5 DEF vars
<1> QED BY <1>1, <1>2, <1>3, <1>4, <1>5 DEF Next

\* A browser that creates a session goes on creating it, or ends its request.
LEMMA CreatorsStep ==
  ASSUME SessionsTypeOK, [Next]_vars
  PROVE  CreatorsOK'
<1>0. /\ CreatorsOK /\ ReqOK
      /\ pc \in [Browser -> Screen \cup Step \cup {"refused"}]
  BY DEF SessionsTypeOK, PlacesOK, ReqOK
<1> USE DEF CreatorsOK, Creating, Go
<1>1. ASSUME NEW b \in Browser, Enter(b) PROVE CreatorsOK'
  BY <1>0, <1>1 DEF Enter, Ask, NewRequest, ReqOK
<1>2. ASSUME NEW b \in Browser, BrowserStep(b), ~Enter(b) PROVE CreatorsOK'
  <2>1. /\ ~Creating(b)'
        /\ \A c \in Browser \ {b} : pc'[c] = pc[c] /\ req'[c] = req[c]
    BY <1>0, <1>2 DEF BrowserStep, Login, Reload, Clear, Logout, Poll, Follow, Ask, ReqOK
  <2> QED BY <1>0, <2>1
<1>3. ASSUME NEW b \in Browser, Iterate(b) PROVE CreatorsOK'
  BY <1>0, <1>3 DEF Iterate, Allowed
<1>4. ASSUME NEW b \in Browser, Store(b) PROVE CreatorsOK'
  <2>1. ~Creating(b)' /\ \A c \in Browser \ {b} : pc'[c] = pc[c]
    BY <1>0, <1>4 DEF Store, SetTickets
  <2>2. \A c \in Browser : req'[c].why = req[c].why
    BY <1>0, <1>4 DEF Store, SetTickets, ReqOK, Requests
  <2> QED BY <1>0, <2>1, <2>2
<1>5. ASSUME NEW b \in Browser, RequestStep(b) \/ Fail(b), ~Iterate(b), ~Store(b)
      PROVE  CreatorsOK'
  <2>1. /\ ~Creating(b)'
        /\ \A c \in Browser \ {b} : pc'[c] = pc[c] /\ req'[c] = req[c]
    <3>1. CASE Insert(b) \/ Look(b) \/ Take(b) \/ Fetch(b)
      BY <1>0, <3>1 DEF Insert, Look, Take, Fetch, Show, Allowed, ReqOK
    <3>2. CASE Fill(b) \/ Answer(b) \/ Refused(b) \/ Fail(b)
      BY <1>0, <3>2 DEF Fill, Answer, Refused, Fail, Show, ReqOK
    <3> QED BY <1>5, <3>1, <3>2 DEF RequestStep
  <2> QED BY <1>0, <2>1
<1>6. CASE AdoChange
  <2>1. pc' = pc
    BY <1>6 DEF AdoChange, OthersStay
  <2>2. \A c \in Browser : req'[c].why = req[c].why
    BY <1>0, <1>6 DEF AdoChange, ReqOK, Requests
  <2> QED BY <1>0, <2>1, <2>2
<1>7. CASE \/ \E s \in Session : DupCreate(s) \/ SlotExpires(s) \/ MetaExpires(s) \/ TicketsExpire(s)
           \/ DupUpdate
           \/ \E u \in User : PatExpires(u)
           \/ UNCHANGED vars
  <2>1. UNCHANGED <<req, pc>>
    BY <1>7 DEF DupCreate, SlotExpires, MetaExpires, TicketsExpire, DupUpdate,
                PatExpires, DupStays, OthersStay, Expire, vars
  <2> QED BY <1>0, <2>1
<1> QED BY <1>1, <1>2, <1>3, <1>4, <1>5, <1>6, <1>7 DEF Next

\* Redis gets keys of sessions that were inserted only.
LEMMA KeysStep ==
  ASSUME SessionsTypeOK, [Next]_vars
  PROVE  KeysOK'
<1>0. KeysOK /\ rows \in Nat /\ dup \in 0 .. rows
      /\ \A b \in Browser : pc[b] \in {"take", "store", "fill"} => sid[b] \in 1 .. rows
  BY DEF SessionsTypeOK, PlacesOK
<1> USE <1>0 DEF KeysOK, redis
<1>1. ASSUME NEW b \in Browser, BrowserStep(b) PROVE KeysOK'
  BY <1>1 DEF BrowserStep, BrowserStays, Login, Enter, Reload, Clear, Logout, Poll, Follow
<1>2. ASSUME NEW b \in Browser, RequestStep(b) PROVE KeysOK'
  <2> USE DEF RequestStays
  <2>1. CASE Iterate(b) \/ Look(b) \/ Fetch(b) \/ Answer(b) \/ Refused(b)
    BY <2>1 DEF Iterate, Look, Fetch, Answer, Refused, BrowserStays
  <2>2. CASE Insert(b)
    <3>1. rows' = rows + 1 /\ UNCHANGED <<hash, timed, meta, slot>>
      BY <2>2 DEF Insert
    <3>2. 1 .. rows \subseteq 1 .. rows'
      BY <1>0, <3>1
    <3> QED BY <3>1, <3>2 DEF Session
  <2>3. CASE Take(b)
    BY <2>3 DEF Take
  <2>4. CASE Store(b)
    <3>1. req[b].got \in Contents
      BY DEF SessionsTypeOK, Requests
    <3>2. sid[b] \in 1 .. rows
      BY <2>4 DEF Store, SetTickets
    <3>3. /\ hash' = [hash EXCEPT ![sid[b]] = req[b].got]
          /\ timed' = timed \cup {sid[b]}
          /\ UNCHANGED <<meta, slot, rows>>
      BY <2>4 DEF Store, SetTickets
    <3>4. hash' \in [Session -> Contents] /\ \A s \in Session : hash'[s] # {} => s <= rows
      <4>1. hash' \in [Session -> Contents]
        BY <3>1, <3>3
      <4>2. \A s \in Session : hash'[s] = (IF s = sid[b] THEN req[b].got ELSE hash[s])
        BY <3>3
      <4> QED BY <3>2, <4>1, <4>2
    <3>5. timed' \subseteq 1 .. rows
      BY <3>2, <3>3
    <3> QED BY <3>3, <3>4, <3>5
  <2>5. CASE Fill(b)
    BY <2>5 DEF Fill
  <2> QED BY <1>2, <2>1, <2>2, <2>3, <2>4, <2>5 DEF RequestStep
<1>3. ASSUME NEW b \in Browser, Fail(b) PROVE KeysOK'
  BY <1>3 DEF Fail
<1>4. ASSUME NEW s \in Session, DupCreate(s) \/ SlotExpires(s) \/ MetaExpires(s) \/ TicketsExpire(s)
      PROVE  KeysOK'
  BY <1>4 DEF DupCreate, SlotExpires, MetaExpires, TicketsExpire, DupStays, OthersStay,
              Expire, Contents
<1>5. CASE DupUpdate
  <2>1. /\ hash' = [hash EXCEPT ![dup] = @ \cup {Copy}]
        /\ timed' \subseteq timed
        /\ UNCHANGED <<meta, slot, rows>>
    BY <1>5 DEF DupUpdate, DupStays
  <2>2. \A s \in Session : hash[s] \cup {Copy} \in Contents
    BY SessionsAssumption DEF Contents
  <2>3. hash' \in [Session -> Contents] /\ \A s \in Session : hash'[s] # {} => s <= rows
    <3>1. hash' \in [Session -> Contents]
      BY <2>1, <2>2
    <3>2. \A s \in Session : hash'[s] = (IF s = dup THEN hash[s] \cup {Copy} ELSE hash[s])
      BY <2>1
    <3> QED BY <3>1, <3>2
  <2> QED BY <2>1, <2>3
<1>6. CASE AdoChange \/ (\E u \in User : PatExpires(u)) \/ UNCHANGED vars
  BY <1>6 DEF AdoChange, PatExpires, OthersStay, Expire, vars
<1> QED BY <1>1, <1>2, <1>3, <1>4, <1>5, <1>6 DEF Next

\* A request is a record of the right fields.
LEMMA RequestsStep ==
  ASSUME SessionsTypeOK, [Next]_vars
  PROVE  ReqOK' /\ sprints' \in [Browser -> BOOLEAN]
<1>0. /\ ReqOK /\ sprints \in [Browser -> BOOLEAN]
      /\ \A b \in Browser : req[b] \in Requests /\ req[b].got \in Contents
      /\ \A b \in Browser : (UserOf[b] \in pat) \in BOOLEAN
      /\ {"create", "join", "restore", "poll"} \subseteq Purpose
  BY DEF SessionsTypeOK, ReqOK, Requests, Purpose
<1>1. ASSUME NEW b \in Browser, BrowserStep(b) PROVE ReqOK' /\ sprints' = sprints
  <2>1. sprints' = sprints
    BY <1>1 DEF BrowserStep, BrowserStays, Login, Enter, Reload, Clear, Logout, Poll, Follow
  <2>2. CASE Login(b) \/ Clear(b) \/ Logout(b)
    BY <1>0, <2>1, <2>2, AskType, NoRequestType DEF Login, Clear, Logout
  <2>3. CASE Enter(b) \/ Reload(b) \/ Poll(b) \/ \E s \in Session : Follow(b, s)
    BY <1>0, <2>1, <2>3, AskType DEF Enter, Reload, Poll, Follow
  <2> QED BY <1>1, <2>2, <2>3, <2>1 DEF BrowserStep
<1>2. ASSUME NEW b \in Browser, Look(b) \/ Answer(b)
      PROVE  ReqOK' /\ sprints' \in [Browser -> BOOLEAN]
  <2>1. sid[b] \in Session /\ hash[sid[b]] \in Contents /\ (sid[b] \in meta) \in BOOLEAN
    <3>1. sid[b] \in 0 .. rows /\ rows \in 0 .. MaxSessions /\ hash \in [Session -> Contents]
      BY DEF SessionsTypeOK, PlacesOK, KeysOK
    <3>2. sid[b] # 0
      BY <1>2 DEF Look, Answer, SessionsTypeOK, PlacesOK
    <3> QED BY <3>1, <3>2, SessionsAssumption DEF Session
  <2>2. \/ Show(b, hash[sid[b]], sid[b] \in meta)
        \/ Show(b, req[b].got, TRUE)
        \/ (req' = [req EXCEPT ![b] = NoRequest] \/ req' = req) /\ sprints' = sprints
    BY <1>2 DEF Look, Answer
  <2> QED BY <1>0, <2>1, <2>2, ShowTypes, NoRequestType
<1>3. ASSUME NEW b \in Browser, Take(b) \/ Fetch(b) \/ Store(b)
      PROVE  ReqOK' /\ sprints' = sprints
  <2>1. sprints' = sprints
    BY <1>3 DEF Take, Fetch, Store, SetTickets
  <2>2. ado \in Contents
    BY DEF SessionsTypeOK
  <2>3. CASE Take(b)
    <3>1. \A v \in BOOLEAN : /\ [req[b] EXCEPT !.calm = v] \in Requests
                              /\ [req[b] EXCEPT !.knew = v] \in Requests
      BY <1>0 DEF Requests
    <3>2. \/ req' = [req EXCEPT ![b] = [req[b] EXCEPT !.calm = FALSE]]
          \/ req' = [req EXCEPT ![b] = [req[b] EXCEPT !.knew = sid[b] \in meta]]
      BY <1>0, <2>3 DEF Take, ReqOK
    <3>3. (sid[b] \in meta) \in BOOLEAN /\ FALSE \in BOOLEAN
      OBVIOUS
    <3>4. PICK r \in Requests : req' = [req EXCEPT ![b] = r]
      BY <3>1, <3>2, <3>3
    <3> QED BY <1>0, <2>1, <3>4 DEF ReqOK
  <2>4. CASE Fetch(b)
    BY <1>0, <2>1, <2>2, <2>4 DEF Fetch, ReqOK, Requests
  <2>5. CASE Store(b)
    BY <1>0, <2>1, <2>5 DEF Store, SetTickets, ReqOK, Requests
  <2> QED BY <1>3, <2>3, <2>4, <2>5
<1>4. ASSUME NEW b \in Browser, Iterate(b) \/ Insert(b) \/ Fill(b) \/ Refused(b) \/ Fail(b)
      PROVE  ReqOK' /\ sprints' = sprints
  <2>1. /\ sprints' = sprints
        /\ req' = [req EXCEPT ![b] = NoRequest] \/ req' = req
    BY <1>4 DEF Iterate, Insert, Fill, Refused, Fail, BrowserStays
  <2> QED BY <1>0, <2>1, NoRequestType
<1>5. CASE AdoChange
  <2>1. sprints' = sprints
    BY <1>5 DEF AdoChange, OthersStay
  <2> QED BY <1>0, <1>5, <2>1 DEF AdoChange, ReqOK, Requests
<1>6. CASE \/ \E s \in Session : DupCreate(s) \/ SlotExpires(s) \/ MetaExpires(s) \/ TicketsExpire(s)
           \/ DupUpdate
           \/ \E u \in User : PatExpires(u)
           \/ UNCHANGED vars
  <2>1. UNCHANGED <<req, sprints>>
    BY <1>6 DEF DupCreate, SlotExpires, MetaExpires, TicketsExpire, DupUpdate,
                PatExpires, DupStays, OthersStay, Expire, vars
  <2> QED BY <1>0, <2>1 DEF ReqOK
<1> QED BY <1>0, <1>1, <1>2, <1>3, <1>4, <1>5, <1>6 DEF Next, RequestStep

\* The other variables: sessions are only added, and duplications are of sessions.
LEMMA RestStep ==
  ASSUME SessionsTypeOK, [Next]_vars
  PROVE  /\ ado' \in Contents
         /\ rows' \in 0 .. MaxSessions
         /\ pat' \subseteq User
         /\ dup' \in 0 .. rows'
         /\ overlap' \in BOOLEAN
         /\ events' \in Nat
<1> USE SessionsAssumption DEF SessionsTypeOK
<1>1. ASSUME NEW b \in Browser, BrowserStep(b) \/ Refused(b)
      PROVE  /\ UNCHANGED <<ado, rows, dup>> /\ pat' \subseteq User
             /\ overlap' \in BOOLEAN /\ events' \in Nat
  <2>1. UNCHANGED <<ado, rows, dup>>
    BY <1>1 DEF BrowserStep, BrowserStays, Login, Enter, Reload, Clear, Logout, Poll, Follow,
                Refused
  <2>2. pat' \subseteq User
    <3>1. pat' \subseteq pat \cup {UserOf[b]}
      BY <1>1, Zenon DEF BrowserStep, Login, Enter, Reload, Clear, Logout, Poll, Follow, Refused
    <3> QED BY <3>1
  <2>3. overlap' \in BOOLEAN
    <3>1. \/ overlap' = overlap
          \/ overlap' = (overlap \/ \E c \in Browser : Creating(c))
      <4>1. CASE Enter(b)
        BY <4>1, Zenon DEF Enter
      <4>2. CASE ~Enter(b)
        BY <1>1, <4>2 DEF BrowserStep, Login, Reload, Clear, Logout, Poll, Follow, Refused
      <4> QED BY <4>1, <4>2
    <3> QED BY <3>1
  <2>4. events' \in Nat
    <3>1. events' = events \/ events' = events + 1
      BY <1>1, Zenon DEF BrowserStep, Login, Enter, Reload, Clear, Logout, Poll, Follow, Refused,
                  Visit, Event
    <3> QED BY <3>1
  <2> QED BY <2>1, <2>2, <2>3, <2>4
<1>2. ASSUME NEW b \in Browser, RequestStep(b), ~Refused(b)
      PROVE  /\ UNCHANGED <<ado, dup, pat, overlap, events>>
             /\ rows' \in rows .. MaxSessions
  <2>1. UNCHANGED <<ado, dup, pat, overlap, events>>
    BY <1>2 DEF RequestStep, RequestStays, Iterate, Insert, Look, Take, Fetch, Store,
                SetTickets, Fill, Answer
  <2>2. CASE Insert(b)
    BY <2>1, <2>2, SessionsAssumption DEF Insert
  <2>3. CASE ~Insert(b)
    <3>1. rows' = rows
      BY <1>2, <2>3 DEF RequestStep, Iterate, Look, Take, Fetch, Store, SetTickets, Fill, Answer
    <3> QED BY <2>1, <3>1
  <2> QED BY <2>2, <2>3
<1>3. ASSUME NEW b \in Browser, Fail(b)
      PROVE  UNCHANGED <<ado, rows, dup, pat, overlap>> /\ events' \in Nat
  BY <1>3 DEF Fail, Event
<1>4. CASE \/ \E s \in Session : DupCreate(s) \/ SlotExpires(s) \/ MetaExpires(s) \/ TicketsExpire(s)
           \/ DupUpdate \/ AdoChange
           \/ \E u \in User : PatExpires(u)
  <2>1. UNCHANGED <<rows, overlap>> /\ events' \in Nat /\ pat' \subseteq User
    BY <1>4 DEF DupCreate, SlotExpires, MetaExpires, TicketsExpire, DupUpdate, AdoChange,
                PatExpires, DupStays, OthersStay, Expire, Event
  <2>2. ado' \in Contents /\ dup' \in 0 .. rows
    BY <1>4 DEF DupCreate, SlotExpires, MetaExpires, TicketsExpire, DupUpdate, AdoChange,
                PatExpires, DupStays, OthersStay, Expire, Contents, Session
  <2> QED BY <2>1, <2>2
<1>5. CASE UNCHANGED vars
  BY <1>5 DEF vars
<1> QED BY <1>1, <1>2, <1>3, <1>4, <1>5 DEF Next

\* Every variable keeps its type, and the sessions browsers are in exist.
THEOREM SessionsTypes == Spec => []SessionsTypeOK
<1>1. Init => SessionsTypeOK
  <2>1. NoRequest \in Requests
    BY NewRequestType DEF NoRequest, Purpose
  <2>2. Init => PlacesOK /\ CreatorsOK /\ KeysOK
    BY DEF Init, PlacesOK, CreatorsOK, Creating, KeysOK, Screen, Contents
  <2>3. Init => ado \in Contents /\ rows \in 0 .. MaxSessions /\ dup \in 0 .. rows
    BY SessionsAssumption DEF Init, Contents
  <2>4. Init => req \in [Browser -> Requests] /\ sprints \in [Browser -> BOOLEAN]
    BY <2>1 DEF Init
  <2>5. Init => pat \subseteq User /\ events \in Nat
    BY DEF Init
  <2>6. Init => overlap \in BOOLEAN
    BY Zenon DEF Init
  <2> QED BY <2>2, <2>3, <2>4, <2>5, <2>6 DEF SessionsTypeOK
<1>2. SessionsTypeOK /\ [Next]_vars => SessionsTypeOK'
  BY PlacesStep, CreatorsStep, KeysStep, RequestsStep, RestStep DEF SessionsTypeOK, ReqOK
<1> QED BY <1>1, <1>2, PTL DEF Spec

-----------------------------------------------------------------------------
(* One session per project *)

\* As long as no two creations overlapped, one browser at most is creating, and
\* only while the project has no session.
OneInv ==
  ~overlap =>
    /\ rows <= 1
    /\ \A b \in Browser : Creating(b) => rows = 0
    /\ \A b, c \in Browser : Creating(b) /\ Creating(c) => b = c

\* The project gets a second session only when two creations overlapped.
THEOREM SessionsOne == Spec => []OneSession
<1>1. Init => OneInv
  BY DEF Init, OneInv, Creating
<1>2. SessionsTypeOK /\ OneInv /\ [Next]_vars => OneInv'
  <2> SUFFICES ASSUME SessionsTypeOK, OneInv, [Next]_vars PROVE OneInv'
    OBVIOUS
  <2> USE DEF OneInv, Creating, Go
  <2> rows \in Nat /\ pc \in [Browser -> Screen \cup Step \cup {"refused"}]
    BY DEF SessionsTypeOK, PlacesOK
  <2>1. ASSUME NEW b \in Browser, Enter(b) PROVE OneInv'
    BY <2>1 DEF Enter, BrowserStays
  <2>2. ASSUME NEW b \in Browser, BrowserStep(b), ~Enter(b) PROVE OneInv'
    <3>1. rows' = rows /\ overlap' = overlap
      BY <2>2 DEF BrowserStep, BrowserStays, Login, Reload, Clear, Logout, Poll, Follow
    <3>2. ~Creating(b)' /\ \A c \in Browser \ {b} : pc'[c] = pc[c]
      BY <2>2 DEF BrowserStep, Login, Reload, Clear, Logout, Poll, Follow
    <3> QED BY <3>1, <3>2
  <2>3. ASSUME NEW b \in Browser, Insert(b) PROVE OneInv'
    BY <2>3 DEF Insert, RequestStays
  <2>4. ASSUME NEW b \in Browser, RequestStep(b), ~Insert(b) PROVE OneInv'
    <3>1. rows' = rows /\ overlap' = overlap
      BY <2>4 DEF RequestStep, RequestStays, BrowserStays, Iterate, Look, Take, Fetch, Store,
                  SetTickets, Fill, Answer, Refused
    <3>2. /\ Creating(b)' => Creating(b)
          /\ \A c \in Browser \ {b} : pc'[c] = pc[c]
      <4>1. CASE Iterate(b)
        BY <4>1 DEF Iterate, Allowed
      <4>2. CASE Look(b) \/ Answer(b)
        BY <4>2 DEF Look, Answer, Show
      <4>3. CASE Take(b) \/ Fetch(b) \/ Fill(b) \/ Refused(b)
        BY <4>3 DEF Take, Fetch, Fill, Refused, Allowed
      <4>4. CASE Store(b)
        BY <4>4 DEF Store, SetTickets
      <4> QED BY <2>4, <4>1, <4>2, <4>3, <4>4 DEF RequestStep
    <3> QED BY <3>1, <3>2
  <2>5. ASSUME NEW b \in Browser, Fail(b) PROVE OneInv'
    BY <2>5 DEF Fail
  <2>6. CASE \/ \E s \in Session : DupCreate(s) \/ SlotExpires(s) \/ MetaExpires(s) \/ TicketsExpire(s)
             \/ DupUpdate \/ AdoChange
             \/ \E u \in User : PatExpires(u)
    BY <2>6 DEF DupCreate, SlotExpires, MetaExpires, TicketsExpire, DupUpdate, AdoChange,
                PatExpires, DupStays, OthersStay, Expire
  <2>7. CASE UNCHANGED vars
    BY <2>7 DEF vars
  <2> QED BY <2>1, <2>2, <2>3, <2>4, <2>5, <2>6, <2>7 DEF Next
<1>3. OneInv => OneSession
  BY DEF OneInv, OneSession
<1> QED BY <1>1, <1>2, <1>3, SessionsTypes, PTL DEF Spec

-----------------------------------------------------------------------------
(* Empty answers *)

\* What is known of the request of b as long as nothing could explain an empty
\* answer: the project has work items, so what it fetched is not empty, and
\* neither is the hash it stored that in.
ReadOK(b) ==
  /\ req[b].calm => ado # {}
  /\ pc[b] = "store" /\ req[b].calm => req[b].got # {}
  /\ pc[b] \in {"fill", "answer"} /\ req[b].calm =>
       /\ hash[sid[b]] # {}
       /\ req[b].why = "create" => req[b].got # {}
  /\ pc[b] = "empty" => ~req[b].calm

ReadInv == \A b \in Browser : ReadOK(b)

\* Screens, requests and the hash of the session of a browser are what they are.
LEMMA ReadTypes ==
  ASSUME SessionsTypeOK
  PROVE  /\ pc \in [Browser -> Screen \cup Step \cup {"refused"}]
         /\ req \in [Browser -> Requests]
         /\ hash \in [Session -> Contents]
         /\ sid \in [Browser -> 0 .. rows]
         /\ \A b \in Browser : pc[b] \in {"look", "take", "store", "fill", "answer"}
                              => sid[b] \in Session
<1>1. rows \in 0 .. MaxSessions /\ PlacesOK /\ KeysOK
  BY DEF SessionsTypeOK
<1>2. \A b \in Browser : pc[b] \in {"look", "take", "store", "fill", "answer"}
                      => sid[b] \in 1 .. MaxSessions
  BY <1>1, SessionsAssumption DEF PlacesOK
<1> QED BY <1>1, <1>2 DEF SessionsTypeOK, PlacesOK, KeysOK, Session

\* A step of b that leaves ADO, the caches and the others alone.
LEMMA OthersRead ==
  ASSUME ReadInv, NEW b \in Browser, UNCHANGED <<ado, hash>>,
         \A c \in Browser \ {b} : pc'[c] = pc[c] /\ req'[c] = req[c] /\ sid'[c] = sid[c],
         ReadOK(b)'
  PROVE  ReadInv'
BY DEF ReadInv, ReadOK

\* A step that leaves every browser alone, and empties no hash a request relies on.
LEMMA BrowsersRead ==
  ASSUME ReadInv, UNCHANGED <<pc, sid>>,
         \A b \in Browser :
           /\ req'[b].why = req[b].why /\ req'[b].got = req[b].got
           /\ req'[b].calm => req[b].calm /\ ado' # {}
           /\ pc[b] \in {"fill", "answer"} /\ req'[b].calm /\ hash[sid[b]] # {}
                => hash'[sid[b]] # {}
  PROVE  ReadInv'
BY DEF ReadInv, ReadOK

LEMMA NewRequestCalm ==
  ASSUME NEW purpose, NEW hasPat, NEW calm
  PROVE  NewRequest(purpose, hasPat, calm).calm = calm
BY DEF NewRequest

LEMMA ShowReads ==
  ASSUME SessionsTypeOK, ReadInv, NEW b \in Browser, UNCHANGED <<ado, redis, sid>>,
         NEW tickets, NEW iterations, Show(b, tickets, iterations),
         tickets = {} => ~req[b].calm
  PROVE  ReadInv'
<1>1. /\ pc'[b] \in {"empty", "board"}
      /\ pc'[b] = "empty" => tickets = {}
      /\ \A c \in Browser \ {b} : pc'[c] = pc[c] /\ req'[c] = req[c]
  BY ReadTypes DEF Show, Go
<1>2. ~req'[b].calm
  BY ReadTypes DEF Show, NewRequest
<1>3. ReadOK(b)'
  BY <1>1, <1>2 DEF ReadOK
<1> QED BY <1>1, <1>3, OthersRead DEF redis

\* The steps of a browser that asks for something, or leaves its screen.
LEMMA BrowserReads ==
  ASSUME SessionsTypeOK, ReadInv, NEW b \in Browser,
         BrowserStep(b) \/ Refused(b) \/ Fail(b)
  PROVE  ReadInv'
<1> USE ReadTypes
<1>1. UNCHANGED <<ado, hash>>
  BY DEF BrowserStep, BrowserStays, Login, Enter, Reload, Clear, Logout, Poll, Follow,
         Refused, Fail, redis
<1>2. \A c \in Browser \ {b} : pc'[c] = pc[c] /\ req'[c] = req[c] /\ sid'[c] = sid[c]
  BY DEF BrowserStep, BrowserStays, Login, Enter, Reload, Clear, Logout, Poll, Follow,
         Refused, Fail, Go, Ask
<1>3. pc'[b] \in {"lobby", "login", "board", "look", "take", "iterate"}
  BY DEF BrowserStep, Login, Enter, Reload, Clear, Logout, Poll, Follow, Refused, Fail, Go
<1>4. req'[b].calm => ado # {}
  <2>1. CASE req'[b] = req[b]
    BY <2>1 DEF ReadInv, ReadOK
  <2>2. ASSUME NEW why \in Purpose, NEW token \in BOOLEAN, Ask(b, why, token)
        PROVE  req'[b].calm => ado # {}
    <3>1. req'[b] = NewRequest(why, token, ado # {})
      BY <2>2 DEF Ask
    <3> QED BY <3>1, NewRequestCalm
  <2>3. CASE req' = [req EXCEPT ![b] = NoRequest]
    BY <2>3, NewRequestCalm DEF NoRequest
  <2>4. CASE BrowserStep(b)
    <3>1. (UserOf[b] \in pat) \in BOOLEAN /\ {"create", "join", "restore", "poll"} \subseteq Purpose
      BY DEF Purpose
    <3>2. CASE Login(b) \/ Clear(b) \/ Logout(b)
      BY <2>1, <2>2, <2>3, <3>1, <3>2 DEF Login, Clear, Logout
    <3>3. CASE Enter(b) \/ Reload(b) \/ Poll(b) \/ \E s \in Session : Follow(b, s)
      BY <2>2, <3>1, <3>3 DEF Enter, Reload, Poll, Follow
    <3> QED BY <2>4, <3>2, <3>3 DEF BrowserStep
  <2> QED BY <2>3, <2>4 DEF Refused, Fail
<1>5. ReadOK(b)'
  BY <1>1, <1>3, <1>4 DEF ReadOK
<1> QED BY <1>1, <1>2, <1>5, OthersRead

\* The steps of a request, up to the answer.
LEMMA RequestReads ==
  ASSUME SessionsTypeOK, ReadInv, NEW b \in Browser, RequestStep(b), ~Refused(b)
  PROVE  ReadInv'
<1> USE ReadTypes DEF Go
<1>0. UNCHANGED ado
  BY DEF RequestStep, RequestStays, Iterate, Insert, Look, Take, Fetch, Store, SetTickets,
         Fill, Answer
<1>1. ReadOK(b)
  BY DEF ReadInv
<1>2. ASSUME Iterate(b) \/ Insert(b) \/ Take(b) \/ Fetch(b) \/ Fill(b) PROVE ReadInv'
  <2>1. hash' = hash
    BY <1>2 DEF Iterate, Insert, Take, Fetch, Fill, redis
  <2>2. \A c \in Browser \ {b} : pc'[c] = pc[c] /\ req'[c] = req[c] /\ sid'[c] = sid[c]
    BY <1>2 DEF Iterate, Insert, Take, Fetch, Fill, Allowed
  <2>3. ReadOK(b)'
    <3>1. CASE Iterate(b) \/ Insert(b)
      BY <1>0, <1>1, <2>1, <3>1 DEF Iterate, Insert, Allowed, ReadOK
    <3>2. CASE Take(b)
      <4>1. /\ pc'[b] \in {"answer", "fetch"}
            /\ pc'[b] = "answer" => ~req'[b].calm
            /\ req'[b].calm => req[b].calm
        <5>1. CASE sid[b] \in slot
          BY <3>2, <5>1 DEF Take, Requests
        <5>2. CASE sid[b] \notin slot
          BY <3>2, <5>2 DEF Take, Requests
        <5> QED BY <5>1, <5>2
      <4> QED BY <1>0, <1>1, <4>1 DEF ReadOK
    <3>3. CASE Fetch(b)
      <4>1. /\ pc'[b] \in {"store", "refused"}
            /\ req'[b].got = ado /\ req'[b].calm = req[b].calm
        BY <3>3 DEF Fetch, Allowed, Requests
      <4> QED BY <1>0, <1>1, <4>1 DEF ReadOK
    <3>4. CASE Fill(b)
      <4>1. pc[b] = "fill" /\ pc'[b] = "answer" /\ req' = req /\ sid' = sid
        BY <3>4 DEF Fill
      <4> QED BY <1>0, <1>1, <2>1, <4>1 DEF ReadOK
    <3> QED BY <1>2, <3>1, <3>2, <3>3, <3>4
  <2> QED BY <1>0, <2>1, <2>2, <2>3, OthersRead
<1>3. ASSUME Look(b) PROVE ReadInv'
  <2>1. UNCHANGED <<redis, sid>>
    BY <1>3 DEF Look
  <2>2. CASE hash[sid[b]] # {}
    BY <1>0, <1>3, <2>1, <2>2, ShowReads DEF Look
  <2>3. CASE hash[sid[b]] = {}
    <3>1. req' = req /\ pc' = [pc EXCEPT ![b] = "take"]
      BY <1>3, <2>3 DEF Look
    <3>2. ReadOK(b)'
      BY <1>0, <1>1, <3>1 DEF ReadOK
    <3> QED BY <1>0, <2>1, <3>1, <3>2, OthersRead DEF redis
  <2> QED BY <2>2, <2>3
<1>4. ASSUME Store(b) PROVE ReadInv'
  <2> DEFINE s == sid[b]
  <2>1. /\ pc[b] = "store" /\ s \in Session
        /\ hash' = [hash EXCEPT ![s] = req[b].got]
        /\ sid' = sid
        /\ pc'[b] \in {"answer", "fill"} /\ \A c \in Browser \ {b} : pc'[c] = pc[c]
    BY <1>4 DEF Store, SetTickets
  <2>2. \A c \in Browser : /\ req'[c].why = req[c].why /\ req'[c].got = req[c].got
                          /\ req'[c].calm = (req[c].calm /\ req[b].got # {})
    BY <1>4 DEF Store, SetTickets, Requests
  <2>3. ASSUME NEW c \in Browser PROVE ReadOK(c)'
    <3>1. ReadOK(c)
      BY DEF ReadInv
    <3>2. req'[c].calm => req[c].calm /\ req[b].got # {}
      BY <2>2
    <3>3. req'[c].calm /\ pc'[c] \in {"fill", "answer"} => hash'[sid'[c]] # {}
      <4>1. CASE c = b \/ sid[c] = s
        BY <2>1, <3>2, <4>1
      <4>2. CASE c # b /\ sid[c] # s
        BY <2>1, <3>1, <3>2, <4>2 DEF ReadOK
      <4> QED BY <4>1, <4>2
    <3> QED BY <1>0, <2>1, <2>2, <3>1, <3>2, <3>3 DEF ReadOK
  <2> QED BY <2>3 DEF ReadInv
<1>5. ASSUME Answer(b) PROVE ReadInv'
  <2>1. pc[b] = "answer" /\ UNCHANGED <<redis, sid>>
    BY <1>5 DEF Answer
  <2>2. CASE req[b].why = "poll"
    <3>1. pc' = [pc EXCEPT ![b] = "board"] /\ req' = [req EXCEPT ![b] = NoRequest]
      BY <1>5, <2>2 DEF Answer
    <3>2. ReadOK(b)'
      BY <3>1 DEF ReadOK, NoRequest, NewRequest
    <3> QED BY <1>0, <2>1, <3>1, <3>2, OthersRead DEF redis
  <2>3. CASE req[b].why = "create"
    <3>1. Show(b, req[b].got, TRUE)
      BY <1>5, <2>3 DEF Answer
    <3>2. req[b].got = {} => ~req[b].calm
      BY <1>1, <2>1, <2>3 DEF ReadOK
    <3> QED BY <1>0, <2>1, <3>1, <3>2, ShowReads
  <2>4. CASE req[b].why \notin {"poll", "create"}
    <3>1. Show(b, hash[sid[b]], sid[b] \in meta)
      BY <1>5, <2>4 DEF Answer
    <3>2. hash[sid[b]] = {} => ~req[b].calm
      BY <1>1, <2>1 DEF ReadOK
    <3> QED BY <1>0, <2>1, <3>1, <3>2, ShowReads
  <2> QED BY <2>2, <2>3, <2>4
<1> QED BY <1>2, <1>3, <1>4, <1>5 DEF RequestStep

\* What ADO, the expiries and a duplication do to the answers under way: a hash
\* expires only when no request that wrote it is still to be answered.
LEMMA EnvironmentReads ==
  ASSUME SessionsTypeOK, ReadInv,
         \/ \E s \in Session : DupCreate(s) \/ SlotExpires(s) \/ MetaExpires(s) \/ TicketsExpire(s)
         \/ DupUpdate \/ AdoChange
         \/ \E u \in User : PatExpires(u)
         \/ UNCHANGED vars
  PROVE  ReadInv'
<1> USE ReadTypes
<1>1. ASSUME AdoChange PROVE ReadInv'
  <2>1. UNCHANGED <<pc, sid, hash>>
    BY <1>1 DEF AdoChange, OthersStay, redis
  <2>2. \A b \in Browser : /\ req'[b].why = req[b].why /\ req'[b].got = req[b].got
                          /\ req'[b].calm = (req[b].calm /\ ado' # {})
    BY <1>1 DEF AdoChange, Requests
  <2> QED BY <2>1, <2>2, BrowsersRead
<1>2. ASSUME NEW s \in Session, TicketsExpire(s) PROVE ReadInv'
  <2>1. UNCHANGED <<pc, sid, req, ado>> /\ Settled(s) /\ hash' = [hash EXCEPT ![s] = {}]
    BY <1>2 DEF TicketsExpire, Expire, OthersStay
  <2>2. \A b \in Browser : pc[b] \in {"fill", "answer"} => sid[b] # s
    BY <2>1 DEF Settled
  <2>3. \A b \in Browser : pc[b] \in {"fill", "answer"} => hash'[sid[b]] = hash[sid[b]]
    BY <2>1, <2>2
  <2>4. \A b \in Browser : req[b].calm => ado # {}
    BY DEF ReadInv, ReadOK
  <2> QED BY <2>1, <2>3, <2>4, BrowsersRead
<1>3. ASSUME DupUpdate \/ \E s \in Session : DupCreate(s) PROVE ReadInv'
  <2>1. UNCHANGED <<pc, sid, req>> /\ ado \subseteq ado'
    BY <1>3 DEF DupUpdate, DupCreate, DupStays
  <2>2. \A s \in Session : hash[s] \subseteq hash'[s]
    BY <1>3 DEF DupUpdate, DupCreate
  <2>3. \A b \in Browser : req[b].calm => ado # {}
    BY DEF ReadInv, ReadOK
  <2> QED BY <2>1, <2>2, <2>3, BrowsersRead
<1>4. ASSUME \/ \E s \in Session : SlotExpires(s) \/ MetaExpires(s)
             \/ \E u \in User : PatExpires(u)
             \/ UNCHANGED vars
      PROVE  ReadInv'
  <2>1. UNCHANGED <<ado, hash, pc, sid, req>>
    BY <1>4 DEF SlotExpires, MetaExpires, PatExpires, Expire, OthersStay, vars, redis
  <2> QED BY <2>1 DEF ReadInv, ReadOK
<1> QED BY <1>1, <1>2, <1>3, <1>4

\* The page of an empty project is never the answer of an expired cache: somebody
\* read an empty query, or another sync held the slot.
THEOREM SessionsExplained == Spec => []EmptyIsExplained
<1>1. Init => ReadInv
  <2>1. ASSUME Init, NEW b \in Browser PROVE pc[b] = "login" /\ ~req[b].calm
    BY <2>1, NewRequestCalm DEF Init, NoRequest
  <2> QED BY <2>1 DEF ReadInv, ReadOK
<1>2. SessionsTypeOK /\ ReadInv /\ [Next]_vars => ReadInv'
  BY BrowserReads, RequestReads, EnvironmentReads DEF Next
<1>3. ReadInv => EmptyIsExplained
  BY DEF ReadInv, ReadOK, EmptyIsExplained
<1> QED BY <1>1, <1>2, <1>3, SessionsTypes, PTL DEF Spec
=============================================================================
