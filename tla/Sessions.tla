------------------------------ MODULE Sessions ------------------------------
(***************************************************************************)
(* How a browser gets the board of an ADO project: login, creation or      *)
(* joining of the project's session, restoring it after a reload, and the  *)
(* syncs that fill the session's keys in Redis, which expire.              *)
(*                                                                         *)
(* One project.  A request is a chain of steps of one browser: a step ends *)
(* at an await whose order the properties tell apart, so the requests of   *)
(* several browsers interleave.  A ticket is the identity of its work      *)
(* item; iterations, team and states, written together, are one flag.      *)
(***************************************************************************)
EXTENDS Naturals

CONSTANTS
  Browser,
  User,
  UserOf,       \* the user logged in on a browser
  Item,         \* work items of the project
  Copy,         \* the work item a duplication creates
  Source,       \* the work item it duplicates
  MaxSessions,  \* bound: planning sessions of the project
  MaxEvents     \* bound: changes in ADO, failed requests, expiries of keys other
                \* than the slot's, reloads, logouts, returns to the lobby

ASSUME SessionsAssumption ==
  /\ UserOf \in [Browser -> User]
  /\ Copy \in Item /\ Source \in Item
  /\ MaxSessions \in Nat \ {0}
  /\ MaxEvents \in Nat

Session == 1 .. MaxSessions
Contents == SUBSET Item

\* Where a browser is: on a screen, or waiting for a request at some step.
Screen  == {"login", "lobby", "board", "empty"}
Step    == {"iterate", "insert", "look", "take", "fetch", "store", "fill", "answer"}
Purpose == {"create", "join", "restore", "poll"}

VARIABLES
  ado,      \* what the project's query returns
  rows,     \* planning sessions in Postgres: 1 .. rows, by creation date
  hash,     \* tickets hash of each session; {} when the key is absent
  timed,    \* sessions whose tickets hash has an expiry
  meta,     \* sessions with iterations, team and states in Redis
  slot,     \* sessions whose sync slot is taken
  pat,      \* users whose PAT Redis holds
  pc,       \* where each browser is
  sid,      \* the session it is in, asks for or remembers; 0 when none
  req,      \* its request
  sprints,  \* its board was opened with the project's iterations
  dup,      \* the session of the duplication under way; 0 when none
  overlap,  \* history: two creations of the session overlapped
  events

redis  == <<hash, timed, meta, slot>>
vars == <<ado, rows, redis, pat, pc, sid, req, sprints, dup, overlap, events>>

\* A request: its purpose; whether it carries a PAT; whether its sync found
\* iterations in Redis; what the sync fetched; and, as history, that nothing
\* could explain an empty answer so far.
Requests ==
  [why : Purpose, token : BOOLEAN, knew : BOOLEAN, got : Contents, calm : BOOLEAN]

NewRequest(purpose, hasPat, calm) ==
  [why |-> purpose, token |-> hasPat, knew |-> FALSE, got |-> {}, calm |-> calm]

NoRequest == NewRequest("poll", FALSE, FALSE)

Go(b, step) == pc' = [pc EXCEPT ![b] = step]

Event == events < MaxEvents /\ events' = events + 1

-----------------------------------------------------------------------------
(* The browser: App, SessionLobby, LoginButton *)

BrowserStays == UNCHANGED <<ado, rows, redis, sprints, dup>>

\* The controller first reads the PAT of the user; absent, it is "".
Ask(b, purpose, hasPat) ==
  req' = [req EXCEPT ![b] = NewRequest(purpose, hasPat, ado # {})]

\* loginWithPat accepted the PAT; the page reloads, to the lobby or to the
\* session it remembers.
Login(b) ==
  /\ pc[b] = "login"
  /\ pat' = pat \cup {UserOf[b]}
  /\ IF sid[b] = 0
     THEN Go(b, "lobby") /\ UNCHANGED req
     ELSE Go(b, "look") /\ Ask(b, "restore", TRUE)
  /\ UNCHANGED <<sid, overlap, events>> /\ BrowserStays

Creating(b) == pc[b] \in {"iterate", "insert"}

\* Faulty variant: the existing session is not looked for.
EnterAlone(b) ==
  /\ pc[b] = "lobby"
  /\ Ask(b, "create", UserOf[b] \in pat)
  /\ Go(b, "iterate")
  /\ overlap' = (overlap \/ \E c \in Browser : Creating(c))
  /\ UNCHANGED <<pat, sid, events>> /\ BrowserStays

\* The lobby's POST /sessions: createSession joins the latest session of the
\* project, if there is one, else creates it.
Enter(b) ==
  /\ pc[b] = "lobby"
  /\ \/ /\ rows = 0
        /\ Ask(b, "create", UserOf[b] \in pat)
        /\ Go(b, "iterate")
        /\ overlap' = (overlap \/ \E c \in Browser : Creating(c))
        /\ UNCHANGED sid
     \/ /\ rows > 0
        /\ Ask(b, "join", UserOf[b] \in pat)
        /\ Go(b, "look")
        /\ sid' = [sid EXCEPT ![b] = rows]
        /\ UNCHANGED overlap
  /\ UNCHANGED <<pat, events>> /\ BrowserStays

\* Faulty variant: the session of the link need not exist.
FollowAny(b, s) ==
  /\ pc[b] = "lobby"
  /\ sid' = [sid EXCEPT ![b] = s]
  /\ Ask(b, "restore", UserOf[b] \in pat)
  /\ Go(b, "look")
  /\ UNCHANGED <<pat, overlap, events>> /\ BrowserStays

\* An invitation link opens an existing session.
Follow(b, s) ==
  /\ pc[b] = "lobby" /\ s <= rows
  /\ sid' = [sid EXCEPT ![b] = s]
  /\ Ask(b, "restore", UserOf[b] \in pat)
  /\ Go(b, "look")
  /\ UNCHANGED <<pat, overlap, events>> /\ BrowserStays

Visit(b) == pc[b] \in {"board", "empty"} /\ Event

Reload(b) ==
  /\ Visit(b)
  /\ Ask(b, "restore", UserOf[b] \in pat)
  /\ Go(b, "look")
  /\ UNCHANGED <<pat, sid, overlap>> /\ BrowserStays

\* The button of EmptyProject, or of the board: back to the lobby.
Clear(b) ==
  /\ Visit(b)
  /\ sid' = [sid EXCEPT ![b] = 0]
  /\ req' = [req EXCEPT ![b] = NoRequest]
  /\ Go(b, "lobby")
  /\ UNCHANGED <<pat, overlap>> /\ BrowserStays

\* The board's logout forgets the session, then deletes the user's PAT.
Logout(b) ==
  /\ pc[b] = "board" /\ Visit(b)
  /\ sid' = [sid EXCEPT ![b] = 0]
  /\ pat' = pat \ {UserOf[b]}
  /\ Go(b, "login")
  /\ UNCHANGED <<req, overlap>> /\ BrowserStays

\* The board polls the sync of its session.
Poll(b) ==
  /\ pc[b] = "board"
  /\ Ask(b, "poll", UserOf[b] \in pat)
  /\ Go(b, "take")
  /\ UNCHANGED <<pat, sid, overlap, events>> /\ BrowserStays

\* Faulty variant: the caller of the request swallows the 401.
RefusedSwallowed(b) ==
  /\ pc[b] = "refused"
  /\ UNCHANGED <<pat, pc, sid, req, overlap, events>> /\ BrowserStays

\* The answer was 401: the browser logs out, which deletes the PAT of the user,
\* and shows the login page.  Only a board still remembers its session.
Refused(b) ==
  /\ pc[b] = "refused"
  /\ pat' = pat \ {UserOf[b]}
  /\ sid' = [sid EXCEPT ![b] = IF req[b].why = "poll" THEN @ ELSE 0]
  /\ req' = [req EXCEPT ![b] = NoRequest]
  /\ Go(b, "login")
  /\ UNCHANGED <<overlap, events>> /\ BrowserStays

-----------------------------------------------------------------------------
(* The requests: SessionsService and SyncService *)

RequestStays == UNCHANGED <<ado, pat, dup, overlap, events>>

\* A call to ADO goes on only with a PAT; without one the request ends with 401.
Allowed(b, step) == Go(b, IF req[b].token THEN step ELSE "refused")

\* The session is created after its iterations were resolved ...
Iterate(b) ==
  /\ pc[b] = "iterate"
  /\ Allowed(b, "insert")
  /\ UNCHANGED <<rows, redis, sid, req, sprints>> /\ RequestStays

\* ... and before its first sync.
Insert(b) ==
  /\ pc[b] = "insert" /\ rows < MaxSessions
  /\ rows' = rows + 1
  /\ sid' = [sid EXCEPT ![b] = rows + 1]
  /\ Go(b, "fetch")
  /\ UNCHANGED <<redis, req, sprints>> /\ RequestStays

\* The screen an answer leads to: EmptyProject when it has no ticket.
Show(b, tickets, iterations) ==
  /\ Go(b, IF tickets = {} THEN "empty" ELSE "board")
  /\ sprints' = [sprints EXCEPT ![b] = iterations]
  /\ req' = [req EXCEPT ![b] = NewRequest("poll", FALSE, tickets = {} /\ req[b].calm)]

\* Faulty variant: the snapshot is answered as it is.
LookAsIs(b) ==
  /\ pc[b] = "look"
  /\ Show(b, hash[sid[b]], sid[b] \in meta)
  /\ UNCHANGED <<rows, redis, sid>> /\ RequestStays

\* getSnapshot, for who joins or restores; one without tickets is synced first.
Look(b) ==
  /\ pc[b] = "look"
  /\ IF hash[sid[b]] # {}
     THEN Show(b, hash[sid[b]], sid[b] \in meta)
     ELSE Go(b, "take") /\ UNCHANGED <<req, sprints>>
  /\ UNCHANGED <<rows, redis, sid>> /\ RequestStays

\* syncIncremental reads the iterations and takes the slot; who does not get it is
\* served what Redis holds.
Take(b) ==
  LET s == sid[b] IN
  /\ pc[b] = "take"
  /\ \/ /\ s \in slot
        /\ req' = [req EXCEPT ![b].calm = FALSE]
        /\ Go(b, "answer") /\ UNCHANGED slot
     \/ /\ s \notin slot
        /\ req' = [req EXCEPT ![b].knew = s \in meta]
        /\ slot' = slot \cup {s}
        /\ Go(b, "fetch")
  /\ UNCHANGED <<rows, hash, timed, meta, sid, sprints>> /\ RequestStays

\* The iterations where needed, the WIQL query, the batches and the epics.
Fetch(b) ==
  /\ pc[b] = "fetch"
  /\ Allowed(b, "store")
  /\ req' = [req EXCEPT ![b].got = ado]
  /\ UNCHANGED <<rows, redis, sid, sprints>> /\ RequestStays

\* setTickets, whose empty answer may be what another request reads.
SetTickets(b) ==
  LET s == sid[b] IN
  /\ pc[b] = "store"
  /\ hash' = [hash EXCEPT ![s] = req[b].got]
  /\ timed' = timed \cup {s}
  /\ req' = [c \in Browser |-> [req[c] EXCEPT !.calm = @ /\ req[b].got # {}]]
  /\ UNCHANGED <<rows, meta, slot, sid, sprints>> /\ RequestStays

\* Faulty variant: a sync that found no iterations stores the tickets only.
StoreTicketsOnly(b) == SetTickets(b) /\ Go(b, "answer")

\* A first sync, or one that found no iterations, goes on with the team, the
\* states and the iterations.
Store(b) == SetTickets(b) /\ Go(b, IF req[b].knew THEN "answer" ELSE "fill")

Fill(b) ==
  /\ pc[b] = "fill"
  /\ meta' = meta \cup {sid[b]}
  /\ Go(b, "answer")
  /\ UNCHANGED <<rows, hash, timed, slot, sid, req, sprints>> /\ RequestStays

\* A creation answers what it fetched, a poll changes no screen, and who joined or
\* restores gets a new snapshot.
Answer(b) ==
  /\ pc[b] = "answer"
  /\ CASE req[b].why = "poll" ->
            Go(b, "board") /\ req' = [req EXCEPT ![b] = NoRequest] /\ UNCHANGED sprints
       [] req[b].why = "create" -> Show(b, req[b].got, TRUE)
       [] OTHER -> Show(b, hash[sid[b]], sid[b] \in meta)
  /\ UNCHANGED <<rows, redis, sid>> /\ RequestStays

\* A step of the request fails: ADO refuses a call, or the API restarts.  The
\* lobby shows the error, a failed restore goes back there, and polls go on.
Fail(b) ==
  /\ pc[b] \in Step /\ Event
  /\ IF req[b].why = "poll"
     THEN Go(b, "board") /\ UNCHANGED sid
     ELSE Go(b, "lobby") /\ sid' = [sid EXCEPT ![b] = 0]
  /\ req' = [req EXCEPT ![b] = NoRequest]
  /\ UNCHANGED <<ado, rows, redis, pat, sprints, dup, overlap>>

RequestStep(b) ==
  \/ Iterate(b) \/ Insert(b) \/ Look(b) \/ Take(b) \/ Fetch(b) \/ Store(b) \/ Fill(b)
  \/ Answer(b) \/ Refused(b)

-----------------------------------------------------------------------------
(* duplicateTicket: the source is read, the copy created, the cache updated *)

DupStays == UNCHANGED <<rows, meta, slot, pat, pc, sid, req, sprints, overlap>>

DupCreate(s) ==
  /\ dup = 0 /\ s <= rows /\ Source \in hash[s] /\ Copy \notin ado
  /\ Event
  /\ ado' = ado \cup {Copy}
  /\ dup' = s
  /\ UNCHANGED <<hash, timed>> /\ DupStays

\* updateTicket puts the copy into the hash, whatever became of it; a hash it
\* creates has no expiry.
DupUpdate ==
  /\ dup # 0
  /\ hash' = [hash EXCEPT ![dup] = @ \cup {Copy}]
  /\ timed' = IF hash[dup] = {} THEN timed \ {dup} ELSE timed
  /\ dup' = 0
  /\ UNCHANGED <<ado, events>> /\ DupStays

-----------------------------------------------------------------------------
(* Azure DevOps and Redis *)

OthersStay == UNCHANGED <<rows, pc, sid, sprints, dup, overlap>>

\* Work items are created, removed or moved outside the application.
AdoChange ==
  /\ Event
  /\ ado' \in Contents \ {ado}
  /\ req' = [b \in Browser |-> [req[b] EXCEPT !.calm = @ /\ ado' # {}]]
  /\ UNCHANGED <<redis, pat>> /\ OthersStay

\* The ten seconds of the slot are over.
SlotExpires(s) ==
  /\ s \in slot
  /\ slot' = slot \ {s}
  /\ UNCHANGED <<ado, hash, timed, meta, pat, req, events>> /\ OthersStay

\* No request that wrote the keys of s is under way: they live for 24 hours.
Settled(s) == \A b \in Browser : sid[b] = s => pc[b] \notin {"fill", "answer"}

Expire ==
  /\ Event
  /\ UNCHANGED <<ado, slot, req>> /\ OthersStay

\* The iterations, the team and the states were written once; every sync renews
\* the tickets only.
MetaExpires(s) ==
  /\ s \in meta /\ Settled(s)
  /\ meta' = meta \ {s}
  /\ UNCHANGED <<hash, timed, pat>> /\ Expire

TicketsExpire(s) ==
  /\ s \in timed /\ hash[s] # {} /\ Settled(s)
  /\ hash' = [hash EXCEPT ![s] = {}]
  /\ UNCHANGED <<timed, meta, pat>> /\ Expire

\* A later login with a shorter life replaced the PAT of a browser still logged in.
PatExpires(u) ==
  /\ u \in pat
  /\ pat' = pat \ {u}
  /\ UNCHANGED <<hash, timed, meta>> /\ Expire

-----------------------------------------------------------------------------

Init ==
  /\ ado = Item \ {Copy}
  /\ rows = 0
  /\ hash = [s \in Session |-> {}]
  /\ timed = {} /\ meta = {} /\ slot = {} /\ pat = {}
  /\ pc = [b \in Browser |-> "login"]
  /\ sid = [b \in Browser |-> 0]
  /\ req = [b \in Browser |-> NoRequest]
  /\ sprints = [b \in Browser |-> FALSE]
  /\ dup = 0
  /\ overlap = FALSE
  /\ events = 0

BrowserStep(b) ==
  \/ Login(b) \/ Enter(b) \/ Reload(b) \/ Clear(b) \/ Logout(b) \/ Poll(b)
  \/ \E s \in Session : Follow(b, s)

Next ==
  \/ \E b \in Browser : BrowserStep(b) \/ RequestStep(b) \/ Fail(b)
  \/ \E s \in Session : DupCreate(s) \/ SlotExpires(s) \/ MetaExpires(s) \/ TicketsExpire(s)
  \/ DupUpdate \/ AdoChange
  \/ \E u \in User : PatExpires(u)

Spec == Init /\ [][Next]_vars

\* The event loop takes every request on, time passes, and users go on: they log
\* in, enter the project and leave the board open.
Fairness ==
  /\ \A b \in Browser :
       /\ WF_vars(RequestStep(b))
       /\ WF_vars(Login(b)) /\ WF_vars(Enter(b)) /\ WF_vars(Poll(b))
  /\ \A s \in Session : WF_vars(SlotExpires(s))
  /\ WF_vars(DupUpdate)

FairSpec == Spec /\ Fairness

-----------------------------------------------------------------------------
(* Types *)

\* A browser past the lobby and the creation is in a session that exists.
PlacesOK ==
  /\ pc \in [Browser -> Screen \cup Step \cup {"refused"}]
  /\ sid \in [Browser -> 0 .. rows]
  /\ \A b \in Browser :
       pc[b] \in {"look", "take", "fetch", "store", "fill", "answer", "board", "empty"}
       => sid[b] # 0

\* Only the lobby's request creates a session.
CreatorsOK == \A b \in Browser : Creating(b) => req[b].why = "create"

\* A session has keys in Redis only once it was inserted.
KeysOK ==
  /\ hash \in [Session -> Contents]
  /\ \A s \in Session : hash[s] # {} => s <= rows
  /\ timed \subseteq 1 .. rows /\ meta \subseteq 1 .. rows /\ slot \subseteq 1 .. rows

\* Every variable keeps its type, and browsers, keys and duplications are of
\* sessions that exist.
SessionsTypeOK ==
  /\ ado \in Contents
  /\ rows \in 0 .. MaxSessions
  /\ PlacesOK /\ CreatorsOK
  /\ KeysOK
  /\ req \in [Browser -> Requests]
  /\ sprints \in [Browser -> BOOLEAN]
  /\ pat \subseteq User
  /\ dup \in 0 .. rows
  /\ overlap \in BOOLEAN
  /\ events \in Nat

-----------------------------------------------------------------------------
(* What the users get *)

\* sessions.service.ts, "Une seule session par projet ADO : le second arrivant
\* rejoint celle du premier": the project gets a second session only when two
\* creations overlapped between the look-up and the insert, whatever requests
\* failed, keys expired or browsers came back.
OneSession == ~overlap => rows <= 1

\* "Ce projet Azure DevOps ne contient aucun work item" is not told of a project
\* that has some: an empty answer comes from an empty query, at some moment of the
\* request, or from a slot another sync held, never from an expired cache.
EmptyIsExplained == \A b \in Browser : pc[b] = "empty" => ~req[b].calm

\* A browser whose user goes on is never stuck: whatever failed, was refused or
\* deleted, it comes to a board or to the page of an empty project.
EveryoneLands == \A b \in Browser : []<>(pc[b] \in {"board", "empty"})

\* A session somebody keeps open heals: after expiries, failed syncs, lost slots and
\* partial caches, Redis ends with the iterations and exactly ADO's tickets.
Polled(s) == \E b \in Browser : sid[b] = s /\ (pc[b] = "board" \/ (pc[b] \in Step /\ req[b].why = "poll"))
CacheHeals ==
  \A s \in Session :
    <>[]Polled(s) => <>[](s \in meta /\ hash[s] = ado)
=============================================================================
