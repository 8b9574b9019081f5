------------------------------ MODULE Presence ------------------------------
(***************************************************************************)
(* Who is on the board: each browser tab shows the peers of its session,   *)
(* told by presence:sync, user-joined, broadcast and user-left, while      *)
(* connections drop, overlap and come back and the API restarts.           *)
(*                                                                         *)
(* A handler of PresenceHandler is a chain of Redis calls on the one       *)
(* ioredis connection of the process: the calls wait in one queue, and the *)
(* handler goes on when its call is answered.  A presence is its action,   *)
(* "idle" or "away" (no other is sent).  A socket is used once: a tab      *)
(* that reconnects takes a new one.  What the server sends reaches the     *)
(* tab at once: a socket keeps the order, and the presence:sync of the     *)
(* next connection replaces whatever a lost one swallowed.                 *)
(***************************************************************************)
EXTENDS Naturals, Sequences

CONSTANTS
  User,
  Tab,         \* browser tabs with the board of the session
  Conn,        \* Socket.IO sockets
  UserOf,      \* the user of a tab
  TabOf,       \* the tab that opens a socket
  None,        \* no presence, no socket
  MaxCalls,    \* bound: handlers under way together
  MaxEvents    \* bound: restarts of the API, tabs hidden for long or shown again

Action == {"idle", "away"}
Peers  == [User -> Action \cup {None}]

ASSUME PresenceAssumption ==
  /\ UserOf \in [Tab -> User]
  /\ TabOf \in [Conn -> Tab]
  /\ None \notin Action \cup Conn
  /\ {MaxCalls, MaxEvents} \subseteq Nat

VARIABLES
  opened,    \* tabs whose board is mounted
  cur,       \* the socket each tab is connected with
  out,       \* presence:update messages a socket carries to the server
  buffer,    \* those a tab emitted while it had no connection
  peers,     \* presence.store of each tab
  shown,     \* the action each tab last emitted
  used,      \* sockets that were opened
  up,        \* sockets the server holds
  checking,  \* sockets whose handleConnection waits for isSessionMember
  joined,    \* sockets with client.data set, in the room
  pipe,      \* Redis calls sent and not answered
  presence,  \* the session's presence hash in Redis
  blurred,   \* history: users whose sockets overlapped or left too early
  events

tabVars    == <<opened, cur, out, buffer, shown>>
serverVars == <<used, up, checking, joined>>
vars == <<tabVars, peers, serverVars, pipe, presence, blurred, events>>

Who(c) == UserOf[TabOf[c]]
NoPeers == [u \in User |-> None]

\* A call a handler waits for; "live" is what fetchSockets returned to it.
Call(c, name, action, live) ==
  [conn |-> c, name |-> name, action |-> action, live |-> live]

JoinCalls   == {"joinSet", "joinExpire", "joinAdd", "joinAddExpire", "joinGet"}
UpdateCalls == {"updateSet", "updateExpire"}
LeaveCalls  == {"leaveRemove", "leaveParticipant"}
StrayCalls  == {"straySet", "strayExpire"}

Send(call) == Len(pipe) < MaxCalls /\ pipe' = Append(pipe, call)

\* The reply to the oldest call lets its handler send the next one, or end.
Reply(name) == pipe # <<>> /\ Head(pipe).name = name
Then(call)  == pipe' = Append(Tail(pipe), call)
End         == pipe' = Tail(pipe)

\* client.to(room): the tabs connected to a socket of the room other than c.
Others(c) == {t \in Tab : cur[t] \in (up \cap joined) \ {c}}

\* updatePeer, addPeer and removePeer of presence.store, by the tabs that receive
\* the message: the peer's action becomes a, or None when the peer is removed.
Tell(tabs, u, a) ==
  peers' = [t \in Tab |-> IF t \in tabs THEN [peers[t] EXCEPT ![u] = a] ELSE peers[t]]

-----------------------------------------------------------------------------
(* The browser *)

TabStays == UNCHANGED <<serverVars, pipe, presence, blurred>>

\* The board is mounted: the socket is created, and trackAway emits "idle" before
\* the socket is connected.  (The presences of the snapshot are left out, as
\* presence:sync replaces them.)
Open(t) ==
  /\ t \notin opened
  /\ opened' = opened \cup {t}
  /\ buffer' = [buffer EXCEPT ![t] = <<"idle">>]
  /\ shown' = [shown EXCEPT ![t] = "idle"]
  /\ UNCHANGED <<cur, out, peers, events>> /\ TabStays

\* A tab without connection opens a socket, which carries what was buffered.
Connect(c) ==
  LET t == TabOf[c] IN
  /\ t \in opened /\ cur[t] = None /\ c \notin used
  /\ cur' = [cur EXCEPT ![t] = c]
  /\ out' = [out EXCEPT ![c] = buffer[t]]
  /\ buffer' = [buffer EXCEPT ![t] = <<>>]
  /\ used' = used \cup {c}
  /\ up' = up \cup {c}
  /\ checking' = checking \cup {c}
  /\ UNCHANGED <<opened, shown, peers, joined, pipe, presence, blurred,
                 events>>

\* The connection drops, and the last messages of the tab are lost with it.  The
\* server notices later.
Cut(t) ==
  LET c == cur[t] IN
  /\ c # None
  /\ cur' = [cur EXCEPT ![t] = None]
  /\ \E n \in 0 .. Len(out[c]) : out' = [out EXCEPT ![c] = SubSeq(@, 1, n)]
  /\ UNCHANGED <<opened, buffer, shown, peers, events>> /\ TabStays

\* The tab leaves the board: disconnectSocket.  (What its store held is replaced
\* when the board is opened again.)
Leave(t) ==
  /\ t \in opened
  /\ opened' = opened \ {t}
  /\ cur' = [cur EXCEPT ![t] = None]
  /\ buffer' = [buffer EXCEPT ![t] = <<>>]
  /\ shown' = [shown EXCEPT ![t] = "idle"]
  /\ peers' = [peers EXCEPT ![t] = NoPeers]
  /\ UNCHANGED <<out, events>> /\ TabStays

\* The tab was hidden for AWAY_MS, or is visible again.
Toggle(t) ==
  LET c == cur[t]
      a == IF shown[t] = "idle" THEN "away" ELSE "idle" IN
  /\ t \in opened /\ events < MaxEvents
  /\ events' = events + 1
  /\ shown' = [shown EXCEPT ![t] = a]
  /\ IF c = None
     THEN UNCHANGED out /\ buffer' = [buffer EXCEPT ![t] = Append(@, a)]
     ELSE UNCHANGED buffer /\ out' = [out EXCEPT ![c] = Append(@, a)]
  /\ UNCHANGED <<opened, cur, peers>> /\ TabStays

-----------------------------------------------------------------------------
(* The server: RealtimeGateway and PresenceHandler                         *)

ServerStays == UNCHANGED <<opened, cur, buffer, shown, events>>

\* isSessionMember answered: the identity is set, the room joined, and
\* handleJoin stores the presence; also for a socket that closed meanwhile.
JoinRoom(c) ==
  /\ c \in checking
  /\ checking' = checking \ {c}
  /\ joined' = joined \cup {c}
  /\ Send(Call(c, "joinSet", "idle", {}))
  /\ UNCHANGED <<out, peers, used, up, presence, blurred>> /\ ServerStays

JoinSet ==
  LET c == Head(pipe).conn IN
  /\ Reply("joinSet")
  /\ presence' = [presence EXCEPT ![Who(c)] = "idle"]
  /\ Then(Call(c, "joinExpire", "idle", {}))
  /\ UNCHANGED <<out, peers, serverVars, blurred>> /\ ServerStays

\* The expiry of the hash, the set of participants and its expiry.
JoinGoesOn ==
  LET c == Head(pipe).conn IN
  /\ \/ Reply("joinExpire") /\ Then(Call(c, "joinAdd", "idle", {}))
     \/ Reply("joinAdd") /\ Then(Call(c, "joinAddExpire", "idle", {}))
  /\ UNCHANGED <<out, peers, serverVars, presence, blurred>> /\ ServerStays

\* fetchSockets: the users with a socket in the room.
JoinFetch ==
  /\ Reply("joinAddExpire")
  /\ Then(Call(Head(pipe).conn, "joinGet", "idle",
               {Who(c) : c \in up \cap joined}))
  /\ UNCHANGED <<out, peers, serverVars, presence, blurred>> /\ ServerStays

\* presence:sync to the newcomer c, user-joined to the others.
Welcome(c, sync) ==
  peers' = [t \in Tab |->
    IF cur[t] = c THEN sync
    ELSE IF t \in Others(c) THEN [peers[t] EXCEPT ![Who(c)] = "idle"]
    ELSE peers[t]]

\* Faulty variant: the ghosts Redis kept are not filtered out.
JoinEndsUnfiltered ==
  /\ Reply("joinGet")
  /\ Welcome(Head(pipe).conn, presence)
  /\ End
  /\ UNCHANGED <<out, serverVars, presence, blurred>> /\ ServerStays

\* Of the stored presences the newcomer gets those of live users.
JoinEnds ==
  /\ Reply("joinGet")
  /\ Welcome(Head(pipe).conn,
             [u \in User |-> IF u \in Head(pipe).live THEN presence[u] ELSE None])
  /\ End
  /\ UNCHANGED <<out, serverVars, presence, blurred>> /\ ServerStays

\* Faulty variant: the session is taken from the handshake, before the check.
UpdateUnchecked(c) ==
  /\ out[c] # <<>>
  /\ out' = [out EXCEPT ![c] = Tail(@)]
  /\ Send(Call(c, "updateSet", Head(out[c]), {}))
  /\ UNCHANGED <<peers, serverVars, presence, blurred>> /\ ServerStays

\* handleUpdate has no guard on client.data: before it is set, the presence is
\* stored under session:undefined, with no user.
Update(c) ==
  /\ c \in up /\ out[c] # <<>>
  /\ out' = [out EXCEPT ![c] = Tail(@)]
  /\ Send(Call(c, IF c \in joined THEN "updateSet" ELSE "straySet",
               Head(out[c]), {}))
  /\ UNCHANGED <<peers, serverVars, presence, blurred>> /\ ServerStays

UpdateSet ==
  LET call == Head(pipe) IN
  /\ Reply("updateSet")
  /\ presence' = [presence EXCEPT ![Who(call.conn)] = call.action]
  /\ Then([call EXCEPT !.name = "updateExpire"])
  /\ UNCHANGED <<out, peers, serverVars, blurred>> /\ ServerStays

UpdateEnds ==
  LET call == Head(pipe) IN
  /\ Reply("updateExpire")
  /\ Tell(Others(call.conn), Who(call.conn), call.action)
  /\ End
  /\ UNCHANGED <<out, serverVars, presence, blurred>> /\ ServerStays

\* The two calls of an update without identity touch no session's hash, and the
\* broadcast goes to a room that has no socket.
Stray ==
  /\ \/ Reply("straySet") /\ Then([Head(pipe) EXCEPT !.name = "strayExpire"])
     \/ Reply("strayExpire") /\ End
  /\ UNCHANGED <<out, peers, serverVars, presence, blurred>> /\ ServerStays

\* The user has another socket that joined: the leave erases that one too.
Overlaps(c) == \E d \in (up \cap joined) \ {c} : Who(d) = Who(c)

\* The handler of the join of c has not ended.
Joining(c) ==
  \/ c \in checking
  \/ \E i \in 1 .. Len(pipe) : pipe[i].conn = c /\ pipe[i].name \in JoinCalls

\* The server notices that the socket is gone; handleLeave does nothing as long
\* as the socket has no identity.
Close(c) ==
  /\ c \in up /\ cur[TabOf[c]] # c
  /\ up' = up \ {c}
  /\ out' = [out EXCEPT ![c] = <<>>]
  /\ IF c \in joined
     THEN Send(Call(c, "leaveRemove", "idle", {}))
     ELSE UNCHANGED pipe
  /\ blurred' = IF Overlaps(c) \/ Joining(c) THEN blurred \cup {Who(c)} ELSE blurred
  /\ UNCHANGED <<peers, used, checking, joined, presence>> /\ ServerStays

LeaveRemove ==
  LET c == Head(pipe).conn IN
  /\ Reply("leaveRemove")
  /\ presence' = [presence EXCEPT ![Who(c)] = None]
  /\ Then(Call(c, "leaveParticipant", "idle", {}))
  /\ UNCHANGED <<out, peers, serverVars, blurred>> /\ ServerStays

LeaveEnds ==
  LET c == Head(pipe).conn IN
  /\ Reply("leaveParticipant")
  /\ Tell(Others(c), Who(c), None)
  /\ End
  /\ UNCHANGED <<out, serverVars, presence, blurred>> /\ ServerStays

HandlerStep ==
  \/ \E c \in Conn : JoinRoom(c) \/ Update(c) \/ Close(c)
  \/ JoinSet \/ JoinGoesOn \/ JoinFetch \/ JoinEnds
  \/ UpdateSet \/ UpdateEnds \/ Stray
  \/ LeaveRemove \/ LeaveEnds

\* The API process restarts: no handleLeave runs, Redis keeps the presences.
Crash ==
  /\ events < MaxEvents
  /\ events' = events + 1
  /\ cur' = [t \in Tab |-> None]
  /\ out' = [c \in Conn |-> <<>>]
  /\ up' = {} /\ checking' = {} /\ joined' = {}
  /\ pipe' = <<>>
  /\ blurred' = {}
  /\ UNCHANGED <<opened, buffer, shown, peers, used, presence>>

-----------------------------------------------------------------------------

Init ==
  /\ opened = {}
  /\ cur = [t \in Tab |-> None]
  /\ out = [c \in Conn |-> <<>>]
  /\ buffer = [t \in Tab |-> <<>>]
  /\ peers = [t \in Tab |-> NoPeers]
  /\ shown = [t \in Tab |-> "idle"]
  /\ used = {} /\ up = {} /\ checking = {} /\ joined = {}
  /\ pipe = <<>>
  /\ presence = NoPeers
  /\ blurred = {}
  /\ events = 0

Next ==
  \/ \E t \in Tab : Open(t) \/ Cut(t) \/ Leave(t) \/ Toggle(t)
  \/ \E c \in Conn : Connect(c)
  \/ HandlerStep
  \/ Crash

Spec == Init /\ [][Next]_vars

-----------------------------------------------------------------------------
(* Types *)

\* Every variable keeps its type; a tab is connected through a socket of its own
\* that the server holds, updates are under way on such sockets only, and only
\* sockets past the membership check have calls on the session under way.
PresenceTypeOK ==
  /\ opened \subseteq Tab
  /\ cur \in [Tab -> Conn \cup {None}]
  /\ \A t \in Tab : cur[t] # None => /\ t \in opened
                                     /\ cur[t] \in up /\ TabOf[cur[t]] = t
  /\ out \in [Conn -> Seq(Action)]
  /\ \A c \in Conn : out[c] # <<>> => c \in up
  /\ buffer \in [Tab -> Seq(Action)]
  /\ peers \in [Tab -> Peers]
  /\ shown \in [Tab -> Action]
  /\ used \subseteq Conn /\ up \subseteq used
  /\ checking \subseteq used \ joined /\ joined \subseteq used
  /\ up \subseteq joined \cup checking
  /\ pipe \in Seq([conn : Conn, action : Action, live : SUBSET User,
                   name : JoinCalls \cup UpdateCalls \cup LeaveCalls \cup StrayCalls])
  /\ \A i \in 1 .. Len(pipe) : pipe[i].conn \in joined \/ pipe[i].name \in StrayCalls
  /\ presence \in Peers
  /\ blurred \subseteq User
  /\ events \in Nat

-----------------------------------------------------------------------------
(* What the tabs show *)

\* Every board is connected, and nothing is under way.
Quiescent ==
  /\ pipe = <<>> /\ checking = {}
  /\ up = {cur[t] : t \in opened} \ {None}
  /\ \A t \in opened : cur[t] # None
  /\ \A c \in Conn : out[c] = <<>>

Online(u) == \E t \in opened : UserOf[t] = u

\* Once everything under way has arrived, every tab shows exactly the other users
\* who have the board open, whatever joins, leaves and updates crossed,
\* connections dropped and restarts left ghosts in Redis, except for users
\* whose sockets overlapped on the server or closed while they joined.
PeersSettle ==
  Quiescent =>
    \A t \in opened : \A u \in User \ (blurred \cup {UserOf[t]}) :
      peers[t][u] # None <=> Online(u)

-----------------------------------------------------------------------------
(* Why it holds: the invariants the proofs carry along *)

\* The sockets of the room.
Room == up \cap joined

\* A handler of c waits for one of these calls; it does behind the i-th call.
Waits(c, names) ==
  \E i \in 1 .. Len(pipe) : pipe[i].conn = c /\ pipe[i].name \in names

WaitsBehind(i, c, name) ==
  \E j \in 1 .. Len(pipe) : i < j /\ pipe[j].conn = c /\ pipe[j].name = name

\* A user who left and came back: each call of the leave is ahead of the same step
\* of the join.
JoinsBehindLeaves ==
  \A i \in 1 .. Len(pipe) : \A d \in Room :
    Who(pipe[i].conn) = Who(d) /\ Who(d) \notin blurred =>
      /\ pipe[i].name = "leaveRemove" => WaitsBehind(i, d, "joinSet")
      /\ pipe[i].name = "leaveParticipant" =>
           Waits(d, {"joinSet"}) \/ WaitsBehind(i, d, "joinExpire")

\* The last update of a socket is ahead of its leave.
LeavesBehindUpdates ==
  \A i \in 1 .. Len(pipe) :
    pipe[i].conn \notin up =>
      /\ pipe[i].name = "updateSet" => WaitsBehind(i, pipe[i].conn, "leaveRemove")
      /\ pipe[i].name = "updateExpire" =>
           \/ Waits(pipe[i].conn, {"leaveRemove"})
           \/ WaitsBehind(i, pipe[i].conn, "leaveParticipant")

\* A socket of the room has its user's presence in Redis, or is about to store it.
PresenceKept ==
  \A d \in Room :
    Who(d) \notin blurred => Waits(d, {"joinSet"}) \/ presence[Who(d)] # None

\* What fetchSockets returned misses only users who store their presence after the
\* newcomer reads the presences, and only users who leave after it are gone.
FetchesInOrder ==
  \A i \in 1 .. Len(pipe) :
    pipe[i].name = "joinGet" =>
      /\ \A d \in Room : Who(d) \in pipe[i].live \/ WaitsBehind(i, d, "joinSet")
      /\ \A u \in pipe[i].live : \E d \in Conn :
           Who(d) = u /\ (d \in Room \/ WaitsBehind(i, d, "leaveRemove"))

\* A socket that closed while it joined blurs its user.
GhostsBlurred ==
  \A c \in Conn \ up : c \in checking \/ Waits(c, JoinCalls) => Who(c) \in blurred

\* A tab whose join has ended shows the users whose join has ended, and of those
\* who are gone only users whose leave is under way.
TabsInStep ==
  \A t \in Tab : \A u \in User \ (blurred \cup {UserOf[t]}) :
    cur[t] \in joined /\ ~Waits(cur[t], JoinCalls) =>
      /\ \A d \in Room : Who(d) = u /\ ~Waits(d, JoinCalls) => peers[t][u] # None
      /\ peers[t][u] # None =>
           \E d \in Conn : Who(d) = u /\ (d \in Room \/ Waits(d, LeaveCalls))

PresenceInv ==
  /\ JoinsBehindLeaves /\ LeavesBehindUpdates /\ PresenceKept
  /\ FetchesInOrder /\ GhostsBlurred /\ TabsInStep
=============================================================================
