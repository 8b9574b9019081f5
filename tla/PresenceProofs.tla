--------------------------- MODULE PresenceProofs ---------------------------
(***************************************************************************)
(* Proofs about Presence: once nothing is under way each tab shows exactly *)
(* the others who have the board open, for any users, tabs, sockets,       *)
(* handlers under way together and restarts.                               *)
(***************************************************************************)
EXTENDS Presence, SequenceTheorems, TLAPS

-----------------------------------------------------------------------------
(* The queue of Redis calls *)

CallNames == JoinCalls \cup UpdateCalls \cup LeaveCalls \cup StrayCalls

Calls == [conn : Conn, name : CallNames, action : Action, live : SUBSET User]

\* A call on the session is one of a joined socket.
Identified(call, sockets) == call.conn \in sockets \/ call.name \in {"straySet", "strayExpire"}

\* The pipe loses its first k calls and gains those of new at its end.
PipeStep(k, new) ==
  /\ k \in {0, 1} /\ k <= Len(pipe) /\ Len(pipe) \in Nat /\ Len(pipe') \in Nat
  /\ \A i \in 1 .. Len(pipe) - k : i \in 1 .. Len(pipe') /\ pipe'[i] = pipe[i + k]
  /\ \A i \in 1 .. Len(pipe') : i \in 1 .. Len(pipe) - k \/ pipe'[i] \in new
  /\ \A call \in new : \E i \in 1 .. Len(pipe') : i > Len(pipe) - k /\ pipe'[i] = call

LEMMA PipeSent ==
  ASSUME PresenceTypeOK, NEW call \in Calls, Send(call)
  PROVE  PipeStep(0, {call})
<1>1. pipe \in Seq(Calls) /\ pipe' = Append(pipe, call)
  BY DEF PresenceTypeOK, Calls, CallNames, Send
<1>2. Len(pipe') = Len(pipe) + 1 /\ pipe'[Len(pipe) + 1] = call /\ Len(pipe) \in Nat
  BY <1>1
<1>3. \A i \in 1 .. Len(pipe) : pipe'[i] = pipe[i]
  BY <1>1
<1>. QED  BY <1>2, <1>3 DEF PipeStep

LEMMA PipeAdvanced ==
  ASSUME PresenceTypeOK, NEW call \in Calls, pipe # <<>>, Then(call)
  PROVE  PipeStep(1, {call})
<1>1. pipe \in Seq(Calls) /\ Tail(pipe) \in Seq(Calls) /\ pipe' = Append(Tail(pipe), call)
  BY DEF PresenceTypeOK, Calls, CallNames, Then
<1>2. /\ Len(pipe) \in Nat \ {0} /\ Len(pipe') = Len(pipe) /\ pipe'[Len(pipe)] = call
      /\ \A i \in 1 .. Len(pipe) - 1 : pipe'[i] = pipe[i + 1]
  BY <1>1
<1>. QED  BY <1>2 DEF PipeStep

LEMMA PipeEnded ==
  ASSUME PresenceTypeOK, pipe # <<>>, End
  PROVE  PipeStep(1, {})
<1>1. pipe \in Seq(Calls) /\ pipe' = Tail(pipe)
  BY DEF PresenceTypeOK, Calls, CallNames, End
<1>2. /\ Len(pipe) \in Nat \ {0} /\ Len(pipe') = Len(pipe) - 1
      /\ \A i \in 1 .. Len(pipe) - 1 : pipe'[i] = pipe[i + 1]
  BY <1>1
<1>. QED  BY <1>2 DEF PipeStep

\* A call that waits goes on waiting until it is the first and is answered.
LEMMA WaitsStep ==
  ASSUME NEW k, NEW new, PipeStep(k, new), NEW c, NEW names
  PROVE  /\ Waits(c, names) => \/ Waits(c, names)'
                               \/ k = 1 /\ pipe[1].conn = c /\ pipe[1].name \in names
         /\ Waits(c, names)' => \/ Waits(c, names)
                                \/ \E call \in new : call.conn = c /\ call.name \in names
         /\ \A call \in new : call.conn = c /\ call.name \in names => Waits(c, names)'
<1>1. ASSUME NEW i \in 1 .. Len(pipe), pipe[i].conn = c, pipe[i].name \in names,
             ~(k = 1 /\ i = 1)
      PROVE  Waits(c, names)'
  <2>1. i - k \in 1 .. Len(pipe) - k /\ (i - k) + k = i
    BY <1>1 DEF PipeStep
  <2>2. i - k \in 1 .. Len(pipe') /\ pipe'[i - k] = pipe[i]
    BY <2>1 DEF PipeStep
  <2>. QED  BY <1>1, <2>2 DEF Waits
<1>2. ASSUME NEW i \in 1 .. Len(pipe'), pipe'[i].conn = c, pipe'[i].name \in names
      PROVE  Waits(c, names) \/ \E call \in new : call.conn = c /\ call.name \in names
  <2>1. CASE i \in 1 .. Len(pipe) - k
    <3>1. i + k \in 1 .. Len(pipe) /\ pipe'[i] = pipe[i + k]
      BY <2>1 DEF PipeStep
    <3>. QED  BY <1>2, <3>1 DEF Waits
  <2>2. CASE pipe'[i] \in new
    BY <1>2, <2>2
  <2>. QED  BY <2>1, <2>2 DEF PipeStep
<1>3. \A call \in new : call.conn = c /\ call.name \in names => Waits(c, names)'
  BY DEF PipeStep, Waits
<1>. QED  BY <1>1, <1>2, <1>3 DEF Waits

\* The calls keep their order; a new one is behind all others.
LEMMA BehindStep ==
  ASSUME NEW k, NEW new, PipeStep(k, new), NEW c, NEW name
  PROVE  /\ \A i \in 1 .. Len(pipe) - k : WaitsBehind(i + k, c, name) => WaitsBehind(i, c, name)'
         /\ WaitsBehind(1, c, name) => Waits(c, {name})'
         /\ \A call \in new : call.conn = c /\ call.name = name =>
              \A i \in 1 .. Len(pipe) - k : WaitsBehind(i, c, name)'
<1>1. ASSUME NEW i \in 0 .. Len(pipe) - k, NEW j \in 1 .. Len(pipe), i + k < j
      PROVE  j - k \in 1 .. Len(pipe') /\ pipe'[j - k] = pipe[j] /\ i < j - k
  <2>1. j - k \in 1 .. Len(pipe) - k /\ (j - k) + k = j /\ i < j - k
    BY <1>1 DEF PipeStep
  <2>. QED  BY <2>1 DEF PipeStep
<1>2. \A i \in 1 .. Len(pipe) - k : WaitsBehind(i + k, c, name) => WaitsBehind(i, c, name)'
  BY <1>1 DEF WaitsBehind, PipeStep
<1>3. WaitsBehind(1, c, name) => Waits(c, {name})'
  <2>. SUFFICES ASSUME NEW j \in 1 .. Len(pipe), 1 < j, pipe[j].conn = c, pipe[j].name = name
                PROVE  Waits(c, {name})'
    BY DEF WaitsBehind
  <2>1. 0 \in 0 .. Len(pipe) - k /\ 0 + k < j
    BY DEF PipeStep
  <2>2. j - k \in 1 .. Len(pipe') /\ pipe'[j - k] = pipe[j]
    BY <1>1, <2>1
  <2>. QED  BY <2>2 DEF Waits
<1>4. ASSUME NEW call \in new, call.conn = c, call.name = name
      PROVE  \A i \in 1 .. Len(pipe) - k : WaitsBehind(i, c, name)'
  <2>1. PICK j \in 1 .. Len(pipe') : j > Len(pipe) - k /\ pipe'[j] = call
    BY DEF PipeStep
  <2>2. \A i \in 1 .. Len(pipe) - k : i < j
    BY <2>1 DEF PipeStep
  <2>. QED  BY <1>4, <2>1, <2>2 DEF WaitsBehind
<1>. QED  BY <1>2, <1>3, <1>4

-----------------------------------------------------------------------------
(* Types *)

\* The pipe stays well typed when what enters it is a call of a joined socket, or a stray one.
LEMMA PipeType ==
  ASSUME PresenceTypeOK, NEW call \in Calls, Identified(call, joined'), joined \subseteq joined',
         \/ Send(call)
         \/ pipe # <<>> /\ (Then(call) \/ End)
  PROVE  pipe' \in Seq(Calls) /\ \A i \in 1 .. Len(pipe') : Identified(pipe'[i], joined')
<1>1. pipe \in Seq(Calls) /\ \A i \in 1 .. Len(pipe) : Identified(pipe[i], joined)
  BY DEF PresenceTypeOK, Calls, CallNames, StrayCalls, Identified
<1>2. CASE Send(call)
  <2>1. pipe' \in Seq(Calls) /\ PipeStep(0, {call})
    BY <1>1, <1>2, PipeSent DEF Send
  <2>. QED  BY <1>1, <2>1 DEF PipeStep, Identified
<1>3. CASE pipe # <<>> /\ Then(call)
  <2>1. pipe' \in Seq(Calls) /\ PipeStep(1, {call})
    BY <1>1, <1>3, PipeAdvanced DEF Then
  <2>2. \A i \in 1 .. Len(pipe) - 1 : i + 1 \in 1 .. Len(pipe)
    BY <1>1
  <2>. QED  BY <1>1, <2>1, <2>2 DEF PipeStep, Identified
<1>4. CASE pipe # <<>> /\ End
  <2>1. pipe' \in Seq(Calls) /\ PipeStep(1, {})
    BY <1>1, <1>4, PipeEnded DEF End
  <2>2. \A i \in 1 .. Len(pipe) - 1 : i + 1 \in 1 .. Len(pipe)
    BY <1>1
  <2>. QED  BY <1>1, <2>1, <2>2 DEF PipeStep, Identified
<1>. QED  BY <1>2, <1>3, <1>4

\* The oldest call is one of a joined socket, or a stray one.
LEMMA HeadType ==
  ASSUME PresenceTypeOK, pipe # <<>>
  PROVE  /\ Head(pipe) \in Calls /\ Head(pipe) = pipe[1] /\ 1 \in 1 .. Len(pipe)
         /\ Identified(Head(pipe), joined) /\ Who(Head(pipe).conn) \in User
<1>1. pipe \in Seq(Calls) /\ \A i \in 1 .. Len(pipe) : Identified(pipe[i], joined)
  BY DEF PresenceTypeOK, Calls, CallNames, StrayCalls, Identified
<1>2. Head(pipe) \in Calls /\ Head(pipe) = pipe[1] /\ 1 \in 1 .. Len(pipe)
  BY <1>1
<1>. QED  BY <1>1, <1>2, PresenceAssumption DEF Calls, Who

\* What the tabs are told keeps their peers well typed.
LEMMA TellType ==
  ASSUME PresenceTypeOK, NEW tabs, NEW u \in User, NEW a \in Action \cup {None}, Tell(tabs, u, a)
  PROVE  peers' \in [Tab -> Peers]
<1>1. \A t \in Tab : [peers[t] EXCEPT ![u] = a] \in Peers
  BY DEF PresenceTypeOK, Peers
<1>. QED  BY <1>1 DEF Tell, PresenceTypeOK

\* The steps of the browser keep the types.
LEMMA TypeTab ==
  ASSUME PresenceTypeOK,
         \/ \E t \in Tab : Open(t) \/ Cut(t) \/ Leave(t) \/ Toggle(t)
         \/ \E c \in Conn : Connect(c)
  PROVE  PresenceTypeOK'
<1>. USE PresenceAssumption
<1>1. ASSUME NEW t \in Tab, Open(t) PROVE PresenceTypeOK'
  <2>1. <<"idle">> \in Seq(Action) /\ "idle" \in Action
    BY DEF Action
  <2>. QED  BY <1>1, <2>1 DEF Open, TabStays, serverVars, PresenceTypeOK
<1>2. ASSUME NEW t \in Tab, Cut(t) PROVE PresenceTypeOK'
  <2>. DEFINE c == cur[t]
  <2>1. c \in Conn /\ out[c] \in Seq(Action)
    BY <1>2 DEF Cut, PresenceTypeOK
  <2>2. PICK n \in 0 .. Len(out[c]) : out' = [out EXCEPT ![c] = SubSeq(@, 1, n)]
    BY <1>2 DEF Cut
  <2>3. SubSeq(out[c], 1, n) \in Seq(Action) /\ (out[c] = <<>> => SubSeq(out[c], 1, n) = <<>>)
    <3>1. 1 \in Int /\ n \in Int /\ \A i \in 1 .. n : out[c][i] \in Action
      BY <2>1
    <3>2. out[c] = <<>> => n < 1
      BY <2>1
    <3>. QED  BY <2>1, <3>1, <3>2, SubSeqProperties, SubSeqEmpty
  <2>4. out' \in [Conn -> Seq(Action)] /\ \A d \in Conn : out'[d] # <<>> => d \in up
    BY <2>2, <2>3 DEF PresenceTypeOK
  <2>5. cur' = [cur EXCEPT ![t] = None]
    BY <1>2 DEF Cut
  <2>. QED  BY <1>2, <2>4, <2>5 DEF Cut, TabStays, serverVars, PresenceTypeOK
<1>3. ASSUME NEW t \in Tab, Leave(t) PROVE PresenceTypeOK'
  <2>1. <<>> \in Seq(Action) /\ "idle" \in Action /\ NoPeers \in Peers
    BY DEF Action, NoPeers, Peers
  <2>. QED  BY <1>3, <2>1 DEF Leave, TabStays, serverVars, PresenceTypeOK
<1>4. ASSUME NEW t \in Tab, Toggle(t) PROVE PresenceTypeOK'
  <2>. DEFINE c == cur[t]
              a == IF shown[t] = "idle" THEN "away" ELSE "idle"
  <2>1. a \in Action
    BY DEF Action
  <2>3. shown' = [shown EXCEPT ![t] = a] /\ events' = events + 1
    BY <1>4 DEF Toggle
  <2>4. UNCHANGED <<opened, cur, peers, serverVars, pipe, presence, blurred>>
    BY <1>4 DEF Toggle, TabStays
  <2>5. shown' \in [Tab -> Action] /\ events' \in Nat
    BY <2>1, <2>3 DEF PresenceTypeOK
  <2>2. CASE c = None
    <3>1. Append(buffer[t], a) \in Seq(Action)
      BY <2>1 DEF PresenceTypeOK
    <3>2. buffer' = [buffer EXCEPT ![t] = Append(@, a)] /\ UNCHANGED out
      BY <1>4, <2>2 DEF Toggle
    <3>3. buffer' \in [Tab -> Seq(Action)]
      BY <3>1, <3>2 DEF PresenceTypeOK
    <3>. QED  BY <2>4, <2>5, <3>2, <3>3 DEF serverVars, PresenceTypeOK
  <2>6. CASE c # None
    <3>1. c \in Conn /\ c \in up /\ Append(out[c], a) \in Seq(Action)
      BY <2>1, <2>6 DEF PresenceTypeOK
    <3>2. out' = [out EXCEPT ![c] = Append(@, a)] /\ UNCHANGED buffer
      BY <1>4, <2>6 DEF Toggle
    <3>3. out' \in [Conn -> Seq(Action)] /\ \A d \in Conn : out'[d] # <<>> => d \in up
      BY <3>1, <3>2 DEF PresenceTypeOK
    <3>. QED  BY <2>4, <2>5, <3>2, <3>3 DEF serverVars, PresenceTypeOK
  <2>. QED  BY <2>2, <2>6
<1>5. ASSUME NEW c \in Conn, Connect(c) PROVE PresenceTypeOK'
  <2>. DEFINE t == TabOf[c]
  <2>1. t \in Tab /\ t \in opened /\ cur[t] = None /\ c \notin used
    BY <1>5 DEF Connect
  <2>2. /\ <<>> \in Seq(Action) /\ buffer[t] \in Seq(Action)
    BY <2>1 DEF PresenceTypeOK
  <2>3. out' \in [Conn -> Seq(Action)] /\ \A d \in Conn : out'[d] # <<>> => d \in up'
    BY <1>5, <2>2 DEF Connect, PresenceTypeOK
  <2>4. /\ cur' \in [Tab -> Conn \cup {None}]
        /\ \A u \in Tab : cur'[u] # None => /\ u \in opened /\ cur'[u] \in up'
                                            /\ TabOf[cur'[u]] = u
    BY <1>5, <2>1 DEF Connect, PresenceTypeOK
  <2>5. /\ used' \subseteq Conn /\ up' \subseteq used' /\ checking' \subseteq used' \ joined
        /\ joined \subseteq used'
    BY <1>5, <2>1 DEF Connect, PresenceTypeOK
  <2>6. buffer' \in [Tab -> Seq(Action)]
    BY <1>5, <2>2 DEF Connect, PresenceTypeOK
  <2>. QED  BY <1>5, <2>3, <2>4, <2>5, <2>6 DEF Connect, PresenceTypeOK
<1>. QED  BY <1>1, <1>2, <1>3, <1>4, <1>5

\* The steps of the handlers keep the types.
LEMMA TypeHandlers ==
  ASSUME PresenceTypeOK, HandlerStep
  PROVE  PresenceTypeOK'
<1>. USE PresenceAssumption
<1>. DEFINE h == Head(pipe)
<1>1. ASSUME NEW c \in Conn, JoinRoom(c) PROVE PresenceTypeOK'
  <2>. DEFINE call == Call(c, "joinSet", "idle", {})
  <2>1. call \in Calls /\ call.conn = c
    BY DEF Call, Calls, CallNames, JoinCalls, Action
  <2>2. joined' = joined \cup {c} /\ Send(call)
    BY <1>1 DEF JoinRoom
  <2>3. pipe' \in Seq(Calls) /\ \A i \in 1 .. Len(pipe') : Identified(pipe'[i], joined')
    BY <2>1, <2>2, PipeType DEF Identified
  <2>. QED  BY <1>1, <2>3 DEF JoinRoom, ServerStays, Calls, CallNames, StrayCalls, Identified, PresenceTypeOK
<1>2. ASSUME NEW c \in Conn, Update(c) PROVE PresenceTypeOK'
  <2>1. out[c] \in Seq(Action) /\ out[c] # <<>>
    BY <1>2 DEF Update, PresenceTypeOK
  <2>2. Head(out[c]) \in Action /\ Tail(out[c]) \in Seq(Action)
    BY <2>1
  <2>. DEFINE call == Call(c, IF c \in joined THEN "updateSet" ELSE "straySet", Head(out[c]), {})
  <2>3. call \in Calls /\ Identified(call, joined)
    BY <2>2 DEF Call, Calls, CallNames, UpdateCalls, StrayCalls, Identified
  <2>4. joined' = joined /\ Send(call)
    BY <1>2 DEF Update, serverVars
  <2>5. pipe' \in Seq(Calls) /\ \A i \in 1 .. Len(pipe') : Identified(pipe'[i], joined')
    BY <2>3, <2>4, PipeType
  <2>6. out' \in [Conn -> Seq(Action)] /\ \A d \in Conn : out'[d] # <<>> => d \in up
    BY <1>2, <2>2 DEF Update, PresenceTypeOK
  <2>7. UNCHANGED <<opened, cur, buffer, shown, events, peers, serverVars, presence, blurred>>
    BY <1>2 DEF Update, ServerStays
  <2>. QED  BY <2>5, <2>6, <2>7 DEF serverVars, Calls, CallNames, StrayCalls, Identified, PresenceTypeOK
<1>3. ASSUME NEW c \in Conn, Close(c) PROVE PresenceTypeOK'
  <2>. DEFINE call == Call(c, "leaveRemove", "idle", {})
  <2>1. call \in Calls /\ call.conn = c
    BY DEF Call, Calls, CallNames, LeaveCalls, Action
  <2>2. /\ joined' = joined
        /\ (Send(call) /\ c \in joined) \/ pipe' = pipe
    BY <1>3 DEF Close
  <2>3. pipe' \in Seq(Calls) /\ \A i \in 1 .. Len(pipe') : Identified(pipe'[i], joined')
    <3>1. CASE Send(call) /\ c \in joined
      BY <2>1, <2>2, <3>1, PipeType DEF Identified
    <3>2. CASE pipe' = pipe
      BY <2>1, <2>2, <3>2 DEF PresenceTypeOK, Calls, CallNames, Identified, StrayCalls
    <3>. QED  BY <2>2, <3>1, <3>2
  <2>4. <<>> \in Seq(Action) /\ Who(c) \in User
    BY DEF Who
  <2>5. out' \in [Conn -> Seq(Action)] /\ \A d \in Conn : out'[d] # <<>> => d \in up'
    BY <1>3, <2>4 DEF Close, PresenceTypeOK
  <2>6. \A t \in Tab : cur[t] # None => cur[t] \in up'
    BY <1>3 DEF Close, PresenceTypeOK
  <2>7. blurred' \subseteq User /\ up' \subseteq used
    BY <1>3, <2>4 DEF Close, PresenceTypeOK
  <2>8. UNCHANGED <<opened, cur, buffer, shown, events, peers, used, checking, joined, presence>>
    BY <1>3 DEF Close, ServerStays
  <2>9. up' \subseteq joined \cup checking
    BY <1>3 DEF Close, PresenceTypeOK
  <2>. QED  BY <2>3, <2>5, <2>6, <2>7, <2>8, <2>9 DEF Calls, CallNames, StrayCalls, Identified, PresenceTypeOK
<1>4. ASSUME NEW call \in Calls, pipe # <<>>, Identified(call, joined), Then(call) \/ End,
             UNCHANGED <<opened, cur, buffer, shown, events, out, serverVars, blurred>>,
             peers' \in [Tab -> Peers], presence' \in Peers
      PROVE  PresenceTypeOK'
  <2>1. pipe' \in Seq(Calls) /\ \A i \in 1 .. Len(pipe') : Identified(pipe'[i], joined')
    BY <1>4, PipeType DEF serverVars
  <2>. QED  BY <1>4, <2>1 DEF serverVars, Calls, CallNames, StrayCalls, Identified, PresenceTypeOK
<1>5. /\ "idle" \in Action /\ None \in Action \cup {None}
      /\ peers \in [Tab -> Peers] /\ presence \in Peers
  BY DEF Action, PresenceTypeOK
<1>6. CASE JoinSet
  <2>1. pipe # <<>> /\ h.name = "joinSet" /\ Then(Call(h.conn, "joinExpire", "idle", {}))
    BY <1>6 DEF JoinSet, Reply
  <2>2. Call(h.conn, "joinExpire", "idle", {}) \in Calls /\ h.conn \in joined
    BY <1>5, <2>1, HeadType DEF Identified, Call, Calls, CallNames, JoinCalls
  <2>3. presence' \in Peers
    BY <1>5, <1>6, <2>1, HeadType DEF Identified, JoinSet, Peers
  <2>. QED  BY <1>4, <1>5, <1>6, <2>1, <2>2, <2>3 DEF JoinSet, ServerStays, Identified, Call
<1>7. CASE JoinGoesOn
  <2>1. PICK name \in {"joinAdd", "joinAddExpire"} :
          /\ pipe # <<>> /\ h.name \in {"joinExpire", "joinAdd"}
          /\ Then(Call(h.conn, name, "idle", {}))
    BY <1>7 DEF JoinGoesOn, Reply
  <2>2. Call(h.conn, name, "idle", {}) \in Calls /\ h.conn \in joined
    BY <1>5, <2>1, HeadType DEF Identified, Call, Calls, CallNames, JoinCalls
  <2>. QED  BY <1>4, <1>5, <1>7, <2>1, <2>2 DEF JoinGoesOn, ServerStays, Identified, Call
<1>8. CASE JoinFetch
  <2>. DEFINE live == {Who(c) : c \in up \cap joined}
  <2>1. pipe # <<>> /\ h.name = "joinAddExpire" /\ Then(Call(h.conn, "joinGet", "idle", live))
    BY <1>8 DEF JoinFetch, Reply
  <2>2. live \in SUBSET User
    BY DEF PresenceTypeOK, Who
  <2>3. Call(h.conn, "joinGet", "idle", live) \in Calls /\ h.conn \in joined
    BY <1>5, <2>1, <2>2, HeadType DEF Identified, Call, Calls, CallNames, JoinCalls
  <2>. QED  BY <1>4, <1>5, <1>8, <2>1, <2>3 DEF JoinFetch, ServerStays, Identified, Call
<1>9. CASE JoinEnds
  <2>. DEFINE sync == [u \in User |-> IF u \in h.live THEN presence[u] ELSE None]
  <2>1. pipe # <<>> /\ h \in Calls /\ h.conn \in joined /\ Who(h.conn) \in User /\ End
    BY <1>9, HeadType DEF Identified, JoinEnds, Reply
  <2>2. sync \in Peers /\ \A t \in Tab : [peers[t] EXCEPT ![Who(h.conn)] = "idle"] \in Peers
    BY <1>5, <2>1 DEF Peers
  <2>3. Welcome(h.conn, sync)
    BY <1>9 DEF JoinEnds
  <2>4. peers' \in [Tab -> Peers]
    BY <1>5, <2>2, <2>3 DEF Welcome
  <2>. QED  BY <1>4, <1>5, <1>9, <2>1, <2>4 DEF JoinEnds, ServerStays, Identified
<1>10. CASE UpdateSet
  <2>1. pipe # <<>> /\ h \in Calls /\ h.conn \in joined /\ Who(h.conn) \in User
    BY <1>10, HeadType DEF Identified, UpdateSet, Reply
  <2>2. [h EXCEPT !.name = "updateExpire"] \in Calls
        /\ [h EXCEPT !.name = "updateExpire"].conn = h.conn
    <3>1. \A call \in Calls : /\ [call EXCEPT !.name = "updateExpire"] \in Calls
                              /\ [call EXCEPT !.name = "updateExpire"].conn = call.conn
      BY DEF Calls, CallNames, UpdateCalls
    <3>. QED  BY <2>1, <3>1
  <2>3. presence' \in Peers
    BY <1>5, <1>10, <2>1 DEF UpdateSet, Peers, Calls
  <2>. QED  BY <1>4, <1>5, <1>10, <2>1, <2>2, <2>3 DEF UpdateSet, ServerStays, Identified
<1>11. CASE UpdateEnds
  <2>1. pipe # <<>> /\ h \in Calls /\ h.conn \in joined /\ Who(h.conn) \in User
    BY <1>11, HeadType DEF Identified, UpdateEnds, Reply
  <2>2. peers' \in [Tab -> Peers]
    BY <1>11, <2>1, TellType DEF UpdateEnds, Calls
  <2>. QED  BY <1>4, <1>5, <1>11, <2>1, <2>2 DEF UpdateEnds, ServerStays, Identified
<1>12. CASE LeaveRemove
  <2>1. /\ pipe # <<>> /\ h.name = "leaveRemove"
        /\ Then(Call(h.conn, "leaveParticipant", "idle", {}))
    BY <1>12 DEF LeaveRemove, Reply
  <2>2. Call(h.conn, "leaveParticipant", "idle", {}) \in Calls /\ h.conn \in joined
    BY <1>5, <2>1, HeadType DEF Identified, Call, Calls, CallNames, LeaveCalls
  <2>3. presence' \in Peers
    BY <1>5, <1>12, <2>1, HeadType DEF Identified, LeaveRemove, Peers
  <2>. QED  BY <1>4, <1>5, <1>12, <2>1, <2>2, <2>3 DEF LeaveRemove, ServerStays, Identified, Call
<1>13. CASE LeaveEnds
  <2>1. pipe # <<>> /\ h \in Calls /\ h.conn \in joined /\ Who(h.conn) \in User
    BY <1>13, HeadType DEF Identified, LeaveEnds, Reply
  <2>2. peers' \in [Tab -> Peers]
    BY <1>5, <1>13, <2>1, TellType DEF LeaveEnds
  <2>. QED  BY <1>4, <1>5, <1>13, <2>1, <2>2 DEF LeaveEnds, ServerStays, Identified
<1>14. CASE Stray
  <2>1. pipe # <<>> /\ h \in Calls
    BY <1>14, HeadType DEF Stray, Reply
  <2>2. ASSUME NEW call \in Calls
        PROVE  /\ [call EXCEPT !.name = "strayExpire"] \in Calls
               /\ Identified([call EXCEPT !.name = "strayExpire"], joined)
    BY DEF Calls, CallNames, StrayCalls, Identified
  <2>3. Then([h EXCEPT !.name = "strayExpire"]) \/ End
    BY <1>14 DEF Stray
  <2>. QED  BY <1>4, <1>5, <1>14, <2>1, <2>2, <2>3 DEF Stray, ServerStays
<1>. QED
  BY <1>1, <1>2, <1>3, <1>6, <1>7, <1>8, <1>9, <1>10, <1>11, <1>12, <1>13, <1>14
     DEF HandlerStep

\* Every variable keeps its type; a tab is connected through a socket of its own that
\* the server holds, and only sockets past the membership check have calls on the session under way.
THEOREM PresenceTypes == Spec => []PresenceTypeOK
<1>1. Init => PresenceTypeOK
  <2>. SUFFICES ASSUME Init PROVE PresenceTypeOK
    OBVIOUS
  <2>1. <<>> \in Seq(Action) /\ "idle" \in Action /\ NoPeers \in Peers /\ Len(<<>>) = 0
        /\ <<>> \in Seq(Calls)
    BY DEF Action, NoPeers, Peers
  <2>. QED  BY <2>1 DEF Init, PresenceTypeOK, Calls, CallNames
<1>2. PresenceTypeOK /\ Crash => PresenceTypeOK'
  <2>. SUFFICES ASSUME PresenceTypeOK, Crash PROVE PresenceTypeOK'
    OBVIOUS
  <2>1. <<>> \in Seq(Action) /\ Len(<<>>) = 0 /\ <<>> \in Seq(Calls)
    OBVIOUS
  <2>. QED  BY <2>1 DEF Crash, PresenceTypeOK, Calls, CallNames
<1>3. PresenceTypeOK /\ UNCHANGED vars => PresenceTypeOK'
  BY DEF vars, tabVars, serverVars, PresenceTypeOK
<1>4. PresenceTypeOK /\ [Next]_vars => PresenceTypeOK'
  BY <1>2, <1>3, TypeTab, TypeHandlers DEF Next
<1>. QED  BY <1>1, <1>4, PTL DEF Spec

-----------------------------------------------------------------------------
(* The order of the calls *)

Enters(new, c, names) == \E call \in new : call.conn = c /\ call.name \in names

\* The call of a handler that is behind the answered one.
Next1(call, from) == pipe[1].conn = call.conn /\ pipe[1].name \in from

\* What each step but a restart does to the queue: it answers k calls and sends
\* those of new.  A handler goes on in its own order, a socket joins and leaves the
\* room only with the first call of its join or of its leave.
Pipeline(k, new) ==
  /\ PipeStep(k, new)
  /\ blurred \subseteq blurred' /\ joined \subseteq joined'
  /\ \A c \in joined' : c \notin joined \/ c \in up' \ up => Enters(new, c, {"joinSet"})
  /\ \A c \in joined : c \in up \ up' => Enters(new, c, {"leaveRemove"})
  /\ k = 1 =>
       /\ UNCHANGED <<up, joined>>
       /\ pipe[1].name = "joinSet" => Enters(new, pipe[1].conn, {"joinExpire"})
       /\ pipe[1].name \in JoinCalls \ {"joinGet"} => Enters(new, pipe[1].conn, JoinCalls)
       /\ pipe[1].name = "leaveRemove" => Enters(new, pipe[1].conn, {"leaveParticipant"})
  /\ \A call \in new :
       /\ call.name \in JoinCalls => \/ call.conn \in checking
                                     \/ k = 1 /\ Next1(call, JoinCalls)
       /\ call.name = "joinGet" => call.live = {Who(c) : c \in Room'}
       /\ call.name = "updateSet" => call.conn \in up'
       /\ call.name = "updateExpire" => k = 1 /\ Next1(call, {"updateSet"})
       /\ call.name = "leaveRemove" =>
            \A d \in Room' : Who(d) = Who(call.conn) => Who(d) \in blurred'
       /\ call.name = "leaveParticipant" => k = 1 /\ Next1(call, {"leaveRemove"})

\* A call that was in the queue moved up; another one is new.
LEMMA OldOrNew ==
  ASSUME NEW k, NEW new, PipeStep(k, new), NEW i \in 1 .. Len(pipe')
  PROVE  \/ /\ i \in 1 .. Len(pipe) - k /\ i + k \in 1 .. Len(pipe)
            /\ pipe'[i] = pipe[i + k]
         \/ pipe'[i] \in new
BY DEF PipeStep

LEMMA JoinsStay ==
  ASSUME NEW k, NEW new, Pipeline(k, new), JoinsBehindLeaves
  PROVE  JoinsBehindLeaves'
<1>. SUFFICES ASSUME NEW i \in 1 .. Len(pipe'), NEW d \in Room',
                     Who(pipe'[i].conn) = Who(d), Who(d) \notin blurred'
              PROVE  /\ pipe'[i].name = "leaveRemove" => WaitsBehind(i, d, "joinSet")'
                     /\ pipe'[i].name = "leaveParticipant" =>
                          Waits(d, {"joinSet"})' \/ WaitsBehind(i, d, "joinExpire")'
  BY DEF JoinsBehindLeaves
<1>0. PipeStep(k, new) /\ Who(d) \notin blurred
  BY DEF Pipeline
<1>1. CASE /\ i \in 1 .. Len(pipe) - k /\ i + k \in 1 .. Len(pipe)
           /\ pipe'[i] = pipe[i + k]
  <2>1. CASE d \in Room
    <3>1. /\ pipe'[i].name = "leaveRemove" => WaitsBehind(i + k, d, "joinSet")
          /\ pipe'[i].name = "leaveParticipant" =>
               Waits(d, {"joinSet"}) \/ WaitsBehind(i + k, d, "joinExpire")
      BY <1>0, <1>1, <2>1 DEF JoinsBehindLeaves
    <3>2. Waits(d, {"joinSet"}) => Waits(d, {"joinSet"})' \/ Enters(new, d, {"joinExpire"})
      BY <1>0, WaitsStep DEF Pipeline
    <3>3. Enters(new, d, {"joinExpire"}) => WaitsBehind(i, d, "joinExpire")'
      BY <1>0, <1>1, BehindStep DEF Enters
    <3>. QED  BY <1>0, <1>1, <3>1, <3>2, <3>3, BehindStep
  <2>2. CASE d \notin Room
    <3>1. Enters(new, d, {"joinSet"})
      BY <2>2 DEF Pipeline, Room
    <3>2. Waits(d, {"joinSet"})'
      BY <1>0, <3>1, WaitsStep DEF Enters
    <3>3. WaitsBehind(i, d, "joinSet")'
      BY <1>0, <1>1, <3>1, BehindStep DEF Enters
    <3>. QED  BY <3>2, <3>3
  <2>. QED  BY <2>1, <2>2
<1>2. CASE pipe'[i] \in new
  <2>1. pipe'[i].name # "leaveRemove"
    BY <1>2 DEF Pipeline
  <2>2. ASSUME pipe'[i].name = "leaveParticipant" PROVE Waits(d, {"joinSet"})'
    <3>1. /\ k = 1 /\ pipe[1].conn = pipe'[i].conn /\ pipe[1].name = "leaveRemove"
          /\ d \in Room
      BY <1>2, <2>2 DEF Pipeline, Next1, Room
    <3>2. 1 \in 1 .. Len(pipe)
      BY <1>0, <3>1 DEF PipeStep
    <3>3. WaitsBehind(1, d, "joinSet")
      BY <1>0, <3>1, <3>2 DEF JoinsBehindLeaves
    <3>. QED  BY <1>0, <3>3, BehindStep
  <2>. QED  BY <2>1, <2>2
<1>. QED  BY <1>0, <1>1, <1>2, OldOrNew

LEMMA LeavesStay ==
  ASSUME NEW k, NEW new, Pipeline(k, new), LeavesBehindUpdates,
         \A i \in 1 .. Len(pipe) : Identified(pipe[i], joined)
  PROVE  LeavesBehindUpdates'
<1>. SUFFICES ASSUME NEW i \in 1 .. Len(pipe'), NEW e, pipe'[i].conn = e, e \notin up',
                     pipe'[i].name \in {"updateSet", "updateExpire"}
              PROVE  /\ pipe'[i].name = "updateSet" => WaitsBehind(i, e, "leaveRemove")'
                     /\ pipe'[i].name = "updateExpire" =>
                          \/ Waits(e, {"leaveRemove"})'
                          \/ WaitsBehind(i, e, "leaveParticipant")'
  BY DEF LeavesBehindUpdates, Waits, WaitsBehind
<1>0. PipeStep(k, new)
  BY DEF Pipeline
<1>1. CASE /\ i \in 1 .. Len(pipe) - k /\ i + k \in 1 .. Len(pipe)
           /\ pipe'[i] = pipe[i + k]
  <2>1. CASE e \notin up
    <3>1. /\ pipe'[i].name = "updateSet" => WaitsBehind(i + k, e, "leaveRemove")
          /\ pipe'[i].name = "updateExpire" =>
               Waits(e, {"leaveRemove"}) \/ WaitsBehind(i + k, e, "leaveParticipant")
      BY <1>1, <2>1 DEF LeavesBehindUpdates
    <3>2. Waits(e, {"leaveRemove"}) =>
            Waits(e, {"leaveRemove"})' \/ Enters(new, e, {"leaveParticipant"})
      BY <1>0, WaitsStep DEF Pipeline
    <3>3. Enters(new, e, {"leaveParticipant"}) => WaitsBehind(i, e, "leaveParticipant")'
      BY <1>0, <1>1, BehindStep DEF Enters
    <3>. QED  BY <1>0, <1>1, <3>1, <3>2, <3>3, BehindStep
  <2>2. CASE e \in up
    <3>1. Enters(new, e, {"leaveRemove"})
      BY <1>1, <2>2 DEF Pipeline, Identified
    <3>2. Waits(e, {"leaveRemove"})'
      BY <1>0, <3>1, WaitsStep DEF Enters
    <3>3. WaitsBehind(i, e, "leaveRemove")'
      BY <1>0, <1>1, <3>1, BehindStep DEF Enters
    <3>. QED  BY <3>2, <3>3
  <2>. QED  BY <2>1, <2>2
<1>2. CASE pipe'[i] \in new
  <2>1. pipe'[i].name # "updateSet"
    BY <1>2 DEF Pipeline
  <2>2. ASSUME pipe'[i].name = "updateExpire" PROVE Waits(e, {"leaveRemove"})'
    <3>1. k = 1 /\ pipe[1].conn = e /\ pipe[1].name = "updateSet" /\ e \notin up
      BY <1>2, <2>2 DEF Pipeline, Next1
    <3>2. 1 \in 1 .. Len(pipe)
      BY <1>0, <3>1 DEF PipeStep
    <3>3. WaitsBehind(1, e, "leaveRemove")
      BY <3>1, <3>2 DEF LeavesBehindUpdates
    <3>. QED  BY <1>0, <3>3, BehindStep
  <2>. QED  BY <2>1, <2>2
<1>. QED  BY <1>0, <1>1, <1>2, OldOrNew

LEMMA PresenceStays ==
  ASSUME NEW k, NEW new, Pipeline(k, new), JoinsBehindLeaves, PresenceKept,
         k = 1 /\ pipe[1].name = "joinSet" => presence'[Who(pipe[1].conn)] # None,
         \A d \in Room : presence[Who(d)] # None /\ presence'[Who(d)] = None =>
           k = 1 /\ Who(pipe[1].conn) = Who(d) /\ pipe[1].name = "leaveRemove"
  PROVE  PresenceKept'
<1>. SUFFICES ASSUME NEW d \in Room', Who(d) \notin blurred'
              PROVE  Waits(d, {"joinSet"})' \/ presence'[Who(d)] # None
  BY DEF PresenceKept, Who
<1>0. PipeStep(k, new) /\ Who(d) \notin blurred
  BY DEF Pipeline
<1>1. CASE d \notin Room
  <2>1. Enters(new, d, {"joinSet"})
    BY <1>1 DEF Pipeline, Room
  <2>. QED  BY <1>0, <2>1, WaitsStep DEF Enters
<1>2. CASE d \in Room /\ Waits(d, {"joinSet"})
  <2>1. \/ Waits(d, {"joinSet"})'
        \/ k = 1 /\ pipe[1].conn = d /\ pipe[1].name = "joinSet"
    BY <1>0, <1>2, WaitsStep
  <2>. QED  BY <2>1
<1>3. CASE d \in Room /\ presence[Who(d)] # None
  <2>. SUFFICES ASSUME presence'[Who(d)] = None PROVE Waits(d, {"joinSet"})'
    OBVIOUS
  <2>1. k = 1 /\ Who(pipe[1].conn) = Who(d) /\ pipe[1].name = "leaveRemove"
    BY <1>3
  <2>2. 1 \in 1 .. Len(pipe)
    BY <1>0, <2>1 DEF PipeStep
  <2>3. WaitsBehind(1, d, "joinSet")
    BY <1>0, <1>3, <2>1, <2>2 DEF JoinsBehindLeaves
  <2>. QED  BY <1>0, <2>3, BehindStep
<1>. QED  BY <1>0, <1>1, <1>2, <1>3 DEF PresenceKept

LEMMA FetchesStay ==
  ASSUME NEW k, NEW new, Pipeline(k, new), FetchesInOrder, joined' \subseteq Conn
  PROVE  FetchesInOrder'
<1>. SUFFICES ASSUME NEW i \in 1 .. Len(pipe'), pipe'[i].name = "joinGet"
              PROVE  /\ \A d \in Room' : \/ Who(d) \in pipe'[i].live
                                         \/ WaitsBehind(i, d, "joinSet")'
                     /\ \A u \in pipe'[i].live : \E d \in Conn :
                          Who(d) = u /\ (d \in Room' \/ WaitsBehind(i, d, "leaveRemove")')
  BY DEF FetchesInOrder, Who
<1>0. PipeStep(k, new)
  BY DEF Pipeline
<1>1. CASE /\ i \in 1 .. Len(pipe) - k /\ i + k \in 1 .. Len(pipe)
           /\ pipe'[i] = pipe[i + k]
  <2>1. ASSUME NEW d \in Room' PROVE Who(d) \in pipe'[i].live \/ WaitsBehind(i, d, "joinSet")'
    <3>1. CASE d \in Room
      <4>1. Who(d) \in pipe'[i].live \/ WaitsBehind(i + k, d, "joinSet")
        BY <1>1, <3>1 DEF FetchesInOrder
      <4>. QED  BY <1>0, <1>1, <4>1, BehindStep
    <3>2. CASE d \notin Room
      <4>1. Enters(new, d, {"joinSet"})
        BY <3>2 DEF Pipeline, Room
      <4>. QED  BY <1>0, <1>1, <4>1, BehindStep DEF Enters
    <3>. QED  BY <3>1, <3>2
  <2>2. ASSUME NEW u \in pipe'[i].live
        PROVE  \E d \in Conn :
                 Who(d) = u /\ (d \in Room' \/ WaitsBehind(i, d, "leaveRemove")')
    <3>1. PICK d \in Conn :
            Who(d) = u /\ (d \in Room \/ WaitsBehind(i + k, d, "leaveRemove"))
      BY <1>1 DEF FetchesInOrder
    <3>2. d \in Room \ Room' => Enters(new, d, {"leaveRemove"})
      BY DEF Pipeline, Room
    <3>3. Enters(new, d, {"leaveRemove"}) => WaitsBehind(i, d, "leaveRemove")'
      BY <1>0, <1>1, BehindStep DEF Enters
    <3>. QED  BY <1>0, <1>1, <3>1, <3>2, <3>3, BehindStep
  <2>. QED  BY <2>1, <2>2
<1>2. CASE pipe'[i] \in new
  <2>1. pipe'[i].live = {Who(c) : c \in Room'}
    BY <1>2 DEF Pipeline
  <2>. QED  BY <2>1 DEF Room
<1>. QED  BY <1>0, <1>1, <1>2, OldOrNew

LEMMA GhostsStay ==
  ASSUME NEW k, NEW new, Pipeline(k, new), GhostsBlurred,
         \A c \in Conn \ up' : c \in checking' => c \in checking,
         \A c \in up \ up' : Joining(c) => Who(c) \in blurred'
  PROVE  GhostsBlurred'
<1>. SUFFICES ASSUME NEW c \in Conn \ up', c \in checking' \/ Waits(c, JoinCalls)'
              PROVE  Who(c) \in blurred'
  BY DEF GhostsBlurred, Who
<1>0. PipeStep(k, new)
  BY DEF Pipeline
<1>1. c \in checking \/ Waits(c, JoinCalls)
  <2>1. CASE Waits(c, JoinCalls)'
    <3>1. Waits(c, JoinCalls) \/ \E call \in new : call.conn = c /\ call.name \in JoinCalls
      BY <1>0, <2>1, WaitsStep
    <3>2. k = 1 => 1 \in 1 .. Len(pipe)
      BY <1>0 DEF PipeStep
    <3>. QED  BY <3>1, <3>2 DEF Pipeline, Next1, Waits
  <2>. QED  BY <2>1
<1>2. Joining(c)
  BY <1>1 DEF Joining, Waits
<1>. QED  BY <1>1, <1>2 DEF GhostsBlurred, Pipeline

-----------------------------------------------------------------------------
(* What the tabs show *)

\* A join ends with the answer to its last call.
LEMMA JoinDone ==
  ASSUME NEW k, NEW new, Pipeline(k, new), NEW c, Waits(c, JoinCalls), ~Waits(c, JoinCalls)'
  PROVE  k = 1 /\ pipe[1].conn = c /\ pipe[1].name = "joinGet"
<1>1. PipeStep(k, new)
  BY DEF Pipeline
<1>2. k = 1 /\ pipe[1].conn = c /\ pipe[1].name \in JoinCalls
  BY <1>1, WaitsStep
<1>3. ~Enters(new, c, JoinCalls)
  BY <1>1, WaitsStep DEF Enters
<1>. QED  BY <1>2, <1>3 DEF Pipeline

\* A socket whose join is over was in the room before the step.
LEMMA JoinedBefore ==
  ASSUME NEW k, NEW new, Pipeline(k, new), NEW c \in joined', ~Waits(c, JoinCalls)'
  PROVE  c \in joined /\ (c \in up' => c \in up)
<1>1. PipeStep(k, new)
  BY DEF Pipeline
<1>2. ~Enters(new, c, {"joinSet"})
  BY <1>1, WaitsStep DEF Enters, JoinCalls
<1>. QED  BY <1>2 DEF Pipeline

\* A socket in the room, or with a leave under way, goes on being one until the last
\* call of its leave is answered.
LEMMA LeaveDone ==
  ASSUME NEW k, NEW new, Pipeline(k, new), NEW d, d \in Room \/ Waits(d, LeaveCalls)
  PROVE  \/ d \in Room' \/ Waits(d, LeaveCalls)'
         \/ k = 1 /\ pipe[1].conn = d /\ pipe[1].name = "leaveParticipant"
<1>1. PipeStep(k, new)
  BY DEF Pipeline
<1>2. ASSUME d \in Room, d \notin Room' PROVE Waits(d, LeaveCalls)'
  <2>1. Enters(new, d, {"leaveRemove"})
    BY <1>2 DEF Pipeline, Room
  <2>. QED  BY <1>1, <2>1, WaitsStep DEF Enters, LeaveCalls
<1>3. ASSUME Waits(d, LeaveCalls), ~Waits(d, LeaveCalls)'
      PROVE  k = 1 /\ pipe[1].conn = d /\ pipe[1].name = "leaveParticipant"
  <2>1. k = 1 /\ pipe[1].conn = d /\ pipe[1].name \in LeaveCalls
    BY <1>1, <1>3, WaitsStep
  <2>2. ~Enters(new, d, {"leaveParticipant"})
    BY <1>1, <1>3, WaitsStep DEF Enters, LeaveCalls
  <2>. QED  BY <2>1, <2>2 DEF Pipeline, LeaveCalls
<1>. QED  BY <1>2, <1>3

\* A tab of the room is connected with a socket of its own user.
LEMMA OwnSocket ==
  ASSUME PresenceTypeOK, NEW t \in Tab, cur[t] \in joined
  PROVE  cur[t] \in Room /\ Who(cur[t]) = UserOf[t]
<1>1. cur[t] # None
  BY PresenceAssumption DEF PresenceTypeOK
<1>. QED  BY <1>1 DEF PresenceTypeOK, Room, Who

\* No tab of the room is told anything.
LEMMA TabsQuiet ==
  ASSUME NEW k, NEW new, Pipeline(k, new), PresenceTypeOK, TabsInStep,
         k = 1 => pipe[1].name \notin {"joinGet", "leaveParticipant"},
         \A t \in Tab : cur'[t] \in joined => cur'[t] = cur[t] /\ peers'[t] = peers[t]
  PROVE  TabsInStep'
<1>. SUFFICES ASSUME NEW t \in Tab, NEW u \in User, u \notin blurred', u # UserOf[t],
                     NEW c, cur'[t] = c, c \in joined', ~Waits(c, JoinCalls)'
              PROVE  /\ \A d \in Room' :
                          Who(d) = u /\ ~Waits(d, JoinCalls)' => peers'[t][u] # None
                     /\ peers'[t][u] # None =>
                          \E d \in Conn : Who(d) = u /\ (d \in Room' \/ Waits(d, LeaveCalls)')
  BY DEF TabsInStep, Waits, Who
<1>1. /\ cur[t] = c /\ peers'[t] = peers[t] /\ c \in joined /\ ~Waits(c, JoinCalls)
      /\ u \notin blurred
  BY JoinedBefore, JoinDone DEF Pipeline
<1>2. /\ \A d \in Room : Who(d) = u /\ ~Waits(d, JoinCalls) => peers[t][u] # None
      /\ peers[t][u] # None =>
           \E d \in Conn : Who(d) = u /\ (d \in Room \/ Waits(d, LeaveCalls))
  BY <1>1 DEF TabsInStep
<1>3. ASSUME NEW d \in Room', Who(d) = u, ~Waits(d, JoinCalls)' PROVE peers'[t][u] # None
  <2>1. d \in Room /\ ~Waits(d, JoinCalls)
    BY <1>3, JoinedBefore, JoinDone DEF Room
  <2>. QED  BY <1>1, <1>2, <1>3, <2>1
<1>4. ASSUME peers'[t][u] # None
      PROVE  \E d \in Conn : Who(d) = u /\ (d \in Room' \/ Waits(d, LeaveCalls)')
  <2>1. PICK d \in Conn : Who(d) = u /\ (d \in Room \/ Waits(d, LeaveCalls))
    BY <1>1, <1>2, <1>4
  <2>. QED  BY <2>1, LeaveDone
<1>. QED  BY <1>3, <1>4

\* A join ends: the newcomer is told who is there, the others that it came.
LEMMA TabsJoin ==
  ASSUME NEW new, Pipeline(1, new), PresenceTypeOK, PresenceInv, JoinEnds
  PROVE  TabsInStep'
<1>. USE DEF PresenceInv
<1>. SUFFICES ASSUME NEW t \in Tab, NEW u \in User, u \notin blurred', u # UserOf[t],
                     NEW c, cur'[t] = c, c \in joined', ~Waits(c, JoinCalls)'
              PROVE  /\ \A d \in Room' :
                          Who(d) = u /\ ~Waits(d, JoinCalls)' => peers'[t][u] # None
                     /\ peers'[t][u] # None =>
                          \E d \in Conn : Who(d) = u /\ (d \in Room' \/ Waits(d, LeaveCalls)')
  BY DEF TabsInStep, Waits, Who
<1>. DEFINE h == pipe[1]
<1>1. PipeStep(1, new) /\ u \notin blurred
  BY DEF Pipeline
<1>2. /\ h.name = "joinGet" /\ h = Head(pipe) /\ 1 \in 1 .. Len(pipe)
      /\ h.conn \in joined /\ h.conn \in Conn
  BY HeadType DEF Identified, JoinEnds, Reply, Calls
<1>3. /\ cur[t] = c /\ UNCHANGED <<up, joined>> /\ c \in Room /\ Who(c) = UserOf[t]
      /\ Room' = Room
  BY JoinedBefore, OwnSocket DEF JoinEnds, ServerStays, Pipeline, Room
<1>4. /\ c = h.conn => peers'[t][u] = IF u \in h.live THEN presence[u] ELSE None
      /\ c # h.conn => peers'[t] = [peers[t] EXCEPT ![Who(h.conn)] = "idle"]
    <2>1. c # h.conn => t \in Others(h.conn)
      BY <1>3 DEF Others, Room
    <2>. QED  BY <1>2, <1>3, <2>1 DEF JoinEnds, Welcome
<1>5. peers[t] \in Peers /\ None # "idle"
  BY PresenceAssumption DEF PresenceTypeOK, Action
<1>6. CASE c = h.conn
  <2>1. /\ \A d \in Room : Who(d) \in h.live \/ WaitsBehind(1, d, "joinSet")
        /\ \A v \in h.live : \E d \in Conn :
             Who(d) = v /\ (d \in Room \/ WaitsBehind(1, d, "leaveRemove"))
    BY <1>2 DEF FetchesInOrder
  <2>2. ASSUME NEW d \in Room, Who(d) = u, ~Waits(d, JoinCalls)' PROVE peers'[t][u] # None
    <3>1. ~Waits(d, {"joinSet"})'
      BY <2>2 DEF Waits, JoinCalls
    <3>2. ~WaitsBehind(1, d, "joinSet")
      BY <1>1, <3>1, BehindStep
    <3>3. ~Waits(d, {"joinSet"})
      BY <1>1, <1>2, <3>1, WaitsStep
    <3>4. presence[u] # None
      BY <1>1, <2>2, <3>3 DEF PresenceKept
    <3>. QED  BY <1>4, <1>6, <2>1, <2>2, <3>2, <3>4
  <2>3. ASSUME peers'[t][u] # None
        PROVE  \E d \in Conn : Who(d) = u /\ (d \in Room \/ Waits(d, LeaveCalls)')
    <3>1. u \in h.live
      BY <1>4, <1>6, <2>3
    <3>2. PICK d \in Conn : Who(d) = u /\ (d \in Room \/ WaitsBehind(1, d, "leaveRemove"))
      BY <2>1, <3>1
    <3>3. WaitsBehind(1, d, "leaveRemove") => Waits(d, LeaveCalls)'
      BY <1>1, BehindStep DEF Waits, LeaveCalls
    <3>. QED  BY <3>2, <3>3
  <2>. QED  BY <1>3, <2>2, <2>3
<1>7. CASE c # h.conn
  <2>1. ~Waits(c, JoinCalls)
    BY <1>7, JoinDone
  <2>2. /\ \A d \in Room : Who(d) = u /\ ~Waits(d, JoinCalls) => peers[t][u] # None
        /\ peers[t][u] # None =>
             \E d \in Conn : Who(d) = u /\ (d \in Room \/ Waits(d, LeaveCalls))
    BY <1>1, <1>3, <2>1 DEF TabsInStep
  <2>3. ASSUME NEW d \in Room, Who(d) = u, ~Waits(d, JoinCalls)' PROVE peers'[t][u] # None
    <3>1. ~Waits(d, JoinCalls) \/ d = h.conn
      BY <2>3, JoinDone
    <3>. QED  BY <1>4, <1>5, <1>7, <2>2, <2>3, <3>1 DEF Peers
  <2>4. ASSUME peers'[t][u] # None
        PROVE  \E d \in Conn : Who(d) = u /\ (d \in Room \/ Waits(d, LeaveCalls)')
    <3>1. CASE u = Who(h.conn)
      <4>1. Waits(h.conn, JoinCalls)
        BY <1>2 DEF Waits, JoinCalls
      <4>2. h.conn \in up
        BY <1>1, <1>2, <3>1, <4>1 DEF GhostsBlurred
      <4>. QED  BY <1>2, <3>1, <4>2 DEF Room
    <3>2. CASE u # Who(h.conn)
      <4>1. PICK d \in Conn : Who(d) = u /\ (d \in Room \/ Waits(d, LeaveCalls))
        BY <1>4, <1>5, <1>7, <2>2, <2>4, <3>2 DEF Peers
      <4>. QED  BY <1>2, <1>3, <4>1, LeaveDone
    <3>. QED  BY <3>1, <3>2
  <2>. QED  BY <1>3, <2>3, <2>4
<1>. QED  BY <1>6, <1>7

\* What the tabs of the others show after a broadcast about the user of c.
LEMMA Told ==
  ASSUME PresenceTypeOK, NEW c, NEW a, Tell(Others(c), Who(c), a), NEW t \in Tab,
         cur[t] \in joined, NEW u \in User, u # UserOf[t]
  PROVE  peers'[t][u] = IF u = Who(c) THEN a ELSE peers[t][u]
<1>1. cur[t] \in Room /\ Who(cur[t]) = UserOf[t] /\ peers[t] \in Peers
  BY OwnSocket DEF PresenceTypeOK
<1>2. u = Who(c) => t \in Others(c)
  BY <1>1 DEF Others, Room
<1>. QED  BY <1>1, <1>2 DEF Tell, Peers

\* An update ends: the others show the new action.
LEMMA TabsUpdate ==
  ASSUME NEW new, Pipeline(1, new), PresenceTypeOK, PresenceInv, UpdateEnds
  PROVE  TabsInStep'
<1>. USE DEF PresenceInv
<1>. SUFFICES ASSUME NEW t \in Tab, NEW u \in User, u \notin blurred', u # UserOf[t],
                     NEW c, cur'[t] = c, c \in joined', ~Waits(c, JoinCalls)'
              PROVE  /\ \A d \in Room' :
                          Who(d) = u /\ ~Waits(d, JoinCalls)' => peers'[t][u] # None
                     /\ peers'[t][u] # None =>
                          \E d \in Conn : Who(d) = u /\ (d \in Room' \/ Waits(d, LeaveCalls)')
  BY DEF TabsInStep, Waits, Who
<1>. DEFINE h == pipe[1]
<1>1. PipeStep(1, new) /\ u \notin blurred
  BY DEF Pipeline
<1>2. /\ h.name = "updateExpire" /\ h = Head(pipe) /\ 1 \in 1 .. Len(pipe)
      /\ h.conn \in joined /\ h.conn \in Conn /\ h.action # None
  BY HeadType, PresenceAssumption DEF Identified, UpdateEnds, Reply, Calls
<1>3. cur[t] = c /\ c \in joined /\ Room' = Room /\ ~Waits(c, JoinCalls)
  BY <1>2, JoinedBefore, JoinDone DEF UpdateEnds, ServerStays, Pipeline, Room
<1>4. peers'[t][u] = IF u = Who(h.conn) THEN h.action ELSE peers[t][u]
  BY <1>2, <1>3, Told DEF UpdateEnds
<1>5. /\ \A d \in Room : Who(d) = u /\ ~Waits(d, JoinCalls) => peers[t][u] # None
      /\ peers[t][u] # None =>
           \E d \in Conn : Who(d) = u /\ (d \in Room \/ Waits(d, LeaveCalls))
  BY <1>1, <1>3 DEF TabsInStep
<1>6. ASSUME NEW d \in Room, Who(d) = u, ~Waits(d, JoinCalls)' PROVE peers'[t][u] # None
  <2>1. ~Waits(d, JoinCalls)
    BY <1>2, <1>6, JoinDone
  <2>. QED  BY <1>2, <1>4, <1>5, <1>6, <2>1
<1>7. ASSUME peers'[t][u] # None
      PROVE  \E d \in Conn : Who(d) = u /\ (d \in Room \/ Waits(d, LeaveCalls)')
  <2>1. CASE u = Who(h.conn)
    <3>1. CASE h.conn \in up
      BY <1>2, <2>1, <3>1 DEF Room
    <3>2. CASE h.conn \notin up
      <4>. PICK e \in Conn : e = h.conn
        BY <1>2
      <4>1. Waits(e, {"leaveRemove"}) \/ WaitsBehind(1, e, "leaveParticipant")
        BY <1>2, <3>2 DEF LeavesBehindUpdates
      <4>2. Waits(e, {"leaveRemove"})' \/ Waits(e, {"leaveParticipant"})'
        BY <1>1, <1>2, <4>1, WaitsStep, BehindStep
      <4>3. Waits(e, LeaveCalls)'
        BY <4>2 DEF Waits, LeaveCalls
      <4>. QED  BY <2>1, <4>3
    <3>. QED  BY <3>1, <3>2
  <2>2. CASE u # Who(h.conn)
    <3>1. PICK d \in Conn : Who(d) = u /\ (d \in Room \/ Waits(d, LeaveCalls))
      BY <1>4, <1>5, <1>7, <2>2
    <3>. QED  BY <1>2, <1>3, <3>1, LeaveDone
  <2>. QED  BY <2>1, <2>2
<1>. QED  BY <1>3, <1>6, <1>7

\* A leave ends: the others remove the user.
LEMMA TabsLeave ==
  ASSUME NEW new, Pipeline(1, new), PresenceTypeOK, PresenceInv, LeaveEnds
  PROVE  TabsInStep'
<1>. USE DEF PresenceInv
<1>. SUFFICES ASSUME NEW t \in Tab, NEW u \in User, u \notin blurred', u # UserOf[t],
                     NEW c, cur'[t] = c, c \in joined', ~Waits(c, JoinCalls)'
              PROVE  /\ \A d \in Room' :
                          Who(d) = u /\ ~Waits(d, JoinCalls)' => peers'[t][u] # None
                     /\ peers'[t][u] # None =>
                          \E d \in Conn : Who(d) = u /\ (d \in Room' \/ Waits(d, LeaveCalls)')
  BY DEF TabsInStep, Waits, Who
<1>. DEFINE h == pipe[1]
<1>1. PipeStep(1, new) /\ u \notin blurred
  BY DEF Pipeline
<1>2. h.name = "leaveParticipant" /\ h = Head(pipe) /\ 1 \in 1 .. Len(pipe)
  BY HeadType DEF LeaveEnds, Reply
<1>3. cur[t] = c /\ c \in joined /\ Room' = Room /\ ~Waits(c, JoinCalls)
  BY <1>2, JoinedBefore, JoinDone DEF LeaveEnds, ServerStays, Pipeline, Room
<1>4. peers'[t][u] = IF u = Who(h.conn) THEN None ELSE peers[t][u]
  BY <1>2, <1>3, Told DEF LeaveEnds
<1>5. /\ \A d \in Room : Who(d) = u /\ ~Waits(d, JoinCalls) => peers[t][u] # None
      /\ peers[t][u] # None =>
           \E d \in Conn : Who(d) = u /\ (d \in Room \/ Waits(d, LeaveCalls))
  BY <1>1, <1>3 DEF TabsInStep
<1>6. ASSUME NEW d \in Room, Who(d) = u, ~Waits(d, JoinCalls)' PROVE peers'[t][u] # None
  <2>1. ~Waits(d, JoinCalls)
    BY <1>2, <1>6, JoinDone
  <2>2. u # Who(h.conn)
    <3>. SUFFICES ASSUME u = Who(h.conn) PROVE FALSE
      OBVIOUS
    <3>1. Waits(d, {"joinSet"}) \/ WaitsBehind(1, d, "joinExpire")
      BY <1>1, <1>2, <1>6 DEF JoinsBehindLeaves
    <3>. QED  BY <2>1, <3>1 DEF Waits, WaitsBehind, JoinCalls
  <2>. QED  BY <1>4, <1>5, <1>6, <2>1, <2>2
<1>7. ASSUME peers'[t][u] # None
      PROVE  \E d \in Conn : Who(d) = u /\ (d \in Room \/ Waits(d, LeaveCalls)')
  <2>1. u # Who(h.conn) /\ peers[t][u] # None
    BY <1>4, <1>7
  <2>2. PICK d \in Conn : Who(d) = u /\ (d \in Room \/ Waits(d, LeaveCalls))
    BY <1>5, <2>1
  <2>. QED  BY <1>3, <2>1, <2>2, LeaveDone
<1>. QED  BY <1>3, <1>6, <1>7

-----------------------------------------------------------------------------
(* Every step keeps the invariants *)

\* A step that answers no call: what it must leave alone.
LEMMA InvUnlessAnswered ==
  ASSUME PresenceTypeOK, PresenceInv, NEW new, Pipeline(0, new), joined' \subseteq Conn,
         UNCHANGED presence,
         \A c \in Conn \ up' : c \in checking' => c \in checking,
         \A c \in up \ up' : Joining(c) => Who(c) \in blurred',
         \A t \in Tab : cur'[t] \in joined => cur'[t] = cur[t] /\ peers'[t] = peers[t]
  PROVE  PresenceInv'
<1>1. \A i \in 1 .. Len(pipe) : Identified(pipe[i], joined)
  BY DEF PresenceTypeOK, StrayCalls, Identified
<1>2. TabsInStep'
  BY TabsQuiet DEF PresenceInv
<1>3. JoinsBehindLeaves' /\ LeavesBehindUpdates'
  BY <1>1, JoinsStay, LeavesStay DEF PresenceInv
<1>4. PresenceKept'
  BY PresenceStays DEF PresenceInv
<1>5. FetchesInOrder' /\ GhostsBlurred'
  BY FetchesStay, GhostsStay DEF PresenceInv
<1>. QED  BY <1>2, <1>3, <1>4, <1>5 DEF PresenceInv

\* A step that answers the oldest call.
LEMMA InvAnswered ==
  ASSUME PresenceTypeOK, PresenceInv, NEW new, Pipeline(1, new),
         UNCHANGED serverVars, TabsInStep',
         pipe[1].name = "joinSet" => presence'[Who(pipe[1].conn)] # None,
         \A d \in Room : presence[Who(d)] # None /\ presence'[Who(d)] = None =>
           Who(pipe[1].conn) = Who(d) /\ pipe[1].name = "leaveRemove"
  PROVE  PresenceInv'
<1>1. /\ \A i \in 1 .. Len(pipe) : Identified(pipe[i], joined)
      /\ joined' \subseteq Conn /\ UNCHANGED <<up, joined, checking>>
  BY DEF Identified, StrayCalls, PresenceTypeOK, serverVars
<1>3. JoinsBehindLeaves' /\ LeavesBehindUpdates'
  BY <1>1, JoinsStay, LeavesStay DEF PresenceInv
<1>4. PresenceKept'
  BY PresenceStays DEF PresenceInv
<1>5. FetchesInOrder' /\ GhostsBlurred'
  BY <1>1, FetchesStay, GhostsStay DEF PresenceInv
<1>. QED  BY <1>3, <1>4, <1>5 DEF PresenceInv

\* The reply to the oldest call sends the next call of the same handler.
LEMMA Advances ==
  ASSUME PresenceTypeOK, pipe # <<>>, NEW call \in Calls, Then(call),
         call.conn = Head(pipe).conn, UNCHANGED <<serverVars, blurred>>,
         \/ Head(pipe).name = "joinSet" /\ call.name = "joinExpire"
         \/ Head(pipe).name = "joinExpire" /\ call.name = "joinAdd"
         \/ Head(pipe).name = "joinAdd" /\ call.name = "joinAddExpire"
         \/ /\ Head(pipe).name = "joinAddExpire" /\ call.name = "joinGet"
            /\ call.live = {Who(c) : c \in Room}
         \/ Head(pipe).name = "updateSet" /\ call.name = "updateExpire"
         \/ Head(pipe).name = "leaveRemove" /\ call.name = "leaveParticipant"
         \/ Head(pipe).name = "straySet" /\ call.name = "strayExpire"
  PROVE  Pipeline(1, {call})
<1>1. PipeStep(1, {call}) /\ Head(pipe) = pipe[1]
  BY PipeAdvanced, HeadType
<1>2. UNCHANGED <<up, joined, checking, blurred>> /\ Room' = Room
  BY DEF serverVars, Room
<1>3. /\ pipe[1].name = "joinSet" => Enters({call}, pipe[1].conn, {"joinExpire"})
      /\ pipe[1].name \in JoinCalls \ {"joinGet"} => Enters({call}, pipe[1].conn, JoinCalls)
      /\ pipe[1].name = "leaveRemove" => Enters({call}, pipe[1].conn, {"leaveParticipant"})
  BY <1>1 DEF Enters, JoinCalls
<1>4. /\ call.name \in JoinCalls => Next1(call, JoinCalls)
      /\ call.name = "joinGet" => call.live = {Who(c) : c \in Room'}
      /\ call.name = "updateExpire" => Next1(call, {"updateSet"})
      /\ call.name = "leaveParticipant" => Next1(call, {"leaveRemove"})
      /\ call.name \notin {"updateSet", "leaveRemove"}
  BY <1>1, <1>2 DEF Next1, JoinCalls
<1>. QED  BY <1>1, <1>2, <1>3, <1>4 DEF Pipeline

\* The reply to the last call of a handler.
LEMMA Ends ==
  ASSUME PresenceTypeOK, pipe # <<>>, End, UNCHANGED <<serverVars, blurred>>,
         Head(pipe).name \in {"joinGet", "updateExpire", "leaveParticipant", "strayExpire"}
  PROVE  Pipeline(1, {})
<1>1. PipeStep(1, {}) /\ Head(pipe) = pipe[1]
  BY PipeEnded, HeadType
<1>2. UNCHANGED <<up, joined>>
  BY DEF serverVars
<1>. QED  BY <1>1, <1>2 DEF Pipeline, JoinCalls

\* A step that leaves the queue alone.
LEMMA Idles ==
  ASSUME PresenceTypeOK, UNCHANGED <<pipe, joined>>, blurred \subseteq blurred',
         \A c \in joined : c \in up' <=> c \in up
  PROVE  Pipeline(0, {})
<1>1. PipeStep(0, {})
  <2>1. pipe \in Seq(Calls)
    BY DEF PresenceTypeOK, Calls, CallNames
  <2>. QED  BY <2>1 DEF PipeStep
<1>. QED  BY <1>1 DEF Pipeline

LEMMA InvTab ==
  ASSUME PresenceTypeOK, PresenceInv,
         \/ \E t \in Tab : Open(t) \/ Cut(t) \/ Leave(t) \/ Toggle(t)
         \/ \E c \in Conn : Connect(c)
         \/ UNCHANGED vars
  PROVE  PresenceInv'
<1>0. joined \subseteq Conn /\ up \subseteq Conn /\ None \notin Conn
  BY PresenceAssumption DEF PresenceTypeOK
<1>1. ASSUME UNCHANGED <<serverVars, pipe, presence, blurred>>,
             \A t \in Tab : cur'[t] \in joined => cur'[t] = cur[t] /\ peers'[t] = peers[t]
      PROVE  PresenceInv'
  <2>1. UNCHANGED <<up, joined, checking>>
    BY <1>1 DEF serverVars
  <2>2. Pipeline(0, {})
    BY <1>1, <2>1, Idles
  <2>. QED  BY <1>0, <1>1, <2>1, <2>2, InvUnlessAnswered
<1>2. ASSUME NEW t \in Tab, Open(t) PROVE PresenceInv'
  BY <1>1, <1>2 DEF Open, TabStays
<1>3. ASSUME NEW t \in Tab, Cut(t) PROVE PresenceInv'
  <2>1. cur' = [cur EXCEPT ![t] = None] /\ peers' = peers
    BY <1>3 DEF Cut
  <2>2. \A s \in Tab : cur'[s] \in joined => cur'[s] = cur[s] /\ peers'[s] = peers[s]
    BY <1>0, <2>1 DEF PresenceTypeOK
  <2>. QED  BY <1>1, <1>3, <2>2 DEF Cut, TabStays
<1>4. ASSUME NEW t \in Tab, Leave(t) PROVE PresenceInv'
  <2>1. cur' = [cur EXCEPT ![t] = None] /\ peers' = [peers EXCEPT ![t] = NoPeers]
    BY <1>4 DEF Leave
  <2>2. \A s \in Tab : cur'[s] \in joined => cur'[s] = cur[s] /\ peers'[s] = peers[s]
    BY <1>0, <2>1 DEF PresenceTypeOK
  <2>. QED  BY <1>1, <1>4, <2>2 DEF Leave, TabStays
<1>5. ASSUME NEW t \in Tab, Toggle(t) PROVE PresenceInv'
  BY <1>1, <1>5 DEF Toggle, TabStays
<1>6. ASSUME NEW c \in Conn, Connect(c) PROVE PresenceInv'
  <2>1. /\ TabOf[c] \in Tab /\ c \notin used /\ cur' = [cur EXCEPT ![TabOf[c]] = c]
        /\ up' = up \cup {c} /\ checking' = checking \cup {c}
        /\ UNCHANGED <<peers, joined, pipe, presence, blurred>>
    BY <1>6, PresenceAssumption DEF Connect
  <2>2. c \notin joined
    BY <2>1 DEF PresenceTypeOK
  <2>3. Pipeline(0, {})
    BY <2>1, <2>2, Idles
  <2>4. \A s \in Tab : cur'[s] \in joined => cur'[s] = cur[s] /\ peers'[s] = peers[s]
    BY <2>1, <2>2 DEF PresenceTypeOK
  <2>. QED  BY <1>0, <2>1, <2>3, <2>4, InvUnlessAnswered
<1>7. CASE UNCHANGED vars
  BY <1>1, <1>7 DEF vars, tabVars
<1>. QED  BY <1>2, <1>3, <1>4, <1>5, <1>6, <1>7

LEMMA InvHandlers ==
  ASSUME PresenceTypeOK, PresenceInv, HandlerStep
  PROVE  PresenceInv'
<1>. DEFINE h == Head(pipe)
<1>0. /\ joined \subseteq Conn /\ up \subseteq Conn /\ checking \subseteq Conn
      /\ "idle" \in Action /\ "idle" # None
  BY PresenceAssumption DEF PresenceTypeOK, Action
<1>1. ASSUME NEW c \in Conn, JoinRoom(c) PROVE PresenceInv'
  <2>. DEFINE call == Call(c, "joinSet", "idle", {})
  <2>1. /\ c \in checking /\ checking' = checking \ {c} /\ joined' = joined \cup {c}
        /\ Send(call) /\ UNCHANGED <<up, cur, peers, presence, blurred>>
    BY <1>1 DEF JoinRoom, ServerStays
  <2>2. call \in Calls /\ call.conn = c /\ call.name = "joinSet"
    BY <1>0 DEF Call, Calls, CallNames, JoinCalls
  <2>3. PipeStep(0, {call}) /\ Enters({call}, c, {"joinSet"})
    BY <2>1, <2>2, PipeSent DEF Enters
  <2>4. Pipeline(0, {call})
    BY <2>1, <2>2, <2>3 DEF Pipeline
  <2>5. \A t \in Tab : cur'[t] \in joined => cur'[t] = cur[t] /\ peers'[t] = peers[t]
    BY <2>1
  <2>. QED  BY <1>0, <2>1, <2>4, <2>5, InvUnlessAnswered
<1>2. ASSUME NEW c \in Conn, Update(c) PROVE PresenceInv'
  <2>. DEFINE call == Call(c, IF c \in joined THEN "updateSet" ELSE "straySet", Head(out[c]), {})
  <2>1. /\ c \in up /\ UNCHANGED <<up, joined, checking, cur, peers, presence, blurred>>
        /\ Send(call)
    BY <1>2 DEF Update, ServerStays, serverVars
  <2>2. call \in Calls /\ call.conn = c /\ call.name \in {"updateSet", "straySet"}
    <3>1. out[c] \in Seq(Action) /\ out[c] # <<>>
      BY <1>2 DEF Update, PresenceTypeOK
    <3>. QED  BY <3>1 DEF Call, Calls, CallNames, UpdateCalls, StrayCalls
  <2>3. Pipeline(0, {call})
    <3>1. PipeStep(0, {call})
      BY <2>1, <2>2, PipeSent
    <3>. QED  BY <2>1, <2>2, <3>1 DEF Pipeline, JoinCalls
  <2>4. \A t \in Tab : cur'[t] \in joined => cur'[t] = cur[t] /\ peers'[t] = peers[t]
    BY <2>1
  <2>. QED  BY <1>0, <2>1, <2>3, <2>4, InvUnlessAnswered
<1>3. ASSUME NEW c \in Conn, Close(c) PROVE PresenceInv'
  <2>. DEFINE call == Call(c, "leaveRemove", "idle", {})
  <2>1. /\ c \in up /\ up' = up \ {c}
        /\ UNCHANGED <<joined, checking, cur, peers, presence>>
        /\ (c \in joined /\ Send(call)) \/ (c \notin joined /\ pipe' = pipe)
    BY <1>3 DEF Close, ServerStays
  <2>2. /\ blurred \subseteq blurred'
        /\ Overlaps(c) \/ Joining(c) => Who(c) \in blurred'
    BY <1>3 DEF Close
  <2>3. call \in Calls /\ call.conn = c /\ call.name = "leaveRemove"
    BY <1>0 DEF Call, Calls, CallNames, LeaveCalls
  <2>4. \E new : Pipeline(0, new)
    <3>1. CASE c \in joined /\ Send(call)
      <4>1. PipeStep(0, {call}) /\ Enters({call}, c, {"leaveRemove"})
        BY <2>3, <3>1, PipeSent DEF Enters
      <4>2. \A d \in Room' : Who(d) = Who(c) => Who(d) \in blurred'
        BY <2>1, <2>2 DEF Overlaps, Room
      <4>3. Pipeline(0, {call})
        BY <2>1, <2>2, <2>3, <4>1, <4>2 DEF Pipeline, JoinCalls
      <4>. QED  BY <4>3
    <3>2. CASE c \notin joined /\ pipe' = pipe
      BY <2>1, <2>2, <3>2, Idles
    <3>. QED  BY <2>1, <3>1, <3>2
  <2>5. \A t \in Tab : cur'[t] \in joined => cur'[t] = cur[t] /\ peers'[t] = peers[t]
    BY <2>1
  <2>. QED  BY <1>0, <2>1, <2>2, <2>4, <2>5, InvUnlessAnswered
<1>4. ASSUME NEW new, Pipeline(1, new), pipe[1].name \notin {"joinGet", "leaveParticipant"},
             UNCHANGED <<cur, peers, serverVars>>,
             pipe[1].name = "joinSet" => presence'[Who(pipe[1].conn)] # None,
             \A d \in Room : presence[Who(d)] # None /\ presence'[Who(d)] = None =>
               Who(pipe[1].conn) = Who(d) /\ pipe[1].name = "leaveRemove"
      PROVE  PresenceInv'
  <2>1. TabsInStep'
    BY <1>4, TabsQuiet DEF PresenceInv
  <2>. QED  BY <1>4, <2>1, InvAnswered
<1>5. CASE JoinSet
  <2>1. /\ pipe # <<>> /\ h.name = "joinSet" /\ Then(Call(h.conn, "joinExpire", "idle", {}))
        /\ presence' = [presence EXCEPT ![Who(h.conn)] = "idle"]
        /\ UNCHANGED <<cur, peers, serverVars, blurred>>
    BY <1>5 DEF JoinSet, Reply, ServerStays
  <2>2. h \in Calls /\ h = pipe[1] /\ Who(h.conn) \in User
    BY <2>1, HeadType
  <2>3. Call(h.conn, "joinExpire", "idle", {}) \in Calls
    BY <1>0, <2>2 DEF Call, Calls, CallNames, JoinCalls
  <2>4. Pipeline(1, {Call(h.conn, "joinExpire", "idle", {})})
    BY <2>1, <2>3, Advances DEF Call
  <2>5. /\ presence'[Who(h.conn)] = "idle"
        /\ \A u \in User : presence'[u] \in {presence[u], "idle"}
    BY <2>1, <2>2 DEF PresenceTypeOK, Peers
  <2>6. \A d \in Room : Who(d) \in User
    BY <1>0, PresenceAssumption DEF Room, Who
  <2>. QED  BY <1>0, <1>4, <2>1, <2>2, <2>4, <2>5, <2>6
<1>6. CASE JoinGoesOn
  <2>1. PICK name \in {"joinAdd", "joinAddExpire"} :
          /\ pipe # <<>> /\ Then(Call(h.conn, name, "idle", {}))
          /\ \/ h.name = "joinExpire" /\ name = "joinAdd"
             \/ h.name = "joinAdd" /\ name = "joinAddExpire"
    BY <1>6 DEF JoinGoesOn, Reply
  <2>2. UNCHANGED <<cur, peers, serverVars, presence, blurred>>
    BY <1>6 DEF JoinGoesOn, ServerStays
  <2>3. h \in Calls /\ h = pipe[1]
    BY <2>1, HeadType
  <2>4. Call(h.conn, name, "idle", {}) \in Calls
    BY <1>0, <2>1, <2>3 DEF Call, Calls, CallNames, JoinCalls
  <2>5. Pipeline(1, {Call(h.conn, name, "idle", {})})
    BY <2>1, <2>2, <2>4, Advances DEF Call
  <2>. QED  BY <1>4, <2>1, <2>2, <2>3, <2>5
<1>7. CASE JoinFetch
  <2>. DEFINE live == {Who(c) : c \in Room}
  <2>1. /\ pipe # <<>> /\ h.name = "joinAddExpire" /\ Then(Call(h.conn, "joinGet", "idle", live))
        /\ UNCHANGED <<cur, peers, serverVars, presence, blurred>>
    BY <1>7 DEF JoinFetch, Reply, ServerStays, Room
  <2>2. h \in Calls /\ h = pipe[1]
    BY <2>1, HeadType
  <2>3. live \in SUBSET User
    BY <1>0, PresenceAssumption DEF Room, Who
  <2>4. Call(h.conn, "joinGet", "idle", live) \in Calls
    BY <1>0, <2>2, <2>3 DEF Call, Calls, CallNames, JoinCalls
  <2>5. Pipeline(1, {Call(h.conn, "joinGet", "idle", live)})
    BY <2>1, <2>4, Advances DEF Call
  <2>. QED  BY <1>4, <2>1, <2>2, <2>5
<1>8. CASE UpdateSet
  <2>. DEFINE next == [h EXCEPT !.name = "updateExpire"]
  <2>1. /\ pipe # <<>> /\ h.name = "updateSet" /\ Then(next)
        /\ presence' = [presence EXCEPT ![Who(h.conn)] = h.action]
        /\ UNCHANGED <<cur, peers, serverVars, blurred>>
    BY <1>8 DEF UpdateSet, Reply, ServerStays
  <2>2. h \in Calls /\ h = pipe[1] /\ Who(h.conn) \in User
    BY <2>1, HeadType
  <2>3. next \in Calls /\ next.conn = h.conn /\ next.name = "updateExpire"
    <3>1. \A call \in Calls : /\ [call EXCEPT !.name = "updateExpire"] \in Calls
                              /\ [call EXCEPT !.name = "updateExpire"].conn = call.conn
                              /\ [call EXCEPT !.name = "updateExpire"].name = "updateExpire"
      BY DEF Calls, CallNames, UpdateCalls
    <3>. QED  BY <2>2, <3>1
  <2>4. Pipeline(1, {next})
    BY <2>1, <2>3, Advances
  <2>5. h.action # None /\ \A u \in User : presence'[u] \in {presence[u], h.action}
    BY <2>1, <2>2, PresenceAssumption DEF PresenceTypeOK, Peers, Calls
  <2>6. \A d \in Room : Who(d) \in User
    BY <1>0, PresenceAssumption DEF Room, Who
  <2>. QED  BY <1>4, <2>1, <2>2, <2>4, <2>5, <2>6
<1>9. CASE LeaveRemove
  <2>1. /\ pipe # <<>> /\ h.name = "leaveRemove"
        /\ Then(Call(h.conn, "leaveParticipant", "idle", {}))
        /\ presence' = [presence EXCEPT ![Who(h.conn)] = None]
        /\ UNCHANGED <<cur, peers, serverVars, blurred>>
    BY <1>9 DEF LeaveRemove, Reply, ServerStays
  <2>2. h \in Calls /\ h = pipe[1] /\ Who(h.conn) \in User
    BY <2>1, HeadType
  <2>3. Call(h.conn, "leaveParticipant", "idle", {}) \in Calls
    BY <1>0, <2>2 DEF Call, Calls, CallNames, LeaveCalls
  <2>4. Pipeline(1, {Call(h.conn, "leaveParticipant", "idle", {})})
    BY <2>1, <2>3, Advances DEF Call
  <2>5. \A u \in User \ {Who(h.conn)} : presence'[u] = presence[u]
    BY <2>1 DEF PresenceTypeOK, Peers
  <2>6. \A d \in Room : Who(d) \in User
    BY <1>0, PresenceAssumption DEF Room, Who
  <2>. QED  BY <1>4, <2>1, <2>2, <2>4, <2>5, <2>6
<1>10. ASSUME pipe # <<>>, End,
              h.name \in {"joinGet", "updateExpire", "leaveParticipant", "strayExpire"},
              UNCHANGED <<serverVars, presence, blurred>>,
              Pipeline(1, {}) => TabsInStep'
       PROVE  PresenceInv'
  <2>1. Pipeline(1, {}) /\ h = pipe[1]
    BY <1>10, Ends, HeadType
  <2>. QED  BY <1>10, <2>1, InvAnswered
<1>11. CASE JoinEnds
  <2>1. pipe # <<>> /\ End /\ h.name = "joinGet" /\ UNCHANGED <<serverVars, presence, blurred>>
    BY <1>11 DEF JoinEnds, Reply
  <2>. QED  BY <1>10, <1>11, <2>1, TabsJoin
<1>12. CASE UpdateEnds
  <2>1. /\ pipe # <<>> /\ End /\ h.name = "updateExpire"
        /\ UNCHANGED <<serverVars, presence, blurred>>
    BY <1>12 DEF UpdateEnds, Reply
  <2>. QED  BY <1>10, <1>12, <2>1, TabsUpdate
<1>13. CASE LeaveEnds
  <2>1. /\ pipe # <<>> /\ End /\ h.name = "leaveParticipant"
        /\ UNCHANGED <<serverVars, presence, blurred>>
    BY <1>13 DEF LeaveEnds, Reply
  <2>. QED  BY <1>10, <1>13, <2>1, TabsLeave
<1>14. CASE Stray
  <2>. DEFINE next == [h EXCEPT !.name = "strayExpire"]
  <2>1. pipe # <<>> /\ UNCHANGED <<cur, peers, serverVars, presence, blurred>>
    BY <1>14 DEF Stray, Reply, ServerStays
  <2>2. h \in Calls /\ h = pipe[1]
    BY <2>1, HeadType
  <2>3. \/ h.name = "straySet" /\ Then(next)
        \/ h.name = "strayExpire" /\ End
    BY <1>14 DEF Stray, Reply
  <2>4. next \in Calls /\ next.conn = h.conn /\ next.name = "strayExpire"
    <3>1. \A call \in Calls : /\ [call EXCEPT !.name = "strayExpire"] \in Calls
                              /\ [call EXCEPT !.name = "strayExpire"].conn = call.conn
                              /\ [call EXCEPT !.name = "strayExpire"].name = "strayExpire"
      BY DEF Calls, CallNames, StrayCalls
    <3>. QED  BY <2>2, <3>1
  <2>. HIDE DEF next
  <2>5. CASE h.name = "straySet" /\ Then(next)
    <3>1. Pipeline(1, {next})
      BY <2>1, <2>4, <2>5, Advances
    <3>. QED  BY <1>4, <2>1, <2>2, <2>5, <3>1
  <2>6. CASE h.name = "strayExpire" /\ End
    <3>1. Pipeline(1, {}) => TabsInStep'
      BY <2>1, <2>2, <2>6, TabsQuiet DEF PresenceInv
    <3>. QED  BY <1>10, <2>1, <2>6, <3>1
  <2>. QED  BY <2>3, <2>5, <2>6
<1>. QED
  BY <1>1, <1>2, <1>3, <1>5, <1>6, <1>7, <1>8, <1>9, <1>11, <1>12, <1>13, <1>14
     DEF HandlerStep

\* Nothing waits and nobody is in the room of a process that just started.
LEMMA InvFresh ==
  ASSUME pipe = <<>>, up = {}, joined = {}, checking = {},
         \A t \in Tab : cur[t] = None
  PROVE  PresenceInv
<1>1. Len(pipe) = 0
  OBVIOUS
<1>. QED
  BY <1>1 DEF PresenceInv, JoinsBehindLeaves, LeavesBehindUpdates, PresenceKept, FetchesInOrder,
              GhostsBlurred, TabsInStep, Room, Waits

\* Joins, updates and leaves of one user are answered in the order of its sockets, and
\* what the tabs show is in step with them.
THEOREM PresenceInvariant == Spec => []PresenceInv
<1>1. Init => PresenceInv
  BY InvFresh DEF Init
<1>2. PresenceTypeOK /\ PresenceInv /\ [Next]_vars => PresenceInv'
  <2>. SUFFICES ASSUME PresenceTypeOK, PresenceInv, [Next]_vars PROVE PresenceInv'
    OBVIOUS
  <2>1. CASE Crash
    <3>1. /\ pipe' = <<>> /\ up' = {} /\ joined' = {} /\ checking' = {}
          /\ \A t \in Tab : cur'[t] = None
      BY <2>1 DEF Crash
    <3>2. Len(pipe') = 0
      BY <3>1
    <3>. QED
      BY <3>1, <3>2 DEF PresenceInv, JoinsBehindLeaves, LeavesBehindUpdates, PresenceKept,
                        FetchesInOrder, GhostsBlurred, TabsInStep, Room, Waits
  <2>2. CASE HandlerStep
    BY <2>2, InvHandlers
  <2>3. CASE \/ \E t \in Tab : Open(t) \/ Cut(t) \/ Leave(t) \/ Toggle(t)
             \/ \E c \in Conn : Connect(c)
             \/ UNCHANGED vars
    BY <2>3, InvTab
  <2>. QED  BY <2>1, <2>2, <2>3 DEF Next
<1>. QED  BY <1>1, <1>2, PresenceTypes, PTL DEF Spec

\* Once nothing is under way every tab shows exactly the others who have the board
\* open, except users whose sockets overlapped or closed while they joined.
THEOREM PeersAreRight == Spec => []PeersSettle
<1>1. PresenceTypeOK /\ PresenceInv => PeersSettle
  <2>. SUFFICES ASSUME PresenceTypeOK, PresenceInv, Quiescent, NEW t \in opened,
                       NEW u \in User \ (blurred \cup {UserOf[t]})
                PROVE  peers[t][u] # None <=> Online(u)
    BY DEF PeersSettle
  <2>1. \A c : \A names : ~Waits(c, names)
    <3>1. Len(pipe) = 0
      BY DEF Quiescent
    <3>. QED  BY <3>1 DEF Waits
  <2>2. \A s \in opened : /\ s \in Tab /\ cur[s] \in Room /\ cur[s] \in joined
                          /\ Who(cur[s]) = UserOf[s]
    <3>1. \A s \in opened : s \in Tab /\ cur[s] \in joined
      BY DEF Quiescent, PresenceTypeOK
    <3>. QED  BY <3>1, OwnSocket
  <2>3. /\ \A d \in Room : Who(d) = u => peers[t][u] # None
        /\ peers[t][u] # None => \E d \in Room : Who(d) = u
    BY <2>1, <2>2 DEF PresenceInv, TabsInStep
  <2>4. \A d \in Room : \E s \in opened : d = cur[s]
    BY DEF Room, Quiescent
  <2>. QED  BY <2>2, <2>3, <2>4 DEF Online
<1>. QED  BY <1>1, PresenceTypes, PresenceInvariant, PTL
=============================================================================
