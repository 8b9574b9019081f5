-------------------------- MODULE SharedDataProofs --------------------------
(***************************************************************************)
(* Proofs about SharedData: its types, that a value a user entered is not  *)
(* replaced by ADO's, that a deleted annotation does not come back, and    *)
(* that an annotation follows its sprint.                                  *)
(***************************************************************************)
EXTENDS SharedData, SequenceTheorems, TLAPS

-----------------------------------------------------------------------------
(* The requests under way *)

AllRequests ==
  [from : Browser \cup {None}, kind : RequestKinds, iter : Indexes \cup {0},
   value : Value \cup {None}, view : Orders, read : BOOLEAN, list : Lists]

\* What the handlers rely on: an annotation's write has an index of its author's board,
\* a datum's a value.
Sound(request) ==
  /\ request.kind \in {"create", "move"} => request.iter \in DOMAIN request.view
  /\ request.kind \in Datum => request.value \in Value

RequestsOK ==
  /\ requests \in Seq(AllRequests)
  /\ \A r \in DOMAIN requests : Sound(requests[r])

\* Before the annotation exists there is one creation at most and nothing else of it;
\* afterwards there is no creation.
CreatesOnce ==
  /\ \A r \in DOMAIN requests :
       requests[r].kind = "create" =>
         /\ note = None
         /\ \A q \in DOMAIN requests : requests[q].kind = "create" => q = r
  /\ note = None => \A r \in DOMAIN requests : requests[r].kind \notin {"move", "remove"}

\* Nor is it on a board before it exists.
NotShownBefore == note = None => \A b \in Browser : noteAt[b] = 0

\* What is left of a sequence when one of its elements is removed.
LEMMA RemoveAtProperties ==
  ASSUME NEW S, NEW s \in Seq(S), NEW r \in DOMAIN s
  PROVE  /\ RemoveAt(s, r) \in Seq(S)
         /\ DOMAIN RemoveAt(s, r) = 1 .. Len(s) - 1
         /\ \A i \in 1 .. Len(s) - 1 :
              RemoveAt(s, r)[i] = s[IF i < r THEN i ELSE i + 1]
<1>. DEFINE n == Len(s)
            before == SubSeq(s, 1, r - 1)
            after  == SubSeq(s, r + 1, n)
<1>1. n \in Nat /\ DOMAIN s = 1 .. n /\ r \in 1 .. n /\ \A i \in 1 .. n : s[i] \in S
  BY LenProperties, ElementOfSeq
<1>2. /\ before \in Seq(S) /\ Len(before) = r - 1
      /\ \A i \in 1 .. r - 1 : before[i] = s[i]
  <2>1. \A i \in 1 .. r - 1 : s[i] \in S
    BY <1>1
  <2>2. 1 \in Int /\ r - 1 \in Int
    BY <1>1
  <2>3. /\ before \in Seq(S) /\ Len(before) = (IF 1 <= r - 1 THEN (r - 1) - 1 + 1 ELSE 0)
        /\ \A i \in 1 .. (r - 1) - 1 + 1 : before[i] = s[1 + i - 1]
    BY <2>1, <2>2, SubSeqProperties
  <2>. QED  BY <1>1, <2>3
<1>3. /\ after \in Seq(S) /\ Len(after) = n - r
      /\ \A i \in 1 .. n - r : after[i] = s[r + i]
  <2>1. \A i \in r + 1 .. n : s[i] \in S
    BY <1>1
  <2>2. r + 1 \in Int /\ n \in Int
    BY <1>1
  <2>3. /\ after \in Seq(S) /\ Len(after) = (IF r + 1 <= n THEN n - (r + 1) + 1 ELSE 0)
        /\ \A i \in 1 .. n - (r + 1) + 1 : after[i] = s[(r + 1) + i - 1]
    BY <2>1, <2>2, SubSeqProperties
  <2>. QED  BY <1>1, <2>3
<1>4. /\ before \o after \in Seq(S) /\ Len(before \o after) = n - 1
      /\ \A i \in 1 .. n - 1 :
           (before \o after)[i] = IF i <= r - 1 THEN before[i] ELSE after[i - (r - 1)]
  <2>1. /\ before \o after \in Seq(S) /\ Len(before \o after) = Len(before) + Len(after)
        /\ \A i \in 1 .. Len(before) + Len(after) :
             (before \o after)[i] =
               IF i <= Len(before) THEN before[i] ELSE after[i - Len(before)]
    BY <1>2, <1>3, ConcatProperties
  <2>2. Len(before) = r - 1 /\ Len(before) + Len(after) = n - 1
    BY <1>1, <1>2, <1>3
  <2>. HIDE DEF before, after
  <2>. QED  BY <2>1, <2>2
<1>5. DOMAIN (before \o after) = 1 .. n - 1
  BY <1>4, LenProperties
<1>6. ASSUME NEW i \in 1 .. n - 1
      PROVE  (before \o after)[i] = s[IF i < r THEN i ELSE i + 1]
  <2>1. CASE i < r
    BY <1>1, <1>2, <1>4, <2>1
  <2>2. CASE ~(i < r)
    <3>1. i - (r - 1) \in 1 .. n - r /\ r + (i - (r - 1)) = i + 1 /\ ~(i <= r - 1)
      BY <1>1, <2>2
    <3>. QED  BY <1>3, <1>4, <2>2, <3>1
  <2>. QED  BY <2>1, <2>2
<1>. QED  BY <1>4, <1>5, <1>6 DEF RemoveAt

\* A request that is served or lost leaves the others as they are.
LEMMA DoneKeeps ==
  ASSUME RequestsOK, NEW r \in DOMAIN requests, Done(r)
  PROVE  /\ RequestsOK'
         /\ \A i \in DOMAIN requests' : \E j \in DOMAIN requests : requests'[i] = requests[j]
         /\ CreatesOnce /\ note' = note => CreatesOnce'
         /\ CreatesOnce /\ requests[r].kind = "create" /\ note' # None => CreatesOnce'
<1>1. requests \in Seq(AllRequests)
  BY DEF RequestsOK
<1>2. /\ requests' \in Seq(AllRequests)
      /\ DOMAIN requests = 1 .. Len(requests) /\ Len(requests) \in Nat
      /\ DOMAIN requests' = 1 .. Len(requests) - 1
      /\ \A i \in 1 .. Len(requests) - 1 :
           requests'[i] = requests[IF i < r THEN i ELSE i + 1]
  BY <1>1, RemoveAtProperties, LenProperties DEF Done
<1>. DEFINE was(i) == IF i < r THEN i ELSE i + 1
<1>3. \A i \in DOMAIN requests' : was(i) \in DOMAIN requests \ {r}
  BY <1>2
<1>4. \A i, j \in DOMAIN requests' : was(i) = was(j) => i = j
  BY <1>2
<1>5. \A i \in DOMAIN requests' : requests'[i] = requests[was(i)]
  BY <1>2
<1>. HIDE DEF was
<1>6. RequestsOK'
  BY <1>2, <1>3, <1>5 DEF RequestsOK, Sound
<1>7. CreatesOnce /\ note' = note => CreatesOnce'
  BY <1>3, <1>4, <1>5 DEF CreatesOnce
<1>8. CreatesOnce /\ requests[r].kind = "create" /\ note' # None => CreatesOnce'
  <2>. SUFFICES ASSUME CreatesOnce, requests[r].kind = "create", note' # None,
                       NEW i \in DOMAIN requests', requests'[i].kind = "create"
                PROVE  FALSE
    BY DEF CreatesOnce
  <2>. QED  BY <1>3, <1>5 DEF CreatesOnce
<1>9. \A i \in DOMAIN requests' : \E j \in DOMAIN requests : requests'[i] = requests[j]
  BY <1>3, <1>5
<1>. QED  BY <1>6, <1>7, <1>8, <1>9

\* Requests that keep their kind, their value and their place, and their sound writes.
LEMMA SameRequests ==
  ASSUME RequestsOK, requests' \in Seq(AllRequests), DOMAIN requests' = DOMAIN requests,
         \A r \in DOMAIN requests :
           /\ requests'[r].kind = requests[r].kind /\ requests'[r].value = requests[r].value
           /\ requests'[r].iter = requests[r].iter /\ requests'[r].view = requests[r].view
  PROVE  RequestsOK' /\ (CreatesOnce /\ note' = note => CreatesOnce')
BY DEF RequestsOK, Sound, CreatesOnce

\* The path read for a request is stored in it.
LEMMA ReadPathKeeps ==
  ASSUME RequestsOK, iterations \in Lists, NEW r \in DOMAIN requests, ReadPath(r)
  PROVE  RequestsOK' /\ (CreatesOnce => CreatesOnce')
<1>1. requests \in Seq(AllRequests) /\ DOMAIN requests = 1 .. Len(requests)
  BY LenProperties DEF RequestsOK
<1>2. requests[r] \in AllRequests
  BY <1>1, ElementOfSeq
<1>. DEFINE q == [requests[r] EXCEPT !.read = TRUE, !.list = iterations]
<1>3. q \in AllRequests
  BY <1>2 DEF AllRequests
<1>4. requests' = [requests EXCEPT ![r] = q] /\ note' = note
  BY <1>2 DEF ReadPath, stored, AllRequests
<1>5. /\ requests' \in Seq(AllRequests) /\ Len(requests') = Len(requests)
      /\ \A i \in 1 .. Len(requests) : requests'[i] = IF i = r THEN q ELSE requests[i]
  BY <1>1, <1>3, <1>4, ExceptSeq
<1>6. DOMAIN requests' = DOMAIN requests
  BY <1>1, <1>5, LenProperties
<1>7. q.kind = requests[r].kind /\ q.value = requests[r].value
      /\ q.iter = requests[r].iter /\ q.view = requests[r].view
  BY <1>2 DEF AllRequests
<1>8. \A i \in DOMAIN requests :
        /\ requests'[i].kind = requests[i].kind /\ requests'[i].value = requests[i].value
        /\ requests'[i].iter = requests[i].iter /\ requests'[i].view = requests[i].view
  BY <1>1, <1>5, <1>7
<1>. QED  BY <1>4, <1>5, <1>6, <1>8, SameRequests

\* A page that loads forgets its requests, which go on.
LEMMA LoadKeeps ==
  ASSUME RequestsOK, NEW b \in Browser, Load(b)
  PROVE  RequestsOK' /\ (CreatesOnce => CreatesOnce')
<1>. DEFINE Q(r) == IF requests[r].from = b THEN [requests[r] EXCEPT !.from = None]
                                           ELSE requests[r]
<1>1. requests \in Seq(AllRequests) /\ DOMAIN requests = 1 .. Len(requests)
      /\ Len(requests) \in Nat
  BY LenProperties DEF RequestsOK
<1>2. \A r \in DOMAIN requests : requests[r] \in AllRequests
  BY <1>1, ElementOfSeq
<1>3. \A r \in DOMAIN requests :
        /\ Q(r) \in AllRequests
        /\ Q(r).kind = requests[r].kind /\ Q(r).value = requests[r].value
        /\ Q(r).iter = requests[r].iter /\ Q(r).view = requests[r].view
  BY <1>2 DEF AllRequests
<1>4. requests' = [r \in 1 .. Len(requests) |-> Q(r)] /\ note' = note
  BY <1>1 DEF Load, stored
<1>. HIDE DEF Q
<1>5. /\ requests' \in Seq(AllRequests) /\ DOMAIN requests' = DOMAIN requests
      /\ \A r \in DOMAIN requests : requests'[r] = Q(r)
  BY <1>1, <1>3, <1>4
<1>. QED  BY <1>3, <1>4, <1>5, SameRequests

\* A page sends a sound request; a creation only if there is none, nor a row.
LEMMA SendKeeps ==
  ASSUME RequestsOK, NEW q \in AllRequests, Sound(q), NEW topic, Send(q, topic)
  PROVE  /\ RequestsOK'
         /\ /\ CreatesOnce /\ note' = note
            /\ q.kind = "create" =>
                 note = None /\ \A r \in DOMAIN requests : requests[r].kind # "create"
            /\ q.kind \in {"move", "remove"} => note # None
            => CreatesOnce'
<1>1. requests \in Seq(AllRequests) /\ DOMAIN requests = 1 .. Len(requests)
      /\ Len(requests) \in Nat
  BY LenProperties DEF RequestsOK
<1>2. requests' = Append(requests, q)
  BY DEF Send
<1>3. /\ requests' \in Seq(AllRequests) /\ DOMAIN requests' = 1 .. Len(requests) + 1
      /\ \A r \in 1 .. Len(requests) : requests'[r] = requests[r]
      /\ requests'[Len(requests) + 1] = q
  BY <1>1, <1>2
<1>4. RequestsOK'
  BY <1>1, <1>3 DEF RequestsOK, Sound
<1>. QED  BY <1>1, <1>3, <1>4 DEF CreatesOnce

-----------------------------------------------------------------------------
(* The types *)

\* What a page asks for is a request, and a sound one.
LEMMA RequestType ==
  ASSUME SharedTypeOK, NEW b \in Browser, NEW kind \in RequestKinds,
         NEW i \in Indexes \cup {0}, NEW v \in Value \cup {None},
         kind \in {"create", "move"} => i \in DOMAIN view[b],
         kind \in Datum => v \in Value
  PROVE  Request(b, kind, i, v) \in AllRequests /\ Sound(Request(b, kind, i, v))
BY DEF SharedTypeOK, Request, AllRequests, Sound, Lists

LEMMA IndexTypes ==
  ASSUME NEW order \in Orders
  PROVE  /\ order \in Seq(Sprint) /\ order # <<>>
         /\ DOMAIN order \subseteq Indexes
         /\ \A i \in DOMAIN order : order[i] \in Sprint
         /\ 0 \notin DOMAIN order
<1>1. order \in Seq(Sprint) /\ order # <<>>
  BY SharedDataAssumption
<1>2. DOMAIN order = 1 .. Len(order) /\ Len(order) \in Nat
  BY <1>1, LenProperties
<1>. QED  BY <1>1, <1>2, ElementOfSeq DEF Indexes

\* The row that a request writes, and where a list has it.
LEMMA RowTypes ==
  ASSUME NEW q \in AllRequests, Sound(q), q.kind \in {"create", "move"}
  PROVE  RowOf(q) \in Rows /\ q.iter \in Indexes
<1>1. q.view \in Orders /\ q.list \in Lists /\ q.iter \in DOMAIN q.view
  BY DEF AllRequests, Sound
<1>2. q.iter \in Indexes /\ q.view[q.iter] \in Sprint
  BY <1>1, IndexTypes
<1>3. q.iter \in DOMAIN q.list => q.list[q.iter] \in Sprint
  BY <1>1, IndexTypes DEF Lists
<1>. QED  BY <1>2, <1>3 DEF RowOf, Rows

LEMMA IndexOfType ==
  ASSUME NEW row \in Rows, NEW order \in Lists
  PROVE  IndexOf(row, order) \in Indexes
<1>1. row.iter \in Indexes
  BY DEF Rows
<1>2. ASSUME Contains(order, row.path)
      PROVE  (CHOOSE i \in DOMAIN order : order[i] = row.path) \in Indexes
  <2>0. order \in Orders
    BY <1>2, EmptySeq DEF Lists, Contains
  <2>1. order \in Seq(Sprint) /\ DOMAIN order \subseteq Indexes
    BY <2>0, IndexTypes
  <2>2. DOMAIN order = 1 .. Len(order)
    BY <2>1, LenProperties
  <2>3. \E i \in DOMAIN order : order[i] = row.path
    BY <1>2, <2>2 DEF Contains
  <2>. QED  BY <2>1, <2>3
<1>. QED  BY <1>1, <1>2 DEF IndexOf

\* The state, but for the requests.
ServerTypes ==
  /\ sprints \in Orders /\ iterations \in Lists /\ seed \in BOOLEAN
  /\ edits \in [Topics -> 0..MaxEdits] /\ events \in 0..MaxEvents
StoredTypes ==
  /\ note \in Rows \cup {None, Gone}
  /\ data \in [Datum -> Data] /\ edited \in [Datum -> Value \cup {None}]
PageTypes ==
  /\ view \in [Browser -> Orders] /\ noteAt \in [Browser -> Indexes \cup {0}]
  /\ listing \in [Browser -> BOOLEAN] /\ shown \in [Browser -> [Datum -> Data]]
  /\ answers \in [Browser -> Data \cup {"none"}]

LEMMA TypesAre ==
  /\ SharedTypeOK => ServerTypes /\ StoredTypes /\ PageTypes
  /\ ServerTypes /\ StoredTypes /\ PageTypes /\ RequestsOK => SharedTypeOK
BY DEF SharedTypeOK, ServerTypes, StoredTypes, PageTypes, RequestsOK, AllRequests, Sound

\* The actions of a page that send a request.
Sends(b) ==
  \/ RemoveNote(b) \/ \E i \in Indexes : AddNote(b, i) \/ MoveNote(b, i)
  \/ \E d \in Datum, v \in Value : SetData(b, d, v)

LEMMA EditTypes ==
  ASSUME ServerTypes, NEW topic, Edit(topic)
  PROVE  edits' \in [Topics -> 0..MaxEdits] /\ events' = events
<1>1. MaxEdits \in Nat /\ edits \in [Topics -> 0..MaxEdits]
  BY SharedDataAssumption DEF ServerTypes
<1>2. topic \in Topics => edits[topic] + 1 \in 0..MaxEdits
  BY <1>1 DEF Edit
<1>3. edits' = [edits EXCEPT ![topic] = edits[topic] + 1] /\ events' = events
  BY DEF Edit
<1>. QED  BY <1>1, <1>2, <1>3

LEMMA ServerTypesStep ==
  ASSUME ServerTypes, Next
  PROVE  ServerTypes'
<1>1. ASSUME NEW b \in Browser, Load(b) PROVE ServerTypes'
  BY <1>1, SharedDataAssumption DEF Load, Event, ServerTypes
<1>2. ASSUME NEW b \in Browser, ListNotes(b) \/ PollRead(b) \/ PollAnswer(b)
      PROVE  ServerTypes'
  BY <1>2 DEF ListNotes, PollRead, PollAnswer, ServerTypes, Lists
<1>3. ASSUME NEW q, NEW topic, Send(q, topic) PROVE ServerTypes'
  BY <1>3, EditTypes DEF Send, ServerTypes
<1>4. ASSUME NEW b \in Browser, Sends(b) PROVE ServerTypes'
  BY <1>3, <1>4 DEF Sends, RemoveNote, AddNote, MoveNote, SetData
<1>5. ASSUME NEW r \in DOMAIN requests, RequestStep(r) PROVE ServerTypes'
  BY <1>5 DEF RequestStep, ReadPath, CreateNote, UpdateNote, DeleteNote, SetCapacity,
              SetMemberMeta, StoreData, ServerStays, ServerTypes
<1>6. ASSUME NEW r \in DOMAIN requests, LoseRequest(r) PROVE ServerTypes'
  BY <1>6, SharedDataAssumption DEF LoseRequest, Event, ServerTypes
<1>7. CASE Seed
  BY <1>7 DEF Seed, SeedStays, ServerTypes
<1>8. CASE Expire \/ Reorder
  BY <1>8, SharedDataAssumption DEF Expire, Reorder, OthersStay, Event, ServerTypes, Lists
<1>. QED  BY <1>1, <1>2, <1>4, <1>5, <1>6, <1>7, <1>8 DEF Next, Sends

LEMMA StoredTypesStep ==
  ASSUME StoredTypes, RequestsOK, Next
  PROVE  StoredTypes'
<1>1. ASSUME NEW r \in DOMAIN requests
      PROVE  requests[r] \in AllRequests /\ Sound(requests[r])
  BY <1>1, LenProperties, ElementOfSeq DEF RequestsOK
<1>2. ASSUME NEW r \in DOMAIN requests, ReadPath(r) PROVE StoredTypes'
  BY <1>2 DEF ReadPath, stored, StoredTypes
<1>3. ASSUME NEW r \in DOMAIN requests, CreateNote(r) \/ UpdateNote(r) \/ DeleteNote(r)
      PROVE  StoredTypes'
  <2>1. (CreateNote(r) \/ UpdateNote(r)) => RowOf(requests[r]) \in Rows
    BY <1>1, RowTypes DEF CreateNote, UpdateNote
  <2>. QED  BY <1>3, <2>1 DEF CreateNote, UpdateNote, DeleteNote, StoredTypes
<1>4. ASSUME NEW r \in DOMAIN requests, NEW d \in Datum, StoreData(r, d)
      PROVE  StoredTypes'
  <2>1. requests[r].value \in Value
    BY <1>1, <1>4 DEF StoreData, Sound
  <2>. QED  BY <1>4, <2>1 DEF StoreData, StoredTypes, Data
<1>5. ASSUME NEW r \in DOMAIN requests, RequestStep(r) PROVE StoredTypes'
  BY <1>2, <1>3, <1>4, <1>5 DEF RequestStep, SetCapacity, SetMemberMeta, Datum
<1>6. CASE Seed
  BY <1>6 DEF Seed, SeedStays, StoredTypes, Data
<1>7. ASSUME UNCHANGED stored PROVE StoredTypes'
  BY <1>7 DEF stored, StoredTypes
<1>8. ASSUME NEW b \in Browser,
             Load(b) \/ ListNotes(b) \/ PollRead(b) \/ PollAnswer(b) \/ Sends(b)
      PROVE  UNCHANGED stored
  BY <1>8 DEF Load, ListNotes, PollRead, PollAnswer, Sends, RemoveNote, AddNote, MoveNote,
              SetData, Send
<1>9. ASSUME Expire \/ Reorder \/ \E r \in DOMAIN requests : LoseRequest(r)
      PROVE  UNCHANGED stored
  BY <1>9 DEF Expire, Reorder, LoseRequest, OthersStay
<1>. QED  BY <1>5, <1>6, <1>7, <1>8, <1>9 DEF Next, Sends

LEMMA PageTypesStep ==
  ASSUME PageTypes, ServerTypes, StoredTypes, RequestsOK, Next
  PROVE  PageTypes'
<1>1. ASSUME NEW r \in DOMAIN requests
      PROVE  requests[r] \in AllRequests /\ Sound(requests[r])
  BY <1>1, LenProperties, ElementOfSeq DEF RequestsOK
<1>2. ASSUME NEW b \in Browser, Load(b) PROVE PageTypes'
  BY <1>2 DEF Load, stored, PageTypes, ServerTypes, StoredTypes, Lists
<1>3. ASSUME NEW b \in Browser, ListNotes(b) PROVE PageTypes'
  <2>1. IsRow => IndexOf(note, iterations) \in Indexes
    BY IndexOfType DEF IsRow, StoredTypes, ServerTypes
  <2>. QED  BY <1>3, <2>1 DEF ListNotes, PageTypes
<1>4. ASSUME NEW b \in Browser, PollRead(b) PROVE PageTypes'
  BY <1>4 DEF PollRead, page, PageTypes, StoredTypes, Datum
<1>5. ASSUME NEW b \in Browser, PollAnswer(b) PROVE PageTypes'
  BY <1>5 DEF PollAnswer, Show, PageTypes, Datum
<1>6. ASSUME NEW b \in Browser, RemoveNote(b) PROVE PageTypes'
  BY <1>6 DEF RemoveNote, Send, PageTypes
<1>7. ASSUME NEW b \in Browser, NEW i \in Indexes, AddNote(b, i) \/ MoveNote(b, i)
      PROVE  PageTypes'
  BY <1>7 DEF AddNote, MoveNote, Send, PageTypes
<1>8. ASSUME NEW b \in Browser, NEW d \in Datum, NEW v \in Value, SetData(b, d, v)
      PROVE  PageTypes'
  BY <1>8 DEF SetData, Show, Send, PageTypes, Data
<1>9. ASSUME NEW r \in DOMAIN requests, CreateNote(r) PROVE PageTypes'
  <2>1. requests[r].iter \in Indexes
    BY <1>1, <1>9, RowTypes DEF CreateNote
  <2>. QED  BY <1>9, <2>1 DEF CreateNote, ServerStays, PageTypes
<1>10. ASSUME UNCHANGED <<page, listing, answers>> PROVE PageTypes'
  BY <1>10 DEF page, PageTypes
<1>11. ASSUME NEW r \in DOMAIN requests,
              ReadPath(r) \/ UpdateNote(r) \/ DeleteNote(r) \/ SetCapacity(r)
              \/ SetMemberMeta(r) \/ LoseRequest(r)
       PROVE  UNCHANGED <<page, listing, answers>>
  BY <1>11 DEF ReadPath, UpdateNote, DeleteNote, SetCapacity, SetMemberMeta, StoreData,
               LoseRequest, ServerStays, page
<1>12. ASSUME Seed \/ Expire \/ Reorder PROVE UNCHANGED <<page, listing, answers>>
  BY <1>12 DEF Seed, Expire, Reorder, SeedStays, OthersStay, page
<1>. QED  BY <1>2, <1>3, <1>4, <1>5, <1>6, <1>7, <1>8, <1>9, <1>10, <1>11, <1>12
          DEF Next, RequestStep

LEMMA RequestsStep ==
  ASSUME SharedTypeOK, RequestsOK, CreatesOnce, NotShownBefore, Next
  PROVE  RequestsOK' /\ CreatesOnce'
<1>1. ASSUME NEW b \in Browser, Load(b) PROVE RequestsOK' /\ CreatesOnce'
  BY <1>1, LoadKeeps
<1>2. ASSUME NEW b \in Browser, RemoveNote(b) PROVE RequestsOK' /\ CreatesOnce'
  <2>. DEFINE q == Request(b, "remove", noteAt[b], None)
  <2>1. noteAt[b] \in Indexes \cup {0}
    BY DEF SharedTypeOK
  <2>2. q \in AllRequests /\ Sound(q)
    BY <2>1, RequestType DEF RequestKinds, Datum
  <2>3. Send(q, "annotation") /\ note' = note /\ note # None /\ q.kind # "create"
    BY <1>2 DEF RemoveNote, Send, stored, Request, NotShownBefore
  <2>. QED  BY <2>2, <2>3, SendKeeps
<1>3. ASSUME NEW b \in Browser, NEW i \in Indexes, AddNote(b, i)
      PROVE  RequestsOK' /\ CreatesOnce'
  <2>. DEFINE q == Request(b, "create", i, None)
  <2>1. q \in AllRequests /\ Sound(q)
    BY <1>3, RequestType DEF AddNote, RequestKinds, Datum
  <2>2. /\ Send(q, "annotation") /\ note' = note /\ note = None /\ q.kind = "create"
        /\ \A r \in DOMAIN requests : requests[r].kind # "create"
    BY <1>3 DEF AddNote, Send, stored, Request
  <2>. HIDE DEF q
  <2>. QED  BY <2>1, <2>2, SendKeeps
<1>4. ASSUME NEW b \in Browser, NEW i \in Indexes, MoveNote(b, i)
      PROVE  RequestsOK' /\ CreatesOnce'
  <2>. DEFINE q == Request(b, "move", i, None)
  <2>1. q \in AllRequests /\ Sound(q)
    BY <1>4, RequestType DEF MoveNote, RequestKinds, Datum
  <2>2. Send(q, "annotation") /\ note' = note /\ note # None /\ q.kind # "create"
    BY <1>4 DEF MoveNote, Send, stored, Request, NotShownBefore
  <2>. QED  BY <2>1, <2>2, SendKeeps
<1>5. ASSUME NEW b \in Browser, NEW d \in Datum, NEW v \in Value, SetData(b, d, v)
      PROVE  RequestsOK' /\ CreatesOnce'
  <2>. DEFINE q == Request(b, d, 0, v)
  <2>1. q \in AllRequests /\ Sound(q)
    BY RequestType DEF RequestKinds, Datum
  <2>2. Send(q, "data") /\ note' = note /\ q.kind \notin {"create", "move", "remove"}
    BY <1>5 DEF SetData, Send, stored, Request, Datum
  <2>. QED  BY <2>1, <2>2, SendKeeps
<1>6. ASSUME NEW r \in DOMAIN requests, ReadPath(r) PROVE RequestsOK' /\ CreatesOnce'
  BY <1>6, ReadPathKeeps DEF SharedTypeOK
<1>7. ASSUME NEW r \in DOMAIN requests, CreateNote(r) PROVE RequestsOK' /\ CreatesOnce'
  <2>1. requests[r] \in AllRequests /\ Sound(requests[r])
    BY LenProperties, ElementOfSeq DEF RequestsOK
  <2>2. note' # None
    BY <1>7, <2>1, RowTypes, NoteAssumption DEF CreateNote
  <2>. QED  BY <1>7, <2>2, DoneKeeps DEF CreateNote
<1>8. ASSUME NEW r \in DOMAIN requests, UpdateNote(r) \/ DeleteNote(r)
      PROVE  RequestsOK' /\ CreatesOnce'
  <2>1. note # None /\ note' # None /\ RequestsOK' /\ Done(r)
    <3>1. requests[r] \in AllRequests /\ Sound(requests[r])
      BY LenProperties, ElementOfSeq DEF RequestsOK
    <3>2. note # None
      BY <1>8 DEF UpdateNote, DeleteNote, CreatesOnce
    <3>3. Done(r)
      BY <1>8 DEF UpdateNote, DeleteNote
    <3>4. note' # None
      BY <1>8, <3>1, <3>2, RowTypes, NoteAssumption DEF UpdateNote, DeleteNote
    <3>. QED  BY <3>2, <3>3, <3>4, DoneKeeps
  <2>2. \A q \in DOMAIN requests : requests[q].kind # "create"
    BY <2>1 DEF CreatesOnce
  <2>3. \A q \in DOMAIN requests' : requests'[q].kind # "create"
    BY <2>1, <2>2, DoneKeeps
  <2>. QED  BY <2>1, <2>3 DEF CreatesOnce
<1>9. ASSUME NEW r \in DOMAIN requests,
             SetCapacity(r) \/ SetMemberMeta(r) \/ LoseRequest(r)
      PROVE  RequestsOK' /\ CreatesOnce'
  <2>1. Done(r) /\ note' = note
    BY <1>9 DEF SetCapacity, SetMemberMeta, StoreData, LoseRequest, stored
  <2>. QED  BY <2>1, DoneKeeps
<1>10. ASSUME UNCHANGED <<requests, note>> PROVE RequestsOK' /\ CreatesOnce'
  BY <1>10 DEF RequestsOK, CreatesOnce, Sound
<1>11. ASSUME NEW b \in Browser, ListNotes(b) \/ PollRead(b) \/ PollAnswer(b)
       PROVE  UNCHANGED <<requests, note>>
  BY <1>11 DEF ListNotes, PollRead, PollAnswer, stored
<1>12. ASSUME Seed \/ Expire \/ Reorder PROVE UNCHANGED <<requests, note>>
  BY <1>12 DEF Seed, Expire, Reorder, SeedStays, OthersStay, stored
<1>. QED  BY <1>1, <1>2, <1>3, <1>4, <1>5, <1>6, <1>7, <1>8, <1>9, <1>10, <1>11, <1>12
          DEF Next, RequestStep

LEMMA NotShownStep ==
  ASSUME SharedTypeOK, RequestsOK, NotShownBefore, Next
  PROVE  NotShownBefore'
<1>1. ASSUME NEW b \in Browser, Load(b) \/ PollRead(b) \/ PollAnswer(b)
      PROVE  NotShownBefore'
  BY <1>1 DEF Load, PollRead, PollAnswer, stored, page, NotShownBefore, SharedTypeOK
<1>2. ASSUME NEW b \in Browser, ListNotes(b) PROVE NotShownBefore'
  BY <1>2 DEF ListNotes, stored, IsRow, NotShownBefore, SharedTypeOK
<1>3. ASSUME NEW b \in Browser, Sends(b) PROVE NotShownBefore'
  BY <1>3 DEF Sends, RemoveNote, AddNote, MoveNote, SetData, Send, stored, NotShownBefore,
              SharedTypeOK
<1>4. ASSUME NEW r \in DOMAIN requests, CreateNote(r) \/ UpdateNote(r) \/ DeleteNote(r)
      PROVE  NotShownBefore'
  <2>1. requests[r] \in AllRequests /\ Sound(requests[r])
    BY LenProperties, ElementOfSeq DEF RequestsOK
  <2>2. CASE note' = None
    BY <1>4, <2>1, <2>2, RowTypes, NoteAssumption
       DEF CreateNote, UpdateNote, DeleteNote, NotShownBefore
  <2>3. CASE note' # None
    BY <2>3 DEF NotShownBefore
  <2>. QED  BY <2>2, <2>3
<1>5. ASSUME UNCHANGED <<note, noteAt>> PROVE NotShownBefore'
  BY <1>5 DEF NotShownBefore
<1>6. ASSUME NEW r \in DOMAIN requests,
             ReadPath(r) \/ SetCapacity(r) \/ SetMemberMeta(r) \/ LoseRequest(r)
      PROVE  UNCHANGED <<note, noteAt>>
  BY <1>6 DEF ReadPath, SetCapacity, SetMemberMeta, StoreData, LoseRequest, stored, page
<1>7. ASSUME Seed \/ Expire \/ Reorder PROVE UNCHANGED <<note, noteAt>>
  BY <1>7 DEF Seed, Expire, Reorder, SeedStays, OthersStay, stored, page
<1>. QED  BY <1>1, <1>2, <1>3, <1>4, <1>5, <1>6, <1>7 DEF Next, Sends, RequestStep

-----------------------------------------------------------------------------
(* The theorems *)

\* The inductive invariant: the types, sound requests, and nothing of the annotation
\* before it exists nor a creation of it afterwards.
NoteInv == SharedTypeOK /\ RequestsOK /\ CreatesOnce /\ NotShownBefore

LEMMA NoteInvInit == Init => NoteInv
<1>. SUFFICES ASSUME Init PROVE NoteInv
  OBVIOUS
<1>1. PICK i \in 0..1 :
        /\ note = IF i = 0 THEN None
                  ELSE [iter |-> i, path |-> iterations[i], meant |-> iterations[i],
                        sure |-> TRUE]
        /\ noteAt = [b \in Browser |-> i]
  BY DEF Init
<1>2. iterations \in Orders /\ iterations \in Seq(Sprint) /\ iterations # <<>>
  BY IndexTypes DEF Init
<1>3. 1 \in DOMAIN iterations
  BY <1>2, EmptySeq, LenProperties
<1>4. 1 \in Indexes /\ iterations[1] \in Sprint
  BY <1>2, <1>3, IndexTypes
<1>5. note \in Rows \cup {None, Gone} /\ noteAt \in [Browser -> Indexes \cup {0}]
  BY <1>1, <1>4 DEF Rows
<1>6. requests = <<>> /\ requests \in Seq(AllRequests) /\ DOMAIN requests = {}
  BY EmptySeq, LenProperties DEF Init
<1>7. RequestsOK /\ CreatesOnce
  BY <1>6 DEF RequestsOK, CreatesOnce
<1>8. NotShownBefore
  <2>. SUFFICES ASSUME i = 1 PROVE note # None
    BY <1>1 DEF NotShownBefore
  <2>1. note \in Rows
    BY <1>1, <1>4 DEF Rows
  <2>. QED  BY <2>1, NoteAssumption
<1>9. ServerTypes /\ StoredTypes /\ PageTypes
  BY <1>5, SharedDataAssumption
     DEF Init, ServerTypes, StoredTypes, PageTypes, Lists, Data, Datum, Topics
<1>. QED  BY <1>7, <1>8, <1>9, TypesAre DEF NoteInv

LEMMA NoteInvStep == NoteInv /\ [Next]_vars => NoteInv'
<1>. SUFFICES ASSUME NoteInv, [Next]_vars PROVE NoteInv'
  OBVIOUS
<1>1. CASE Next
  <2>1. ServerTypes /\ StoredTypes /\ PageTypes
    BY TypesAre DEF NoteInv
  <2>2. ServerTypes' /\ StoredTypes' /\ PageTypes'
    BY <1>1, <2>1, ServerTypesStep, StoredTypesStep, PageTypesStep DEF NoteInv
  <2>3. RequestsOK' /\ CreatesOnce' /\ NotShownBefore'
    BY <1>1, RequestsStep, NotShownStep DEF NoteInv
  <2>4. ServerTypes' /\ StoredTypes' /\ PageTypes' /\ RequestsOK' => SharedTypeOK'
    BY DEF SharedTypeOK, ServerTypes, StoredTypes, PageTypes, RequestsOK, AllRequests, Sound
  <2>. QED  BY <2>2, <2>3, <2>4 DEF NoteInv
<1>2. CASE UNCHANGED vars
  BY <1>2 DEF NoteInv, SharedTypeOK, RequestsOK, CreatesOnce, NotShownBefore, Sound, vars,
              stored, page
<1>. QED  BY <1>1, <1>2

LEMMA NoteInvariant == Spec => []NoteInv
BY NoteInvInit, NoteInvStep, PTL DEF Spec

\* Every variable of SharedData keeps its type.
THEOREM SharedTypes == Spec => []SharedTypeOK
<1>1. NoteInv => SharedTypeOK
  BY DEF NoteInv
<1>. QED  BY <1>1, NoteInvariant, PTL

\* What a user entered stays until another user's request: neither the seed from ADO nor
\* anything else replaces it.
THEOREM EnteredValuesStay == Spec => []EditedStays
<1>1. Init => EditedStays
  BY DEF Init, EditedStays
<1>2. NoteInv /\ EditedStays /\ [Next]_vars => EditedStays'
  <2>. SUFFICES ASSUME NoteInv, EditedStays, [Next]_vars PROVE EditedStays'
    OBVIOUS
  <2>0. data \in [Datum -> Data] /\ edited \in [Datum -> Value \cup {None}]
    BY DEF NoteInv, SharedTypeOK
  <2>1. ASSUME NEW r \in DOMAIN requests, NEW d, StoreData(r, d) PROVE EditedStays'
    BY <2>0, <2>1 DEF StoreData, EditedStays
  <2>2. CASE Seed
    BY <2>0, <2>2 DEF Seed, SeedStays, EditedStays
  <2>3. ASSUME UNCHANGED <<data, edited>> PROVE EditedStays'
    BY <2>3 DEF EditedStays
  <2>4. ASSUME NEW b \in Browser,
               Load(b) \/ ListNotes(b) \/ PollRead(b) \/ PollAnswer(b) \/ Sends(b)
        PROVE  UNCHANGED <<data, edited>>
    BY <2>4 DEF Load, ListNotes, PollRead, PollAnswer, Sends, RemoveNote, AddNote, MoveNote,
                SetData, Send, stored
  <2>5. ASSUME NEW r \in DOMAIN requests,
               ReadPath(r) \/ CreateNote(r) \/ UpdateNote(r) \/ DeleteNote(r) \/ LoseRequest(r)
        PROVE  UNCHANGED <<data, edited>>
    BY <2>5 DEF ReadPath, CreateNote, UpdateNote, DeleteNote, LoseRequest, stored
  <2>6. ASSUME Expire \/ Reorder \/ UNCHANGED vars PROVE UNCHANGED <<data, edited>>
    BY <2>6 DEF Expire, Reorder, OthersStay, stored, vars
  <2>. QED  BY <2>1, <2>2, <2>3, <2>4, <2>5, <2>6
            DEF Next, RequestStep, SetCapacity, SetMemberMeta, Sends
<1>. QED  BY <1>1, <1>2, NoteInvariant, PTL DEF Spec

\* A deleted annotation does not come back: no creation is under way once it existed, and
\* a move of a row that is gone stores nothing.
THEOREM DeletedStaysDeleted == Spec => GoneStaysGone
<1>1. NoteInv /\ [Next]_vars => (note = Gone => note' = Gone)
  <2>. SUFFICES ASSUME NoteInv, [Next]_vars, note = Gone PROVE note' = Gone
    OBVIOUS
  <2>1. ASSUME NEW r \in DOMAIN requests, CreateNote(r) PROVE FALSE
    BY <2>1, NoteAssumption DEF CreateNote, NoteInv, CreatesOnce
  <2>2. ASSUME NEW r \in DOMAIN requests, UpdateNote(r) \/ DeleteNote(r) PROVE note' = Gone
    BY <2>2 DEF UpdateNote, DeleteNote, IsRow
  <2>3. ASSUME NEW r \in DOMAIN requests,
               ReadPath(r) \/ SetCapacity(r) \/ SetMemberMeta(r) \/ LoseRequest(r)
        PROVE  note' = note
    BY <2>3 DEF ReadPath, SetCapacity, SetMemberMeta, StoreData, LoseRequest, stored
  <2>4. ASSUME NEW b \in Browser,
               Load(b) \/ ListNotes(b) \/ PollRead(b) \/ PollAnswer(b) \/ Sends(b)
        PROVE  note' = note
    BY <2>4 DEF Load, ListNotes, PollRead, PollAnswer, Sends, RemoveNote, AddNote, MoveNote,
                SetData, Send, stored
  <2>5. ASSUME Seed \/ Expire \/ Reorder \/ UNCHANGED vars PROVE note' = note
    BY <2>5 DEF Seed, Expire, Reorder, SeedStays, OthersStay, stored, vars
  <2>. QED  BY <2>1, <2>2, <2>3, <2>4, <2>5 DEF Next, RequestStep, Sends
<1>2. NoteInv /\ [Next]_vars => [note = Gone => note' = Gone]_vars
  BY <1>1
<1>. QED  BY <1>2, NoteInvariant, PTL DEF Spec, GoneStaysGone

-----------------------------------------------------------------------------
(* Where an annotation is shown *)

\* The path of a row whose author and server had the same list is the sprint meant.
PathsMeant == IsRow /\ note.sure => note.path = note.meant /\ note.meant \in Sprint

LEMMA RowMeant ==
  ASSUME RequestsOK, NEW r \in DOMAIN requests, requests[r].kind \in {"create", "move"},
         NEW row, row = RowOf(requests[r]), row.sure
  PROVE  row.path = row.meant /\ row.meant \in Sprint
<1>1. requests[r] \in AllRequests
  BY ElementOfSeq DEF RequestsOK
<1>2. requests[r].iter \in DOMAIN requests[r].view /\ requests[r].view \in Seq(Sprint)
  BY <1>1, SharedDataAssumption DEF RequestsOK, Sound, AllRequests
<1>3. requests[r].view[requests[r].iter] \in Sprint
  BY <1>2, ElementOfSeq
<1>. QED  BY <1>2, <1>3 DEF RowOf

LEMMA PathsMeantStep ==
  ASSUME NoteInv, PathsMeant, [Next]_vars
  PROVE  PathsMeant'
<1>1. ASSUME NEW r \in DOMAIN requests, CreateNote(r) \/ UpdateNote(r) PROVE PathsMeant'
  <2>1. \/ note' = note
        \/ note' = RowOf(requests[r]) /\ requests[r].kind \in {"create", "move"}
    BY <1>1 DEF CreateNote, UpdateNote
  <2>2. CASE note' = note
    BY <2>2 DEF PathsMeant, IsRow
  <2>3. CASE note' = RowOf(requests[r]) /\ requests[r].kind \in {"create", "move"}
    BY <2>3, RowMeant DEF PathsMeant, NoteInv
  <2>. QED  BY <2>1, <2>2, <2>3
<1>2. ASSUME NEW r \in DOMAIN requests, DeleteNote(r) PROVE PathsMeant'
  BY <1>2 DEF DeleteNote, PathsMeant, IsRow
<1>3. ASSUME note' = note PROVE PathsMeant'
  BY <1>3 DEF PathsMeant, IsRow
<1>4. ASSUME NEW r \in DOMAIN requests,
             ReadPath(r) \/ SetCapacity(r) \/ SetMemberMeta(r) \/ LoseRequest(r)
      PROVE  note' = note
  BY <1>4 DEF ReadPath, SetCapacity, SetMemberMeta, StoreData, LoseRequest, stored
<1>5. ASSUME NEW b \in Browser,
             Load(b) \/ ListNotes(b) \/ PollRead(b) \/ PollAnswer(b) \/ Sends(b)
      PROVE  note' = note
  BY <1>5 DEF Load, ListNotes, PollRead, PollAnswer, Sends, RemoveNote, AddNote, MoveNote,
              SetData, Send, stored
<1>6. ASSUME Seed \/ Expire \/ Reorder \/ UNCHANGED vars PROVE note' = note
  BY <1>6 DEF Seed, Expire, Reorder, SeedStays, OthersStay, stored, vars
<1>. QED  BY <1>1, <1>2, <1>3, <1>4, <1>5, <1>6 DEF Next, RequestStep, Sends

\* The row is found at its path in a list that has it.
LEMMA IndexOfPath ==
  ASSUME NEW row, NEW order, row.path # None, Contains(order, row.path),
         order \in Seq(Sprint)
  PROVE  order[IndexOf(row, order)] = row.path
<1>1. \E i \in DOMAIN order : order[i] = row.path
  BY LenProperties DEF Contains
<1>. QED  BY <1>1 DEF IndexOf

\* A page stops waiting for the annotations when it gets them, and not otherwise.
LEMMA ListedOnce ==
  ASSUME NoteInv, [Next]_vars, NEW b \in Browser, listing[b], ~listing'[b]
  PROVE  ListNotes(b)
<1>0. listing \in [Browser -> BOOLEAN]
  BY DEF NoteInv, SharedTypeOK
<1>1. ASSUME NEW c \in Browser, Load(c) PROVE FALSE
  BY <1>0, <1>1 DEF Load
<1>2. ASSUME NEW c \in Browser, ListNotes(c) PROVE ListNotes(b)
  BY <1>0, <1>2 DEF ListNotes
<1>3. ASSUME NEW c \in Browser, PollRead(c) \/ PollAnswer(c) \/ Sends(c)
      PROVE  listing' = listing
  BY <1>3 DEF PollRead, PollAnswer, Sends, RemoveNote, AddNote, MoveNote, SetData, Send, page
<1>4. ASSUME NEW r \in DOMAIN requests, RequestStep(r) \/ LoseRequest(r)
      PROVE  listing' = listing
  BY <1>4 DEF RequestStep, ReadPath, CreateNote, UpdateNote, DeleteNote, SetCapacity,
              SetMemberMeta, StoreData, ServerStays, LoseRequest, page
<1>5. ASSUME Seed \/ Expire \/ Reorder \/ UNCHANGED vars PROVE listing' = listing
  BY <1>5 DEF Seed, Expire, Reorder, SeedStays, OthersStay, vars
<1>. QED  BY <1>1, <1>2, <1>3, <1>4, <1>5 DEF Next, Sends

\* A board that lists an annotation shows it on the sprint its author put it on.
THEOREM AnnotationsFollow == Spec => NotesFollowTheirSprint
<1>1. Init => PathsMeant
  <2>. SUFFICES ASSUME Init, IsRow, note.sure
                PROVE  note.path = note.meant /\ note.meant \in Sprint
    BY DEF PathsMeant
  <2>1. PICK i \in 0 .. 1 :
          note = IF i = 0 THEN None
                 ELSE [iter |-> i, path |-> iterations[i], meant |-> iterations[i], sure |-> TRUE]
    BY DEF Init
  <2>2. note = [iter |-> i, path |-> iterations[i], meant |-> iterations[i], sure |-> TRUE]
        /\ i = 1
    BY <2>1 DEF IsRow
  <2>3. iterations \in Seq(Sprint) /\ iterations # <<>>
    BY SharedDataAssumption DEF Init
  <2>4. iterations[1] \in Sprint
    BY <2>3
  <2>. QED  BY <2>2, <2>4
<1>2. NoteInv /\ PathsMeant /\ [Next]_vars => PathsMeant'
  BY PathsMeantStep
<1>3. ASSUME NoteInv, PathsMeant, [Next]_vars, NEW b \in Browser,
             listing[b], ~listing'[b], IsRow, note.sure,
             Contains(view[b], note.meant), iterations = view[b]
      PROVE  view[b][noteAt'[b]] = note.meant
  <2>1. ListNotes(b)
    BY <1>3, ListedOnce
  <2>2. noteAt'[b] = IndexOf(note, view[b])
    BY <1>3, <2>1 DEF ListNotes, NoteInv, SharedTypeOK
  <2>3. note.path = note.meant /\ note.path # None /\ view[b] \in Seq(Sprint)
    BY <1>3, SharedDataAssumption DEF PathsMeant, NoteInv, SharedTypeOK
  <2>. QED  BY <1>3, <2>2, <2>3, IndexOfPath
<1>. DEFINE A == \A b \in Browser :
                   /\ listing[b] /\ ~listing'[b]
                   /\ IsRow /\ note.sure /\ Contains(view[b], note.meant) /\ iterations = view[b]
                   => view[b][noteAt'[b]] = note.meant
<1>4. NoteInv /\ PathsMeant /\ [Next]_vars => [A]_vars
  BY <1>3
<1>. QED  BY <1>1, <1>2, <1>4, NoteInvariant, PTL DEF Spec, NotesFollowTheirSprint
=============================================================================
