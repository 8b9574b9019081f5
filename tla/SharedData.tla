----------------------------- MODULE SharedData -----------------------------
(***************************************************************************)
(* What the participants of a project share beside the tickets, kept in    *)
(* Postgres: an annotation of the release board (a milestone, or a flag on *)
(* a row: the code is the same), the capacity of a member in a sprint, and *)
(* the member's role.  Nothing of it is broadcast: a browser edits its own *)
(* copy, sends the request, and learns of the others' edits from its polls *)
(* (capacities) or by loading the page again (all the rest).               *)
(*                                                                         *)
(* The annotation is placed by the index of a sprint in the browser; the   *)
(* server stores, with the index, the path it finds there in its own list. *)
(* Requests of one browser may overtake each other.                        *)
(***************************************************************************)
EXTENDS Naturals, Sequences, SequencesExt

CONSTANTS
  Browser,
  Sprint,
  Orders,      \* lists of the project's sprints ADO may return
  Value,       \* capacities and roles a user can enter
  Days,        \* the capacity ADO gives
  None,        \* no value, no path, no annotation yet
  Gone,        \* the annotation was deleted
  MaxRequests, \* bound: requests under way together
  MaxEdits,    \* bound: edits of the users
  MaxEvents    \* bound: reloads, lost requests, expiries, changes of the sprints

ASSUME SharedDataAssumption ==
  /\ Orders \subseteq Seq(Sprint) \ {<<>>}
  /\ None \notin Value \cup Sprint \cup Browser /\ Days \notin Value \cup {None}
  /\ {MaxRequests, MaxEdits, MaxEvents} \subseteq Nat

Datum   == {"capacity", "role"}
Data    == Value \cup {Days, None}
Topics  == {"annotation", "data"}
Indexes == UNION {DOMAIN order : order \in Orders}

VARIABLES
  sprints,     \* the sprints in ADO
  iterations,  \* the session's list in Redis; <<>> when the key expired
  note,        \* the annotation's row, None before, Gone after
  data,        \* the member's rows in Postgres
  view,        \* the sprints of each browser's board
  noteAt,      \* the index each browser shows the annotation at; 0 when none
  listing,     \* getAnnotations under way
  shown,       \* capacities.store and memberMeta.store
  requests,    \* writes of the annotation and the data under way
  answers,     \* polls under way, with the capacity they read
  seed,        \* a creation has capacities of ADO to store
  edited,      \* history: the last value a user's request wrote
  edits, events

stored == <<note, data, edited>>
page   == <<view, noteAt, shown>>
vars == <<sprints, iterations, stored, page, listing, requests, answers, seed, edits, events>>

\* A row: the last known index and the path; as history, the sprint its author saw
\* there, and whether the server's list was the author's when it stored them.
Rows == [iter : Indexes, path : Sprint \cup {None}, meant : Sprint, sure : BOOLEAN]
IsRow == note \notin {None, Gone}

ASSUME NoteAssumption == {None, Gone} \cap Rows = {} /\ None # Gone

\* Bound: the edits of a behaviour are all of the annotation or all of the data.
Edit(topic) ==
  /\ \A other \in Topics \ {topic} : edits[other] = 0
  /\ edits[topic] < MaxEdits
  /\ edits' = [edits EXCEPT ![topic] = @ + 1]
  /\ UNCHANGED events

Event == events < MaxEvents /\ events' = events + 1 /\ UNCHANGED edits

-----------------------------------------------------------------------------
(* The browser's page *)

\* The page loads: the snapshot brings the sprints and the data, and the answers to
\* the page before are for nobody.  (How it may open without sprints is in Sessions.)
Load(b) ==
  /\ iterations # <<>>
  /\ view' = [view EXCEPT ![b] = iterations]
  /\ noteAt' = [noteAt EXCEPT ![b] = 0]
  /\ shown' = [shown EXCEPT ![b] = data]
  /\ listing' = [listing EXCEPT ![b] = TRUE]
  /\ answers' = [answers EXCEPT ![b] = "none"]
  /\ requests' = [r \in DOMAIN requests |->
                    IF requests[r].from = b THEN [requests[r] EXCEPT !.from = None]
                                            ELSE requests[r]]
  /\ Event
  /\ UNCHANGED <<sprints, iterations, stored, seed>>

\* Faulty variant: the stored index is answered, whatever the path says.
IndexOfIgnoringPath(row, order) == row.iter

\* Where a row is in a list of sprints: at its path, else at its last index.
IndexOf(row, order) ==
  IF row.path # None /\ Contains(order, row.path)
  THEN CHOOSE i \in DOMAIN order : order[i] = row.path
  ELSE row.iter

\* getAnnotations is served: it reads the iterations, then the rows.
ListNotes(b) ==
  /\ listing[b]
  /\ noteAt' = [noteAt EXCEPT ![b] = IF IsRow THEN IndexOf(note, iterations) ELSE 0]
  /\ listing' = [listing EXCEPT ![b] = FALSE]
  /\ UNCHANGED <<sprints, iterations, stored, view, shown, requests, answers, seed,
                 edits, events>>

\* A request of the page joins those under way; of an annotation's, the index and
\* the sprints its author sees, and the list the server will have read.
Request(b, kind, i, v) ==
  [from |-> b, kind |-> kind, iter |-> i, value |-> v, view |-> view[b],
   read |-> FALSE, list |-> <<>>]

Send(request, topic) ==
  /\ Len(requests) < MaxRequests
  /\ requests' = Append(requests, request)
  /\ Edit(topic)
  /\ UNCHANGED <<sprints, iterations, stored, view, listing, answers, seed>>

\* addMilestone, addFlag: shown when the server has answered.
AddNote(b, i) ==
  /\ i \in DOMAIN view[b] /\ note = None
  /\ \A r \in DOMAIN requests : requests[r].kind # "create"
  /\ Send(Request(b, "create", i, None), "annotation")
  /\ UNCHANGED <<noteAt, shown>>

\* Faulty variant: any index of the project's lists is taken.
MoveNoteAnywhere(b, i) ==
  /\ noteAt[b] # 0 /\ i # noteAt[b]
  /\ noteAt' = [noteAt EXCEPT ![b] = i]
  /\ Send(Request(b, "move", i, None), "annotation")
  /\ UNCHANGED shown

\* setMilestone, setFlag: shown at once.
MoveNote(b, i) ==
  /\ noteAt[b] # 0 /\ i \in DOMAIN view[b] \ {noteAt[b]}
  /\ noteAt' = [noteAt EXCEPT ![b] = i]
  /\ Send(Request(b, "move", i, None), "annotation")
  /\ UNCHANGED shown

\* removeMilestone, removeFlag.
RemoveNote(b) ==
  /\ noteAt[b] # 0
  /\ noteAt' = [noteAt EXCEPT ![b] = 0]
  /\ Send(Request(b, "remove", noteAt[b], None), "annotation")
  /\ UNCHANGED shown

\* The stores take what is entered or answered.
Show(b, d, v) == shown' = [shown EXCEPT ![b][d] = v]

\* setCapacity, setMemberMeta: shown at once; an unchanged role is not sent.
SetData(b, d, v) ==
  /\ d = "role" => shown[b][d] # v
  /\ Show(b, d, v)
  /\ Send(Request(b, d, 0, v), "data")
  /\ UNCHANGED noteAt

-----------------------------------------------------------------------------
(* The server: AnnotationsService, CapacitiesRepo, MemberMetaRepo *)

ServerStays == UNCHANGED <<sprints, iterations, view, shown, listing, answers, seed,
                           edits, events>>

Done(r) == requests' = RemoveAt(requests, r)

\* pathForIter reads the iterations before the row is written.
ReadPath(r) ==
  /\ requests[r].kind \in {"create", "move"} /\ ~requests[r].read
  /\ requests' = [requests EXCEPT ![r].read = TRUE, ![r].list = iterations]
  /\ UNCHANGED <<stored, noteAt>> /\ ServerStays

\* The row a request writes.
RowOf(request) ==
  LET i == request.iter IN
  [iter |-> i, path |-> IF i \in DOMAIN request.list THEN request.list[i] ELSE None,
   meant |-> request.view[i], sure |-> request.list = request.view]

\* The answer shows the annotation on the page that asked for it.
CreateNote(r) ==
  LET request == requests[r] IN
  /\ request.kind = "create" /\ request.read
  /\ note' = RowOf(request)
  /\ noteAt' = [b \in Browser |-> IF b = request.from THEN request.iter ELSE noteAt[b]]
  /\ Done(r)
  /\ UNCHANGED <<data, edited>> /\ ServerStays

\* Faulty variant: an annotation that is gone is created again.
UpdateNoteUpserts(r) ==
  /\ requests[r].kind = "move" /\ requests[r].read
  /\ note' = RowOf(requests[r])
  /\ Done(r)
  /\ UNCHANGED <<data, edited, noteAt>> /\ ServerStays

\* The update of a row that is gone fails; the browser says so.
UpdateNote(r) ==
  /\ requests[r].kind = "move" /\ requests[r].read
  /\ note' = IF IsRow THEN RowOf(requests[r]) ELSE note
  /\ Done(r)
  /\ UNCHANGED <<data, edited, noteAt>> /\ ServerStays

DeleteNote(r) ==
  /\ requests[r].kind = "remove"
  /\ note' = Gone
  /\ Done(r)
  /\ UNCHANGED <<data, edited, noteAt>> /\ ServerStays

\* The upsert of a datum.
StoreData(r, d) ==
  /\ requests[r].kind = d
  /\ data' = [data EXCEPT ![d] = requests[r].value]
  /\ edited' = [edited EXCEPT ![d] = requests[r].value]
  /\ Done(r)
  /\ UNCHANGED <<note, noteAt>> /\ ServerStays

SetCapacity(r)   == StoreData(r, "capacity")
SetMemberMeta(r) == StoreData(r, "role")

RequestStep(r) ==
  \/ ReadPath(r) \/ CreateNote(r) \/ UpdateNote(r) \/ DeleteNote(r)
  \/ SetCapacity(r) \/ SetMemberMeta(r)

\* A request is lost, or its handler fails: nothing is stored.
LoseRequest(r) ==
  /\ Done(r)
  /\ Event
  /\ UNCHANGED <<sprints, iterations, stored, page, listing, answers, seed>>

-----------------------------------------------------------------------------
(* Polls, the seed, Azure DevOps and Redis *)

\* A poll fills the iterations that expired, and reads the capacities.
PollRead(b) ==
  /\ \A other \in Browser : answers[other] = "none"   \* bound: one poll at a time
  /\ iterations' = IF iterations = <<>> THEN sprints ELSE iterations
  /\ answers' = [answers EXCEPT ![b] = data["capacity"]]
  /\ UNCHANGED <<sprints, stored, page, listing, requests, seed, edits, events>>

\* Faulty variant: the capacities of the answer are left aside.
PollAnswerTicketsOnly(b) ==
  /\ answers[b] # "none"
  /\ answers' = [answers EXCEPT ![b] = "none"]
  /\ UNCHANGED <<sprints, iterations, stored, page, listing, requests, seed,
                 edits, events>>

\* The answer replaces the capacities, one just entered included.
PollAnswer(b) ==
  /\ answers[b] # "none"
  /\ Show(b, "capacity", answers[b])
  /\ answers' = [answers EXCEPT ![b] = "none"]
  /\ UNCHANGED <<sprints, iterations, stored, view, noteAt, listing, requests, seed,
                 edits, events>>

SeedStays == UNCHANGED <<sprints, iterations, note, page, listing, requests, answers,
                         edited, edits, events>>

\* Faulty variant: ADO's capacity replaces what is there.
SeedOverwrites ==
  /\ seed
  /\ data' = [data EXCEPT !["capacity"] = Days]
  /\ seed' = FALSE
  /\ SeedStays

\* The creation of a session stores what it read in ADO where no capacity is
\* (skipDuplicates).
Seed ==
  /\ seed
  /\ data' = IF data["capacity"] = None THEN [data EXCEPT !["capacity"] = Days] ELSE data
  /\ seed' = FALSE
  /\ SeedStays

OthersStay == UNCHANGED <<stored, page, listing, requests, answers, seed>>

\* The keys of the session expire.
Expire ==
  /\ iterations # <<>>
  /\ iterations' = <<>>
  /\ Event
  /\ UNCHANGED sprints /\ OthersStay

\* Sprints are added or moved in ADO; Redis keeps its list until it expires.
Reorder ==
  /\ sprints' \in Orders \ {sprints}
  /\ Event
  /\ UNCHANGED iterations /\ OthersStay

-----------------------------------------------------------------------------

\* Pages are open, with ADO's list of now or of before; the annotation is not born
\* yet, or was put on the first sprint of that list.
Init ==
  /\ sprints \in Orders
  /\ iterations \in Orders
  /\ \E i \in 0..1 :
       /\ note = IF i = 0 THEN None
                 ELSE [iter |-> i, path |-> iterations[i], meant |-> iterations[i], sure |-> TRUE]
       /\ noteAt = [b \in Browser |-> i]
  /\ data = [d \in Datum |-> None]
  /\ view = [b \in Browser |-> iterations]
  /\ listing = [b \in Browser |-> FALSE]
  /\ shown = [b \in Browser |-> data]
  /\ requests = <<>>
  /\ answers = [b \in Browser |-> "none"]
  /\ seed = TRUE
  /\ edited = data
  /\ edits = [topic \in Topics |-> 0] /\ events = 0

Next ==
  \/ \E b \in Browser :
       \/ Load(b) \/ ListNotes(b) \/ PollRead(b) \/ PollAnswer(b) \/ RemoveNote(b)
       \/ \E i \in Indexes : AddNote(b, i) \/ MoveNote(b, i)
       \/ \E d \in Datum, v \in Value : SetData(b, d, v)
  \/ \E r \in DOMAIN requests : RequestStep(r) \/ LoseRequest(r)
  \/ Seed \/ Expire \/ Reorder

Spec == Init /\ [][Next]_vars

\* Requests are handled, and every board polls every five seconds: strong fairness,
\* as the bound on polls makes them wait for each other.
Fairness ==
  /\ WF_vars(\E r \in DOMAIN requests : RequestStep(r))
  /\ \A b \in Browser : SF_vars(PollRead(b)) /\ WF_vars(PollAnswer(b))
  /\ WF_vars(Seed)

FairSpec == Spec /\ Fairness

-----------------------------------------------------------------------------
(* Properties *)

RequestKinds == {"create", "move", "remove"} \cup Datum
Lists        == Orders \cup {<<>>}

\* Every variable has its type; a read request has a list, and an annotation's
\* write has an index its author's board has.
SharedTypeOK ==
  /\ sprints \in Orders /\ iterations \in Lists
  /\ note \in Rows \cup {None, Gone}
  /\ data \in [Datum -> Data] /\ edited \in [Datum -> Value \cup {None}]
  /\ view \in [Browser -> Orders] /\ noteAt \in [Browser -> Indexes \cup {0}]
  /\ listing \in [Browser -> BOOLEAN] /\ shown \in [Browser -> [Datum -> Data]]
  /\ requests \in Seq([from : Browser \cup {None}, kind : RequestKinds,
                       iter : Indexes \cup {0}, value : Value \cup {None},
                       view : Orders, read : BOOLEAN, list : Lists])
  /\ \A r \in DOMAIN requests :
       requests[r].kind \in {"create", "move"} =>
         requests[r].iter \in DOMAIN requests[r].view
  /\ answers \in [Browser -> Data \cup {"none"}]
  /\ seed \in BOOLEAN
  /\ edits \in [Topics -> 0..MaxEdits] /\ events \in 0..MaxEvents

\* Sprints added or moved in ADO leave an annotation on its sprint: a board that
\* lists it shows it on the sprint its author put it on, as long as that sprint is
\* still there, the author saw the list the server stored the path from, and the
\* board shows the list the server answers from.  (AnnotationsService.iterOf.)
NotesFollowTheirSprint ==
  [][\A b \in Browser :
       /\ listing[b] /\ ~listing'[b]
       /\ IsRow /\ note.sure /\ Contains(view[b], note.meant) /\ iterations = view[b]
       => view[b][noteAt'[b]] = note.meant]_vars

\* A deleted annotation does not come back, whatever moves of it the other boards,
\* which still show it, send or have sent.
GoneStaysGone == [][note = Gone => note' = Gone]_vars

\* A capacity or role that a user entered is never replaced but by another user's:
\* not by the seed from ADO, which read before or stores after.
EditedStays == \A d \in Datum : edited[d] # None => data[d] = edited[d]

\* When the edits stop every board ends with the stored capacity, although an old
\* poll answer may replace one just entered and requests overtake each other.
CapacitiesAgree ==
  <>[](\A b \in Browser : shown[b]["capacity"] = data["capacity"])
=============================================================================
