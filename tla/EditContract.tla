---------------------------- MODULE EditContract ----------------------------
(***************************************************************************)
(* What the server promises about an edit, whatever it does to tickets,    *)
(* queues and copies: an edit reaches Azure DevOps only once it is in the  *)
(* log, and the log's answer on it is true and given once.  After a failed *)
(* call or a restart an answer may change, and 'failed' may be said of an  *)
(* edit that Azure DevOps has; 'synced' may never be said of one it has    *)
(* not.                                                                    *)
(***************************************************************************)
CONSTANT Op

VARIABLES
  fate,    \* what the log says of each edit
  landed,  \* the edits Azure DevOps has recorded
  trouble  \* whether a call failed or the process restarted

Answers == {"synced", "failed"}

Init ==
  /\ fate = [o \in Op |-> "none"]
  /\ landed = {}
  /\ trouble = FALSE

\* Trouble never ends; it may come with any step, or on its own.
Unsettled == trouble => trouble'

Accept(o) ==
  /\ fate[o] = "none"
  /\ fate' = [fate EXCEPT ![o] = "pending"]
  /\ UNCHANGED landed /\ Unsettled

\* An edit in the log that is not answered for; in trouble, it may be answered again.
Open(o) == fate[o] = "pending" \/ (trouble /\ fate[o] # "none")

\* An edit is written while it is open: not before it is logged, nor once it is answered for.
Land(o) ==
  /\ Open(o)
  /\ landed' = landed \cup {o}
  /\ UNCHANGED fate /\ Unsettled

Answer(o, answer) ==
  /\ Open(o)
  /\ IF o \in landed THEN answer = "synced" \/ trouble ELSE answer = "failed"
  /\ fate' = [fate EXCEPT ![o] = answer]
  /\ UNCHANGED landed /\ Unsettled

Trouble == trouble' /\ UNCHANGED <<fate, landed>>

Next ==
  \/ \E o \in Op : Accept(o) \/ Land(o) \/ \E answer \in Answers : Answer(o, answer)
  \/ Trouble

Spec == Init /\ [][Next]_<<fate, landed, trouble>>
=============================================================================
