--------------------------- MODULE CaptureMailbox ---------------------------
(***************************************************************************)
(* What the capture queue promises its triggers (main.c:86): a mailbox of  *)
(* one place in front of one worker.  A submission reaches the worker if   *)
(* it waits, and otherwise replaces whatever is in the mailbox; a task     *)
(* leaves the mailbox only for a newer one or for the worker.  Submitting  *)
(* is atomic here; CaptureQueue, where a submission is a sequence of put   *)
(* and get that another interrupt can split, is shown to implement this.   *)
(***************************************************************************)
CONSTANTS Tasks,    \* the capture tasks
          NoTask    \* no task: an empty mailbox, a worker that waits

VARIABLES worker,   \* the task the worker was given, NoTask while it waits
          mail      \* the task in the mailbox

vars == <<worker, mail>>

Init == worker = NoTask /\ mail = NoTask

\* The worker is never left waiting while a task is in the mailbox.
Submit(t) ==
  IF worker = NoTask
  THEN worker' = t /\ UNCHANGED mail
  ELSE mail' = t /\ UNCHANGED worker

\* The worker is done with its task and turns to the mailbox.
Finish == /\ worker # NoTask
          /\ worker' = mail
          /\ mail' = NoTask

Next == Finish \/ \E t \in Tasks : Submit(t)

\* The worker gets done with every task, and so to whatever is in the mailbox.
Fairness == SF_vars(Finish)

Spec == Init /\ [][Next]_vars /\ Fairness
=============================================================================
