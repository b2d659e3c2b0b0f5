---------------------------- MODULE UploadStore ----------------------------
(***************************************************************************)
(* What an upload promises of the server's files (ftp_write_image,         *)
(* ftp_write_status): the file of an upload is at any time the first       *)
(* halves of buffers of what is uploaded, whether the upload succeeds or   *)
(* fails in the middle, and all of them when it returns 0.  An upload that *)
(* skips data, because an error was taken for the end of a file or a       *)
(* refusal for success, promises only the order of what it stores; and a   *)
(* data task that was left running is bound to nothing but to add to the   *)
(* end of an earlier file.  FtpUpload, with its commands, replies and      *)
(* timeouts, is shown to implement this.                                   *)
(***************************************************************************)
EXTENDS Integers, Sequences, FiniteSetsExt, SequencesExt

CONSTANT Parts      \* the uploads: of how many buffers each is

VARIABLES upload,   \* the last that was begun, 0 before the first
          working,  \* it has not ended
          result,   \* of the last that ended
          skipped,  \* it skipped data
          stray,    \* a data task was once left running
          stored    \* the file of each upload, in halves of buffers

vars == <<upload, working, result, skipped, stray, stored>>

Uploads == DOMAIN Parts
Whole(u) == [i \in 1 .. 2 * Parts[u] |-> <<u, (i + 1) \div 2>>]

InOrder(u, s) ==
  \A i \in DOMAIN s :
    /\ s[i][1] = u /\ s[i][2] > 0
    /\ \A j \in 1 .. i - 1 : s[j][2] <= s[i][2]
    /\ Cardinality({j \in DOMAIN s : s[j] = s[i]}) <= 2

Init ==
  /\ upload = 0 /\ ~working /\ result = 0
  /\ ~skipped /\ ~stray
  /\ stored = [u \in Uploads |-> <<>>]

Begin ==
  /\ ~working /\ working'
  /\ upload' = upload + 1 /\ upload' \in Uploads
  /\ result' = 0 /\ ~skipped'
  /\ UNCHANGED <<stray, stored>>

\* One half of a buffer, or both at once if they came before the server was told to
\* take them.
Store ==
  /\ working \/ stray
  /\ \E k \in 1 .. Parts[upload], n \in 1 .. 2 :
       LET more == stored[upload] \o [i \in 1 .. n |-> <<upload, k>>]
       IN /\ IF skipped THEN InOrder(upload, more) ELSE IsPrefix(more, Whole(upload))
          /\ stored' = [stored EXCEPT ![upload] = more]
  /\ UNCHANGED <<upload, working, result, skipped, stray>>

Skip ==
  /\ skipped'
  /\ UNCHANGED <<upload, working, result, stray, stored>>

End ==
  /\ working /\ ~working'
  /\ result' \in {0, -1}
  /\ result' = 0 /\ ~skipped => stored[upload] = Whole(upload)
  /\ stray => stray'
  /\ UNCHANGED <<upload, skipped, stored>>

\* What is in the buffer now goes to the end of an earlier file.
Stray ==
  /\ stray
  /\ \E u \in 1 .. upload - 1, k \in 0 .. Parts[upload] :
       stored' = [stored EXCEPT ![u] = Append(@, <<upload, k>>)]
  /\ UNCHANGED <<upload, working, result, skipped, stray>>

Next == Begin \/ Store \/ Skip \/ End \/ Stray

Spec == Init /\ [][Next]_vars
=============================================================================
