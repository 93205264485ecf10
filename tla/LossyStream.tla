----------------------------- MODULE LossyStream -----------------------------
(***************************************************************************)
(* What a shared-memory frame ring promises its readers.                   *)
(*                                                                         *)
(* Frames are numbered 1, 2, ... as the writer publishes them.  A reader   *)
(* moves forward only.  A FIFO reader takes the very next frame, or skips  *)
(* frames that have fallen more than a ring behind; any other reader takes *)
(* some newer frame.  A reader learns that the stream ended only when no   *)
(* published frame is left for it.                                         *)
(***************************************************************************)
EXTENDS Integers

CONSTANTS
  Readers,
  Fifo,   \* the readers that take every frame, a subset of Readers
  Depth   \* frames the ring holds, at least one

VARIABLES
  published,  \* number of the newest frame
  ended,      \* the writer has ended the stream
  pos,        \* what a reader has passed: taken or skipped up to here
  last,       \* the frame a reader took last
  phase       \* "new", "reading", "ended", "failed"

streamVars == <<published, ended, pos, last, phase>>

StreamInit ==
  /\ published = 0 /\ ended = FALSE
  /\ pos = [r \in Readers |-> 0]
  /\ last = [r \in Readers |-> 0]
  /\ phase = [r \in Readers |-> "new"]

Publish ==
  /\ ~ ended
  /\ published' = published + 1
  /\ UNCHANGED <<ended, pos, last, phase>>

End ==
  /\ ~ ended
  /\ ended' = TRUE
  /\ UNCHANGED <<published, pos, last, phase>>

Join(r) ==
  /\ phase[r] = "new"
  /\ phase' = [phase EXCEPT ![r] = "reading"]
  /\ \E start \in 0..published : pos' = [pos EXCEPT ![r] = start]
  /\ UNCHANGED <<published, ended, last>>

Take(r) ==
  /\ phase[r] = "reading"
  /\ \E f \in (pos[r] + 1)..published :
       /\ r \in Fifo => f = pos[r] + 1
       /\ pos' = [pos EXCEPT ![r] = f]
       /\ last' = [last EXCEPT ![r] = f]
  /\ UNCHANGED <<published, ended, phase>>

Skip(r) ==
  /\ phase[r] = "reading" /\ r \in Fifo
  /\ \E f \in (pos[r] + 1)..(published - Depth) : pos' = [pos EXCEPT ![r] = f]
  /\ UNCHANGED <<published, ended, last, phase>>

SeeEnd(r) ==
  /\ phase[r] = "reading" /\ ended /\ pos[r] = published
  /\ phase' = [phase EXCEPT ![r] = "ended"]
  /\ UNCHANGED <<published, ended, pos, last>>

\* A frame larger than the reader's buffer ends a FIFO reader with an error.
Fail(r) ==
  /\ phase[r] = "reading" /\ r \in Fifo
  /\ phase' = [phase EXCEPT ![r] = "failed"]
  /\ UNCHANGED <<published, ended, pos, last>>

StreamNext ==
  \/ Publish \/ End
  \/ \E r \in Readers : Join(r) \/ Take(r) \/ Skip(r) \/ SeeEnd(r) \/ Fail(r)

StreamSpec == StreamInit /\ [][StreamNext]_streamVars
=============================================================================
