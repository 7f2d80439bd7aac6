------------------------------- MODULE ChPipe -------------------------------
(***************************************************************************)
(* Pipes (os/oslib/src/chpipes.c): a ring of bytes, with a mutex for the   *)
(* writers, one for the readers and one for the ring, and a reference to   *)
(* the writer and to the reader that sleeps.                               *)
(*                                                                         *)
(* The ring is looked at under its mutex; a thread that finds it full or   *)
(* empty goes to sleep after it has released that mutex, and the other     *)
(* side is made ready after it too.  Other threads run in between.         *)
(***************************************************************************)
EXTENDS Integers, Sequences, FiniteSetsExt

CONSTANTS
  Writers, Readers,   \* threads
  Size,               \* bytes of the buffer
  MaxBytes,           \* bound: bytes of a call
  None

ASSUME PipeAssumption ==
  /\ Size \in Nat \ {0} /\ MaxBytes \in Nat \ {0}
  /\ Writers \cap Readers = {} /\ None \notin Writers \cup Readers

VARIABLES
  pipe,    \* pipe_t: buffer, rd, wr, used (its cnt), reset, and resetting while
           \* chPipeReset has the mutex of the ring
  own,     \* the owner of the mutex of a side
  ref,     \* the references wtr and rtr
  io,      \* where a thread is, the bytes left of its call, its message
  sent     \* history: the bytes written and not read, in the order written

pipevars == <<pipe, own, ref, io, sent>>

Side(t) == IF t \in Writers THEN "write" ELSE "read"
Other(t) == IF t \in Writers THEN "read" ELSE "write"

NoCall == [at |-> "none", n |-> 0, of |-> 0, msg |-> "MSG_OK"]

\* The bytes of the call of w that come next, k of them: a byte is known by its
\* writer and by how many of its call follow.
Bytes(w, k) == [i \in 1 .. k |-> <<w, io[w].n - i>>]

-----------------------------------------------------------------------------
(* The ring *)

\* The pointer behind k bytes, as the three cases of both functions set it.
Advance(p, k) ==
  LET s1 == Size - p
  IN  CASE k < s1 -> p + k
        [] k > s1 -> k - s1
        [] k = s1 -> 0

\* Mutant: the second memcpy starts with the first byte again.
Stored_again(p, s) ==
  [q \in 0 .. Size - 1 |->
     LET i == IF q >= p THEN q - p ELSE q + (Size - p)
     IN  IF i < Len(s) THEN s[IF q >= p THEN i + 1 ELSE q + 1] ELSE pipe.buffer[q]]

\* memcpy at the pointer, and at the start of the buffer for the rest.
Stored(p, s) ==
  [q \in 0 .. Size - 1 |->
     LET i == IF q >= p THEN q - p ELSE q + (Size - p)
     IN  IF i < Len(s) THEN s[i + 1] ELSE pipe.buffer[q]]

Ring == [i \in 1 .. pipe.used |-> pipe.buffer[(pipe.rd + i - 1) % Size]]

-----------------------------------------------------------------------------
(* chPipeWriteTimeout and chPipeReadTimeout *)

\* The test of the reset state, before the mutex.
Begin(t, n) ==
  /\ io[t].at = "none" /\ ~pipe.reset
  /\ io' = [io EXCEPT ![t] = [at |-> "lock", n |-> n, of |-> n, msg |-> "MSG_OK"]]
  /\ UNCHANGED <<pipe, own, ref, sent>>

\* PW_LOCK and PR_LOCK.
Lock(t) ==
  /\ io[t].at = "lock" /\ own[Side(t)] = None
  /\ own' = [own EXCEPT ![Side(t)] = t]
  /\ io' = [io EXCEPT ![t].at = "loop"]
  /\ UNCHANGED <<pipe, ref, sent>>

\* pipe_write and pipe_read: under the mutex of the ring.
pipe_write(t) ==
  LET k == Min({io[t].n, Size - pipe.used})
  IN  /\ io[t].at = "loop" /\ t \in Writers /\ ~pipe.resetting
      /\ pipe' = [pipe EXCEPT !.buffer = Stored(pipe.wr, Bytes(t, k)),
                              !.wr = Advance(@, k), !.used = @ + k]
      /\ sent' = sent \o Bytes(t, k)
      /\ io' = [io EXCEPT ![t].at = IF k = 0 THEN "suspend" ELSE "resume", ![t].n = @ - k]
      /\ UNCHANGED <<own, ref>>

pipe_read(t) ==
  LET k == Min({io[t].n, pipe.used})
  IN  /\ io[t].at = "loop" /\ t \in Readers /\ ~pipe.resetting
      /\ pipe' = [pipe EXCEPT !.rd = Advance(@, k), !.used = @ - k]
      /\ sent' = SubSeq(sent, k + 1, Len(sent))
      /\ io' = [io EXCEPT ![t].at = IF k = 0 THEN "suspend" ELSE "resume", ![t].n = @ - k]
      /\ UNCHANGED <<own, ref>>

\* PW_UNLOCK or PR_UNLOCK, and the return.
Leave(t) ==
  /\ own' = [own EXCEPT ![Side(t)] = None]
  /\ io' = [io EXCEPT ![t] = NoCall]

\* chThdSuspendTimeoutS, which returns at once with TIME_IMMEDIATE.
Suspend(t) ==
  /\ io[t].at = "suspend"
  /\ \/ /\ ref' = [ref EXCEPT ![Side(t)] = t]
        /\ io' = [io EXCEPT ![t].at = "asleep"]
        /\ UNCHANGED own
     \/ Leave(t) /\ UNCHANGED ref
  /\ UNCHANGED <<pipe, sent>>

\* The threads after chThdResumeI on the reference of a side.
Resumed(ths, side, msg) ==
  IF ref[side] = None THEN ths
  ELSE [ths EXCEPT ![ref[side]].at = "woken", ![ref[side]].msg = msg]

\* chThdResume after a transfer, and the next round of the loop.
Resume(t) ==
  LET ths == Resumed(io, Other(t), "MSG_OK")
  IN  /\ io[t].at = "resume"
      /\ ref' = [ref EXCEPT ![Other(t)] = None]
      /\ IF io[t].n > 0 THEN io' = [ths EXCEPT ![t].at = "loop"] /\ UNCHANGED own
         ELSE /\ io' = [ths EXCEPT ![t] = NoCall]
              /\ own' = [own EXCEPT ![Side(t)] = None]
      /\ UNCHANGED <<pipe, sent>>

\* wakeup of chschd.c, in state CH_STATE_SUSPENDED.
PipeTimeout(t) ==
  /\ io[t].at = "asleep"
  /\ ref' = [ref EXCEPT ![Side(t)] = None]
  /\ io' = [io EXCEPT ![t].at = "woken", ![t].msg = "MSG_TIMEOUT"]
  /\ UNCHANGED <<pipe, own, sent>>

\* The thread runs again.
Woken(t) ==
  /\ io[t].at = "woken"
  /\ IF io[t].msg = "MSG_OK" THEN io' = [io EXCEPT ![t].at = "loop"] /\ UNCHANGED own
                             ELSE Leave(t)
  /\ UNCHANGED <<pipe, ref, sent>>

-----------------------------------------------------------------------------
(* chPipeReset: the ring, then both threads, all under the mutex of the ring *)

ResetRing ==
  /\ ~pipe.resetting
  /\ pipe' = [pipe EXCEPT !.wr = 0, !.rd = 0, !.used = 0, !.reset = TRUE, !.resetting = TRUE]
  /\ sent' = <<>>
  /\ UNCHANGED <<own, ref, io>>

ResetThreads ==
  /\ pipe.resetting
  /\ pipe' = [pipe EXCEPT !.resetting = FALSE]
  /\ io' = Resumed(Resumed(io, "write", "MSG_RESET"), "read", "MSG_RESET")
  /\ ref' = [side \in {"write", "read"} |-> None]
  /\ UNCHANGED <<own, sent>>

chPipeResume ==
  /\ pipe' = [pipe EXCEPT !.reset = FALSE]
  /\ UNCHANGED <<own, ref, io, sent>>

-----------------------------------------------------------------------------

PipeInit ==
  /\ pipe = [buffer |-> [q \in 0 .. Size - 1 |-> None], rd |-> 0, wr |-> 0, used |-> 0,
             reset |-> FALSE, resetting |-> FALSE]
  /\ own = [side \in {"write", "read"} |-> None]
  /\ ref = [side \in {"write", "read"} |-> None]
  /\ io = [t \in Writers \cup Readers |-> NoCall]
  /\ sent = <<>>

PipeNext ==
  \/ \E t \in Writers \cup Readers :
       \/ \E n \in 1 .. MaxBytes : Begin(t, n)
       \/ Lock(t) \/ pipe_write(t) \/ pipe_read(t)
       \/ Suspend(t) \/ Resume(t) \/ PipeTimeout(t) \/ Woken(t)
  \/ ResetRing \/ ResetThreads \/ chPipeResume

PipeSpec == PipeInit /\ [][PipeNext]_pipevars

-----------------------------------------------------------------------------
(* Properties *)

\* The ring holds the bytes written and not yet read, in their order, however
\* transfers of any length wrap around; and the bytes of a call are together: a
\* call that has written some and not all wrote last, if something is there.
StreamIntact ==
  /\ Ring = sent
  /\ \A t \in Writers :
       io[t].at # "none" /\ io[t].n < io[t].of /\ sent # <<>> => sent[Len(sent)] = <<t, io[t].n>>

\* chPipeWriteTimeout completes "when the specified amount of data has been
\* transferred or after the specified timeout or if the pipe has been reset", and
\* chPipeReadTimeout the same: writer and reader do not wait for each other.
SidesNeverBothSleep == ref["write"] = None \/ ref["read"] = None

=============================================================================
