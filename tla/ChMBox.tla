------------------------------- MODULE ChMBox -------------------------------
(***************************************************************************)
(* Mailboxes (os/oslib/src/chmboxes.c): a ring of messages with a queue of *)
(* readers and one of writers.                                             *)
(*                                                                         *)
(* The calls come from threads, which may wait, and from interrupt         *)
(* handlers, which do not.  A thread made ready runs when the scheduler    *)
(* lets it, that is, at any later moment: other calls may come in between. *)
(***************************************************************************)
EXTENDS Integers, Sequences, FiniteSets, ChLists

CONSTANTS
  Threads,
  Messages,
  NoMsg,      \* the initial content of the buffer
  N           \* slots of the buffer

ASSUME MBoxAssumption ==
  /\ N \in Nat \ {0} /\ NoMsg \notin Messages /\ IsFiniteSet(Threads)

VARIABLES
  buffer, rdptr, wrptr, cnt, reset,   \* mailbox_t
  qw, qr,                             \* its threads queues
  th                                  \* the call of each thread

ringvars == <<buffer, rdptr, wrptr, cnt, reset>>
mboxvars == <<ringvars, qw, qr, th>>

\* A thread is outside, queued, or ready after having been queued.  The
\* operation and message of its call are those of its stack frame.
Out == [at |-> "out", op |-> "none", msg |-> NoMsg, rdymsg |-> "MSG_OK"]
Queued(op, m) == [at |-> "queued", op |-> op, msg |-> m, rdymsg |-> "MSG_OK"]

Slots == 0 .. N - 1

Inc(p) == IF p + 1 >= N THEN 0 ELSE p + 1
Dec(p) == IF p - 1 < 0 THEN N - 1 ELSE p - 1

-----------------------------------------------------------------------------
(* Threads queues (chthreads.c, chschd.h) *)

QTail(q) == IF q = <<>> THEN q ELSE Tail(q)

\* Mutant: no one is made ready.
ReadyNext_none(ths, q) == ths

\* chThdDequeueNextI with MSG_OK: the first thread is made ready, if any.
ReadyNext(ths, q) == IF q = <<>> THEN ths ELSE [ths EXCEPT ![Head(q)].at = "ready"]

\* chThdDequeueAllI with MSG_RESET.
InQueue(q, t) == \E i \in DOMAIN q : q[i] = t
ReadyAll(ths) ==
  [t \in Threads |-> IF InQueue(qw, t) \/ InQueue(qr, t)
                     THEN [ths[t] EXCEPT !.at = "ready", !.rdymsg = "MSG_RESET"]
                     ELSE ths[t]]

-----------------------------------------------------------------------------
(* Operations *)

\* Is there a free slot, or a message?
Possible(op) == IF op = "fetch" THEN cnt > 0 ELSE cnt < N

\* Mutant: the read pointer does not wrap.
Moved_linear(op, m) ==
  CASE op = "post"  -> /\ buffer' = [buffer EXCEPT ![wrptr] = m]
                       /\ wrptr' = Inc(wrptr) /\ cnt' = cnt + 1
                       /\ UNCHANGED rdptr
    [] op = "ahead" -> /\ rdptr' = IF rdptr = 0 THEN 0 ELSE rdptr - 1
                       /\ buffer' = [buffer EXCEPT ![rdptr'] = m]
                       /\ cnt' = cnt + 1
                       /\ UNCHANGED wrptr
    [] OTHER        -> /\ rdptr' = Inc(rdptr) /\ cnt' = cnt - 1
                       /\ UNCHANGED <<buffer, wrptr>>

\* The ring after the operation.
Moved(op, m) ==
  CASE op = "post"  -> /\ buffer' = [buffer EXCEPT ![wrptr] = m]
                       /\ wrptr' = Inc(wrptr) /\ cnt' = cnt + 1
                       /\ UNCHANGED rdptr
    [] op = "ahead" -> /\ rdptr' = Dec(rdptr)
                       /\ buffer' = [buffer EXCEPT ![Dec(rdptr)] = m]
                       /\ cnt' = cnt + 1
                       /\ UNCHANGED wrptr
    [] OTHER        -> /\ rdptr' = Inc(rdptr) /\ cnt' = cnt - 1
                       /\ UNCHANGED <<buffer, wrptr>>

\* The operation succeeds, with ths the threads before it: the ring changes,
\* and a thread that waits on the other side is made ready.
Transfer(op, m, ths) ==
  /\ ~reset /\ Possible(op)
  /\ Moved(op, m)
  /\ th' = ReadyNext(ths, IF op = "fetch" THEN qw ELSE qr)
  /\ IF op = "fetch" THEN qw' = QTail(qw) /\ UNCHANGED qr
                     ELSE qr' = QTail(qr) /\ UNCHANGED qw
  /\ UNCHANGED reset

\* chThdEnqueueTimeoutS, not with TIME_IMMEDIATE.
Enqueue(t, op, m) ==
  /\ th' = [th EXCEPT ![t] = Queued(op, m)]
  /\ IF op = "fetch" THEN qr' = Append(qr, t) /\ UNCHANGED qw
                     ELSE qw' = Append(qw, t) /\ UNCHANGED qr
  /\ UNCHANGED ringvars

\* The body of the loop of chMBPostTimeoutS, chMBPostAheadTimeoutS and
\* chMBFetchTimeoutS: it returns MSG_RESET, does the transfer, or waits.
Attempt(t, op, m) ==
  \/ /\ reset
     /\ th' = [th EXCEPT ![t] = Out] /\ UNCHANGED <<ringvars, qw, qr>>
  \/ Transfer(op, m, [th EXCEPT ![t] = Out])
  \/ ~reset /\ ~Possible(op) /\ Enqueue(t, op, m)

\* A thread calls one of them.
Call(t, op, m) ==
  /\ th[t].at = "out"
  /\ Attempt(t, op, m)

\* It runs again after the wait.
Continue(t) ==
  /\ th[t].at = "ready"
  /\ IF th[t].rdymsg = "MSG_OK" THEN Attempt(t, th[t].op, th[t].msg)
     ELSE th' = [th EXCEPT ![t] = Out] /\ UNCHANGED <<ringvars, qw, qr>>

\* The timeout of its wait: wakeup of chschd.c, in state CH_STATE_QUEUED.
Timeout(t) ==
  /\ th[t].at = "queued"
  /\ th' = [th EXCEPT ![t].at = "ready", ![t].rdymsg = "MSG_TIMEOUT"]
  /\ qr' = IF InQueue(qr, t) THEN Without(qr, t) ELSE qr
  /\ qw' = IF InQueue(qw, t) THEN Without(qw, t) ELSE qw
  /\ UNCHANGED ringvars

\* chMBPostI, chMBPostAheadI and chMBFetchI; and the calls with TIME_IMMEDIATE.
CallI(op, m) == Transfer(op, m, th)

\* Mutant: the write pointer stays.
chMBResetI_half ==
  /\ rdptr' = 0 /\ cnt' = 0 /\ reset' = TRUE
  /\ th' = ReadyAll(th)
  /\ qw' = <<>> /\ qr' = <<>>
  /\ UNCHANGED <<buffer, wrptr>>

chMBResetI ==
  /\ rdptr' = 0 /\ wrptr' = 0 /\ cnt' = 0 /\ reset' = TRUE
  /\ th' = ReadyAll(th)
  /\ qw' = <<>> /\ qr' = <<>>
  /\ UNCHANGED buffer

chMBResumeX ==
  /\ reset' = FALSE
  /\ UNCHANGED <<buffer, rdptr, wrptr, cnt, qw, qr, th>>

-----------------------------------------------------------------------------

MBoxInit ==
  /\ buffer = [p \in Slots |-> NoMsg]
  /\ rdptr = 0 /\ wrptr = 0 /\ cnt = 0 /\ reset = FALSE
  /\ qw = <<>> /\ qr = <<>>
  /\ th = [t \in Threads |-> Out]

Requests ==
  {<<op, m>> : op \in {"post", "ahead"}, m \in Messages} \cup {<<"fetch", NoMsg>>}

MBoxNext ==
  \/ \E r \in Requests : CallI(r[1], r[2]) \/ \E t \in Threads : Call(t, r[1], r[2])
  \/ \E t \in Threads : Continue(t) \/ Timeout(t)
  \/ chMBResetI \/ chMBResumeX

MBoxSpec == MBoxInit /\ [][MBoxNext]_mboxvars

-----------------------------------------------------------------------------
(* Properties *)

\* Types; "take" is the wait of the objects FIFOs, on another object.
MBoxTypeOK ==
  /\ buffer \in [Slots -> Messages \cup {NoMsg}]
  /\ rdptr \in Slots /\ wrptr \in Slots /\ cnt \in 0 .. N /\ reset \in BOOLEAN
  /\ qw \in Seq(Threads) /\ qr \in Seq(Threads)
  /\ th \in [Threads -> [at : {"out", "queued", "ready"},
                         op : {"none", "post", "ahead", "fetch", "take"},
                         msg : Messages \cup {NoMsg},
                         rdymsg : {"MSG_OK", "MSG_TIMEOUT", "MSG_RESET"}]]

\* The slot i places behind the read pointer.
At(i) == IF rdptr + i < N THEN rdptr + i ELSE rdptr + i - N

\* The mailbox is a bounded queue with two ends, whatever the order in which
\* threads and handlers post, post ahead, fetch and reset: no message is lost,
\* repeated, overwritten or reordered as the pointers wrap.
Deque == INSTANCE BoundedDeque WITH
           content <- [i \in 1 .. cnt |-> buffer[At(i - 1)]]
IsDeque == Deque!Spec

\* The threads that have been made ready for a slot or a message.
Served(ops) == {t \in Threads : /\ th[t].at = "ready" /\ th[t].op \in ops
                                /\ th[t].rdymsg = "MSG_OK"}

\* No thread sleeps on a message or a slot that is there for it: as long as
\* readers are queued, every message has a reader on its way to it, and the
\* same for writers and slots.  The way is open to other threads, which may
\* come first, and to timeouts.
NoLostWakeup ==
  /\ qr # <<>> => cnt <= Cardinality(Served({"fetch"}))
  /\ qw # <<>> => N - cnt <= Cardinality(Served({"post", "ahead"}))

=============================================================================
