------------------------------- MODULE ChMsg -------------------------------
(***************************************************************************)
(* Synchronous messages (os/rt/src/chmsg.c, os/rt/include/chmsg.h), next   *)
(* to mutexes, condition variables, semaphores and timed waits.  The       *)
(* queues of senders are in arrival order, CH_CFG_USE_MESSAGES_PRIORITY    *)
(* FALSE.                                                                  *)
(*                                                                         *)
(* chMsgSend does not touch the union field u of the receiver that it      *)
(* makes ready: what chMsgWaitTimeoutS reads there is what the receiver's  *)
(* last wait left.                                                         *)
(***************************************************************************)
EXTENDS ChSem

CONSTANTS
  SendOrder   \* set of pairs <<t, r>>: t sends messages to r

ASSUME MsgAssumption == SendOrder \subseteq (Threads \ {idle}) \X (Threads \ {idle})

VARIABLES
  msgqueue,   \* thread_t.msgqueue
  serving     \* the senders whose message a thread has received and not released

msgvars == <<semvars, msgqueue, serving>>
othervars == <<realprio, mtxlist, owner, cnt, mp, tp, isr, semcnt, fired>>

MsgInit ==
  /\ SemInit
  /\ msgqueue = [t \in Threads |-> <<>>]
  /\ serving = [t \in Threads |-> {}]

-----------------------------------------------------------------------------

\* Mutant: a receiver that waits is not made ready.
ReadyReceiver_not(s, r) == s

\* The receiver is made ready if it waits for messages; its u is left alone.
ReadyReceiver(s, r) == IF s.state[r] = "WTMSG" THEN chSchReadyI(s, r) ELSE s

chMsgSend(r) ==
  /\ ThreadMode
  /\ <<ctp, r>> \in SendOrder
  /\ msgqueue' = [msgqueue EXCEPT ![r] = queue_insert(@, ctp)]
  /\ sch' = chSchGoSleepS(ReadyReceiver([sch EXCEPT !.u[ctp] = "sentmsg"], r), "SNDMSGQ")
  /\ UNCHANGED <<wq, othervars, pc, vt, serving>>

\* The end of the wait functions: the first message is taken, s the scheduler's
\* state.
TakeMessage(s) ==
  LET t == Head(msgqueue[ctp])
  IN  /\ msgqueue' = [msgqueue EXCEPT ![ctp] = Tail(@)]
      /\ sch' = [s EXCEPT !.state[t] = "SNDMSG"]
      /\ serving' = [serving EXCEPT ![ctp] = @ \cup {t}]

\* chMsgWaitS and chMsgWaitTimeoutS up to the sleep, and chMsgPollS; a poll
\* without a message changes nothing.
chMsgWait(timed) ==
  /\ ThreadMode
  /\ \/ /\ msgqueue[ctp] # <<>>
        /\ TakeMessage(sch)
        /\ UNCHANGED <<pc, vt>>
     \/ /\ msgqueue[ctp] = <<>>
        /\ sch' = chSchGoSleepS(sch, "WTMSG")
        /\ pc' = [pc EXCEPT ![ctp] = IF timed THEN "msgwaitT" ELSE "msgwait"]
        /\ Arm(~timed)
        /\ UNCHANGED <<msgqueue, serving>>
  /\ UNCHANGED <<wq, othervars>>

\* The receiver runs again.
MsgWaitReturn ==
  /\ pc[ctp] \in {"msgwait", "msgwaitT"}
  /\ pc' = [pc EXCEPT ![ctp] = "run"]
  /\ Disarm
  /\ IF pc[ctp] = "msgwaitT" /\ sch.u[ctp] # MSG_OK
     THEN UNCHANGED <<sch, msgqueue, serving>>
     ELSE TakeMessage(sch)
  /\ UNCHANGED <<wq, othervars>>

\* chMsgRelease, of a message that the caller has received.
chMsgRelease(t) ==
  /\ ThreadMode
  /\ t \in serving[ctp]
  /\ serving' = [serving EXCEPT ![ctp] = @ \ {t}]
  /\ sch' = chSchWakeupS(sch, t, MSG_OK)
  /\ UNCHANGED <<wq, othervars, pc, vt, msgqueue>>

-----------------------------------------------------------------------------

MsgCall ==
  \/ \E t \in Threads : chMsgSend(t) \/ chMsgRelease(t)
  \/ \E timed \in BOOLEAN : chMsgWait(timed)

MsgNext ==
  \/ SemNext /\ UNCHANGED <<msgqueue, serving>>
  \/ MsgCall
  \/ MsgWaitReturn

MsgSpec == MsgInit /\ [][MsgNext]_msgvars

-----------------------------------------------------------------------------
(* Properties *)

\* A rendezvous is never half done.  Every thread in chMsgSend is in exactly
\* one queue, or received by exactly one thread and not yet released, as its
\* state says; a thread asleep in chMsgWait has no message queued; and one that
\* runs again to take a message finds one.
RendezvousWhole ==
  /\ \A t \in Threads :
       LET queues  == {r \in Threads : t \in Range(msgqueue[r])}
           servers == {r \in Threads : t \in serving[r]}
       IN  /\ IsInjective(msgqueue[t])
           /\ Cardinality(queues) = IF sch.state[t] = "SNDMSGQ" THEN 1 ELSE 0
           /\ Cardinality(servers) = IF sch.state[t] = "SNDMSG" THEN 1 ELSE 0
  /\ \A t \in Threads : sch.state[t] = "WTMSG" => msgqueue[t] = <<>>
  /\ pc[ctp] = "msgwait" => msgqueue[ctp] # <<>>

=============================================================================
