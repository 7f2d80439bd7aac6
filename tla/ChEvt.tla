------------------------------- MODULE ChEvt -------------------------------
(***************************************************************************)
(* Event flags (os/rt/src/chevents.c): masks of pending events, waits for  *)
(* one, any or all of a set of events, and a source that broadcasts to its *)
(* listeners.  Signals come from threads and interrupt handlers, at any    *)
(* moment outside of the critical sections; a thread made ready runs at    *)
(* any later moment.                                                       *)
(***************************************************************************)
EXTENDS Integers, Sequences, Functions, ChLists

CONSTANTS
  Waiters,     \* threads
  Events,      \* the event identifiers, bits of eventmask_t: natural numbers
  Flags,       \* the bits of eventflags_t
  Listeners    \* event_listener_t objects

ASSUME EvtAssumption == Events \subseteq Nat /\ Waiters # {}

VARIABLES
  epending,    \* thread_t.epending
  wait,        \* the wait of each thread: ready means made ready after it
  source,      \* the registered listeners, in list order
  listener     \* their fields

evtvars == <<epending, wait, source, listener>>

Masks == (SUBSET Events) \ {{}}
Unregistered == [listener |-> CHOOSE t \in Waiters : TRUE,
                 events |-> {}, flags |-> {}, wflags |-> {}]
NotWaiting == [at |-> "out", op |-> "any", mask |-> {}, rdymsg |-> "MSG_OK"]

-----------------------------------------------------------------------------
(* Signals *)

\* What ends a wait: all events of the mask in WTANDEVT, one in WTOREVT.
Satisfied(op, mask, pending) ==
  IF op = "all" THEN mask \subseteq pending ELSE mask \cap pending # {}

\* Mutant: a wait ends by the events of one signal, not by all that is pending.
Signalled_alone(events) ==
  /\ epending' = [t \in Waiters |-> epending[t] \cup events[t]]
  /\ wait' = [t \in Waiters |->
              IF /\ wait[t].at = "asleep" /\ events[t] # {}
                 /\ Satisfied(wait[t].op, wait[t].mask, events[t])
              THEN [wait[t] EXCEPT !.at = "ready", !.rdymsg = "MSG_OK"]
              ELSE wait[t]]

\* chEvtSignalI for every thread at once, with the events given for each.
Signalled(events) ==
  /\ epending' = [t \in Waiters |-> epending[t] \cup events[t]]
  /\ wait' = [t \in Waiters |->
                IF /\ wait[t].at = "asleep" /\ events[t] # {}
                   /\ Satisfied(wait[t].op, wait[t].mask, epending'[t])
                THEN [wait[t] EXCEPT !.at = "ready", !.rdymsg = "MSG_OK"]
                ELSE wait[t]]

chEvtSignalI(t, events) ==
  /\ Signalled([x \in Waiters |-> IF x = t THEN events ELSE {}])
  /\ UNCHANGED <<source, listener>>

\* Every listener gets the flags; its thread is signalled if it wants one of
\* them, or if the source gives none.
chEvtBroadcastFlagsI(flags) ==
  LET told == {l \in Range(source) : flags = {} \/ flags \cap listener[l].wflags # {}}
  IN  /\ listener' = [l \in Listeners |->
                        IF l \in Range(source) THEN [listener[l] EXCEPT !.flags = @ \cup flags]
                                               ELSE listener[l]]
      /\ Signalled([t \in Waiters |->
                      UNION {listener[l].events : l \in {x \in told : listener[x].listener = t}}])
      /\ UNCHANGED source

-----------------------------------------------------------------------------
(* Waits *)

\* The events that the functions return and clear; chEvtWaitOne takes the one
\* with the lowest identifier.
Taken(op, mask, pending) ==
  CASE op = "all" -> mask
    [] op = "any" -> mask \cap pending
    [] op = "one" -> {e \in mask \cap pending : \A f \in mask \cap pending : e <= f}

\* chEvtWaitOneTimeout, chEvtWaitAnyTimeout, chEvtWaitAllTimeout and the ones
\* without timeout; with TIME_IMMEDIATE a wait that would sleep changes nothing.
Wait(t, op, mask) ==
  /\ wait[t].at = "out"
  /\ IF Satisfied(op, mask, epending[t])
     THEN epending' = [epending EXCEPT ![t] = @ \ Taken(op, mask, @)] /\ UNCHANGED wait
     ELSE /\ wait' = [wait EXCEPT ![t] = [NotWaiting EXCEPT !.at = "asleep", !.op = op, !.mask = mask]]
          /\ UNCHANGED epending
  /\ UNCHANGED <<source, listener>>

\* The thread runs again.  After a timeout it takes nothing.
WaitReturns(t) ==
  /\ wait[t].at = "ready"
  /\ wait' = [wait EXCEPT ![t] = NotWaiting]
  /\ epending' = IF wait[t].rdymsg = "MSG_OK"
                 THEN [epending EXCEPT ![t] = @ \ Taken(wait[t].op, wait[t].mask, @)]
                 ELSE epending
  /\ UNCHANGED <<source, listener>>

\* wakeup of chschd.c.
EvtTimeout(t) ==
  /\ wait[t].at = "asleep"
  /\ wait' = [wait EXCEPT ![t].at = "ready", ![t].rdymsg = "MSG_TIMEOUT"]
  /\ UNCHANGED <<epending, source, listener>>

\* chEvtGetAndClearEvents and chEvtAddEvents, of the calling thread.
chEvtGetAndClearEvents(t, mask) ==
  /\ wait[t].at = "out"
  /\ epending' = [epending EXCEPT ![t] = @ \ mask]
  /\ UNCHANGED <<wait, source, listener>>

chEvtAddEvents(t, mask) ==
  /\ wait[t].at = "out"
  /\ epending' = [epending EXCEPT ![t] = @ \cup mask]
  /\ UNCHANGED <<wait, source, listener>>

-----------------------------------------------------------------------------
(* Listeners *)

chEvtRegisterMaskWithFlags(t, l, mask, wflags) ==
  /\ wait[t].at = "out" /\ l \notin Range(source)
  /\ source' = <<l>> \o source
  /\ listener' = [listener EXCEPT ![l] = [listener |-> t, events |-> mask,
                                          flags |-> {}, wflags |-> wflags]]
  /\ UNCHANGED <<epending, wait>>

\* Nothing reads the object of an unregistered listener any more.
chEvtUnregister(l) ==
  /\ l \in Range(source)
  /\ source' = Without(source, l)
  /\ listener' = [listener EXCEPT ![l] = Unregistered]
  /\ UNCHANGED <<epending, wait>>

chEvtGetAndClearFlags(l) ==
  /\ l \in Range(source)
  /\ listener' = [listener EXCEPT ![l].flags = {}]
  /\ UNCHANGED <<epending, wait, source>>

-----------------------------------------------------------------------------

EvtInit ==
  /\ epending = [t \in Waiters |-> {}]
  /\ wait = [t \in Waiters |-> NotWaiting]
  /\ source = <<>>
  /\ listener = [l \in Listeners |-> Unregistered]

EvtNext ==
  \/ \E t \in Waiters : WaitReturns(t) \/ EvtTimeout(t)
  \/ \E t \in Waiters, mask \in Masks :
       \/ chEvtSignalI(t, mask) \/ chEvtGetAndClearEvents(t, mask) \/ chEvtAddEvents(t, mask)
       \/ \E op \in {"one", "any", "all"} : Wait(t, op, mask)
       \/ \E l \in Listeners, wflags \in SUBSET Flags :
            chEvtRegisterMaskWithFlags(t, l, mask, wflags)
  \/ \E flags \in SUBSET Flags : chEvtBroadcastFlagsI(flags)
  \/ \E l \in Listeners : chEvtUnregister(l) \/ chEvtGetAndClearFlags(l)

EvtSpec == EvtInit /\ [][EvtNext]_evtvars

-----------------------------------------------------------------------------
(* Properties *)

\* No event is missed, and none is imagined: a thread that sleeps has pending
\* less than it waits for, and one that a signal has made ready finds that when
\* it runs, whatever is signalled, broadcast or timed out in between.
NoEventMissed ==
  \A t \in Waiters :
    /\ wait[t].at = "asleep" => ~Satisfied(wait[t].op, wait[t].mask, epending[t])
    /\ wait[t].at = "ready" /\ wait[t].rdymsg = "MSG_OK" =>
         /\ Satisfied(wait[t].op, wait[t].mask, epending[t])
         /\ Taken(wait[t].op, wait[t].mask, epending[t]) # {}

=============================================================================
