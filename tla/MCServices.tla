----------------------------- MODULE MCServices -----------------------------
(***************************************************************************)
(* The services that share no state in the model, each on an instance of   *)
(* its own: mailboxes, objects FIFOs, pipes, the life of threads, events   *)
(* and virtual timers.  A behaviour is one of the service it starts with.  *)
(***************************************************************************)
EXTENDS ChFifo, ChPipe, ChThd, ChEvt, MCVT

VARIABLE service

servicesvars == <<service, fifovars, pipevars, thdvars, evtvars, vtvars>>

ServicesInit ==
  /\ service \in {"mailbox", "fifo", "pipe", "threads", "events", "timers"}
  /\ FifoInit /\ PipeInit /\ ThdInit /\ EvtInit
  /\ VTInit /\ (service # "timers" => conf = Late)

Of(s) == service = s /\ UNCHANGED service

MailboxStep ==
  Of("mailbox") /\ MBoxNext /\ UNCHANGED <<poolvars, pipevars, thdvars, evtvars, vtvars>>
FifoStep == Of("fifo") /\ FifoNext /\ UNCHANGED <<pipevars, thdvars, evtvars, vtvars>>
PipeStep == Of("pipe") /\ PipeNext /\ UNCHANGED <<fifovars, thdvars, evtvars, vtvars>>
ThreadsStep == Of("threads") /\ ThdNext /\ UNCHANGED <<fifovars, pipevars, evtvars, vtvars>>
EventsStep == Of("events") /\ EvtNext /\ UNCHANGED <<fifovars, pipevars, thdvars, vtvars>>
TimersStep == Of("timers") /\ VTNext /\ UNCHANGED <<fifovars, pipevars, thdvars, evtvars>>

ServicesNext ==
  \/ MailboxStep \/ FifoStep \/ PipeStep
  \/ ThreadsStep \/ EventsStep \/ TimersStep

ServicesSpec == ServicesInit /\ [][ServicesNext]_servicesvars

\* Objects are conserved by the FIFO: chFifo... calls and no others use its
\* mailbox.
FifoConserves == service = "fifo" => ObjectsConserved

=============================================================================
