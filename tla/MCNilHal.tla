------------------------------ MODULE MCNilHal ------------------------------
(***************************************************************************)
(* The NIL kernel and the serial driver, which share no state in the       *)
(* model.  A behaviour is one of the part it starts with.  The serial      *)
(* driver has two parts: threads that write with a silent receiver, and    *)
(* threads that read while other handlers keep the transmitter busy.       *)
(***************************************************************************)
EXTENDS NilKernel, HalSerial

VARIABLE part

\* What HalSerial's theorems assume.
ASSUME SerialAssumption == SerialConstants

NilHalInit ==
  /\ part \in {"nil", "serial out", "serial in"}
  /\ NilInit /\ (part # "nil" => ReadyOnes(nil) = {idle} /\ delta = 0)
  /\ SerialInit

\* No byte arrives and no thread reads; no thread writes, and the bytes of the
\* other handlers are all the same.
SilentReceiver == usart'.rdr = NoByte /\ \A t \in Readers : call'[t] = NoCall
OthersWrite ==
  (\A t \in Writers : call'[t] = NoCall) /\ \A i \in DOMAIN written' : written'[i] = 0

NilHalNext ==
  /\ UNCHANGED part
  /\ \/ part = "nil" /\ NilNext /\ UNCHANGED serialvars
     \/ part = "serial out" /\ SerialNext /\ SilentReceiver /\ UNCHANGED nilvars
     \/ part = "serial in" /\ SerialNext /\ OthersWrite /\ UNCHANGED nilvars

NilHalSpec == NilHalInit /\ [][NilHalNext]_<<part, nilvars, serialvars>>

=============================================================================
