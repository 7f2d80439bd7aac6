-------------------------------- MODULE Mfs --------------------------------
(***************************************************************************)
(* The managed flash storage (os/hal/lib/complex/mfs/hal_mfs.c): records   *)
(* appended to one of two flash banks, garbage collection into the other,  *)
(* transactions, and the mount that repairs what a power loss left.        *)
(*                                                                         *)
(* A call computes from the driver's state which flash operations it does, *)
(* in which order: its plan.  Power may fail, and the flash may report an  *)
(* error, before, after and in the middle of every one of them.            *)
(*                                                                         *)
(* Lengths and offsets are in units of sizeof (mfs_data_header_t), offsets *)
(* are relative to the bank.  A record is one value at the offset of its   *)
(* header: data and CRC are right once the data has been written.          *)
(***************************************************************************)
EXTENDS Integers, SequencesExt

CONSTANTS
  MAX_RECORDS,          \* MFS_CFG_MAX_RECORDS
  Values,
  NoVal,
  NoCall,
  SizeOf,               \* length of the data of each value
  ALIGNMENT,            \* MFS_CFG_MEMORY_ALIGNMENT
  BankSize,
  SectorSize,
  TRANSACTION_MAX,      \* MFS_CFG_TRANSACTION_MAX
  TransactionSizes,     \* sizes that mfsStartTransaction is called with
  MAX_REPAIR_ATTEMPTS,  \* MFS_CFG_MAX_REPAIR_ATTEMPTS
  MaxCounter,           \* bound: bank swaps after which nothing more is written
  EraseLast,            \* records are erased when one header is all that fits
  EraseTwice            \* a transaction erases a record more than once

Ids == 1 .. MAX_RECORDS
Banks == {0, 1}
Sectors == 0 .. (BankSize \div SectorSize) - 1

ASSUME MfsAssumption ==
  /\ MAX_RECORDS \in Nat /\ TRANSACTION_MAX \in 0 .. MAX_RECORDS
  /\ SizeOf \in [Values -> Nat \ {0}]
  /\ NoVal \notin Values
  /\ ALIGNMENT \in Nat \ {0}
  /\ SectorSize \in Nat \ {0} /\ BankSize % SectorSize = 0
  /\ MAX_REPAIR_ATTEMPTS \in 1 .. 10

VARIABLES
  flash,    \* bank -> its header, its records by offset, its sectors in use
  drv,      \* MFSDriver
  call,     \* the function in progress, "none" between calls
  plan,     \* the flash operations it has yet to do
  after,    \* the driver state that it leaves
  tries,    \* mfs_mount: attempts that failed
  store,    \* auxiliary: the records that mfsStart would find
  goal      \* auxiliary: what the call makes of the stored records

mfsvars == <<flash, drv, call, plan, after, tries, store, goal>>

-----------------------------------------------------------------------------
(* Sizes *)

AlignNext(n) == ((n + ALIGNMENT - 1) \div ALIGNMENT) * ALIGNMENT

ALIGNED_REC_SIZE(n) == AlignNext(1 + n)
ALIGNED_DHDR_SIZE == ALIGNED_REC_SIZE(0)
BankHeaderSize == AlignNext(1)

-----------------------------------------------------------------------------
(* Flash memory.  A bank header is 0 when erased, Torn when unreadable, or a *)
(* counter.                                                                  *)

Torn == -1

ErasedBank == [hdr |-> 0, recs |-> <<>>, used |-> {}]

\* The two kinds of records: data, sealed by the magic number; erase markers.
Rec(id, size, val, sealed) == [id |-> id, size |-> size, val |-> val, sealed |-> sealed]

Header(b, n) == [op |-> "header", bank |-> b, cnt |-> n]
Erase(b, k) == [op |-> "erase", bank |-> b, sector |-> k]
Put(b, o, r) == [op |-> "put", bank |-> b, off |-> o, rec |-> r]
Data(b, o, v) == [op |-> "data", bank |-> b, off |-> o, val |-> v]
Magic(b, o) == [op |-> "magic", bank |-> b, off |-> o]

\* The sectors that a record of length n at offset o touches.
Touched(o, n) == (o \div SectorSize) .. ((o + n) \div SectorSize)

\* The bank after flash operation x.
Done(bank, x) ==
  CASE x.op = "header" -> [bank EXCEPT !.hdr = x.cnt, !.used = @ \cup {0}]
    [] x.op = "erase"  ->
         [hdr  |-> IF x.sector = 0 THEN 0 ELSE bank.hdr,
          recs |-> [o \in {p \in DOMAIN bank.recs : p \div SectorSize # x.sector}
                     |-> bank.recs[o]],
          used |-> bank.used \ {x.sector}]
    [] x.op = "put"    -> [bank EXCEPT !.recs = (x.off :> x.rec) @@ @,
                                       !.used = @ \cup Touched(x.off, x.rec.size)]
    [] x.op = "data"   -> [bank EXCEPT !.recs[x.off].val = x.val]
    [] x.op = "magic"  -> [bank EXCEPT !.recs[x.off].sealed = TRUE]

\* The bank after an operation that power loss interrupted.  A record that is
\* written in part has no valid magic number or an impossible size.
Half(bank, x) ==
  CASE x.op = "header" -> [bank EXCEPT !.hdr = Torn, !.used = @ \cup {0}]
    [] x.op = "erase"  -> [Done(bank, x) EXCEPT !.hdr = IF x.sector = 0 THEN Torn ELSE @,
                                                !.used = @ \cup {x.sector}]
    [] x.op = "put"    -> Done(bank, [x EXCEPT !.rec.sealed = FALSE])
    [] OTHER           -> bank

mfs_bank_erase(b) == [k \in 1 .. Cardinality(Sectors) |-> Erase(b, k - 1)]

-----------------------------------------------------------------------------
(* Mount *)

mfs_bank_get_state(bank) ==
  CASE bank.hdr > 0                      -> "OK"
    [] bank.hdr = 0 /\ bank.used = {}    -> "ERASED"
    [] OTHER                             -> "GARBAGE"

\* A record's header or data lies at o.
Covered(recs, o) == \E p \in DOMAIN recs : o \in p .. p + recs[p].size

NoRecord == [offset |-> 0, size |-> 0]

\* A descriptor for every identifier, from those of the records that exist.
Descriptors(found) == found @@ [i \in Ids |-> NoRecord]

Descriptor(recs, o) ==
  IF recs[o].size = 0 THEN NoRecord ELSE [offset |-> o, size |-> recs[o].size]

\* From record to record: next, the offset where the scan ends; warn, whether
\* it met an anomaly; found, the descriptors, where later records override.
mfs_bank_scan_records(recs) ==
  LET scan[o \in Nat] ==
        CASE o >= BankSize - ALIGNED_DHDR_SIZE \/ ~Covered(recs, o) ->
               [next |-> o, warn |-> FALSE, found |-> <<>>]
          [] o < BankSize - ALIGNED_DHDR_SIZE /\ o \in DOMAIN recs /\ recs[o].sealed ->
               LET r == scan[o + ALIGNED_REC_SIZE(recs[o].size)]
               IN  IF recs[o].size > 0 /\ recs[o].val = NoVal
                   THEN [r EXCEPT !.warn = TRUE]
                   ELSE [r EXCEPT !.found = @ @@ (recs[o].id :> Descriptor(recs, o))]
          [] OTHER -> [next |-> o, warn |-> TRUE, found |-> <<>>]
  IN  scan[BankHeaderSize]

\* The driver before it is started, and after mfs_state_reset.
Stopped ==
  [state |-> "MFS_STOP", bank |-> 0, counter |-> 0, next |-> 0, used |-> 0,
   desc |-> Descriptors(<<>>), tr_next |-> 0, tr_limit |-> 0, tr_ops |-> <<>>]

\* MFS_ERROR.  Only mfsStart and mfsStop accept the state, and they reset it.
Failed == [Stopped EXCEPT !.state = "MFS_ERROR"]

\* The effective used size.
UsedSpace(desc) ==
  LET used[i \in 0 .. MAX_RECORDS] ==
        IF i = 0 THEN BankHeaderSize
        ELSE used[i - 1] + IF desc[i].offset = 0 THEN 0 ELSE ALIGNED_REC_SIZE(desc[i].size)
  IN  used[MAX_RECORDS]

\* The bank that the mount decides for.
MountedBank(f) ==
  LET st(b) == mfs_bank_get_state(f[b])
  IN  CASE st(0) = "OK" /\ st(1) = "OK" -> IF f[0].hdr > f[1].hdr THEN 0 ELSE 1
        [] st(0) # "OK" /\ st(1) = "OK" -> 1
        [] st(0) = "OK" /\ st(1) # "OK" -> 0
        [] st(0) = "GARBAGE" /\ st(1) = "ERASED" -> 1
        [] OTHER -> 0

\* Mutant: a bank that is not readable is left alone.
Repair_leaves(f) ==
  LET b  == MountedBank(f)
  IN  IF mfs_bank_get_state(f[b]) = "OK" THEN <<>> ELSE <<Header(b, 1)>>

\* What it writes to make that bank the only valid one.
Repair(f) ==
  LET b      == MountedBank(f)
      st(x)  == mfs_bank_get_state(f[x])
      Fix(x) == IF st(x) = "GARBAGE" \/ (st(x) = "OK" /\ x # b)
                THEN mfs_bank_erase(x) ELSE <<>>
  IN  Fix(0) \o Fix(1) \o IF st(b) = "OK" THEN <<>> ELSE <<Header(b, 1)>>

\* The records of the mounted bank: a bank that was not valid is new.
MountedRecs(f) ==
  LET b == MountedBank(f)
  IN  IF mfs_bank_get_state(f[b]) = "OK" THEN f[b].recs ELSE <<>>

\* The driver after the scan.
Scanned(f) ==
  LET b    == MountedBank(f)
      s    == mfs_bank_scan_records(MountedRecs(f))
      desc == Descriptors(s.found)
  IN  [Stopped EXCEPT !.state = "MFS_READY", !.bank = b,
                      !.counter = IF f[b].hdr > 0 THEN f[b].hdr ELSE 1,
                      !.next = s.next, !.used = UsedSpace(desc), !.desc = desc]

\* The stored records: what a mount would find.
Recovered(f) ==
  LET recs  == MountedRecs(f)
      found == mfs_bank_scan_records(recs).found
      live  == {i \in DOMAIN found : found[i].size > 0}
  IN  [i \in live |-> recs[found[i].offset].val] @@ [i \in Ids |-> NoVal]

-----------------------------------------------------------------------------
(* Garbage collection *)

\* The records that exist, in the order of their identifiers.
Live(desc) == SelectSeq([i \in Ids |-> i], LAMBDA i : desc[i].offset # 0)

\* The copies go one behind the other.
Compacted(desc) ==
  Descriptors(FoldLeft(LAMBDA c, i : c @@ (i :> [desc[i] EXCEPT !.offset = UsedSpace(Descriptors(c))]),
                       <<>>, Live(desc)))

\* Mutant: the new bank is valid before the records are in it.
mfs_garbage_collect_early(d, recs) ==
  LET new  == Compacted(d.desc)
      live == Live(d.desc)
      copy == [n \in DOMAIN live |->
                 Put(1 - d.bank, new[live[n]].offset, recs[d.desc[live[n]].offset])]
  IN  <<Header(1 - d.bank, d.counter + 1)>> \o copy \o mfs_bank_erase(d.bank)

\* The flash operations: copies, then the new bank's header, then the erasure.
mfs_garbage_collect(d, recs) ==
  LET new  == Compacted(d.desc)
      live == Live(d.desc)
      copy == [n \in DOMAIN live |->
                 Put(1 - d.bank, new[live[n]].offset, recs[d.desc[live[n]].offset])]
  IN  copy \o <<Header(1 - d.bank, d.counter + 1)>> \o mfs_bank_erase(d.bank)

\* Mutant: the descriptors keep the offsets of the old bank.
Collected_stale(d) ==
  [d EXCEPT !.bank = 1 - d.bank, !.counter = @ + 1, !.next = UsedSpace(d.desc)]

\* The driver after it.
Collected(d) ==
  [d EXCEPT !.bank = 1 - d.bank, !.counter = @ + 1, !.desc = Compacted(@),
            !.next = UsedSpace(d.desc)]

-----------------------------------------------------------------------------
(* Calls *)

Ready == call = "none" /\ drv.state = "MFS_READY"
InTransaction == call = "none" /\ drv.state = "MFS_TRANSACTION"

\* A call starts: it does the flash operations p, leaves driver state d, and
\* makes g of the stored records.
Begin(name, p, d, g) ==
  /\ call' = name /\ plan' = p /\ after' = d /\ goal' = g
  /\ tries' = 0
  /\ UNCHANGED <<flash, store, drv>>

\* mfs_try_mount on flash contents f, collection included.
TryMount(f) ==
  LET d == Scanned(f)
  IN  IF mfs_bank_scan_records(MountedRecs(f)).warn
      THEN /\ plan' = Repair(f) \o mfs_garbage_collect(d, MountedRecs(f))
           /\ after' = Collected(d)
      ELSE plan' = Repair(f) /\ after' = d

mfsStart ==
  /\ call = "none" /\ drv.state \in {"MFS_STOP", "MFS_READY", "MFS_ERROR"}
  /\ TryMount(flash)
  /\ call' = "mount" /\ goal' = store /\ tries' = 0
  /\ UNCHANGED <<flash, store, drv>>

mfsStop ==
  /\ call = "none" /\ drv.state \in {"MFS_STOP", "MFS_READY", "MFS_ERROR"}
  /\ drv' = Stopped
  /\ UNCHANGED <<flash, store, call, plan, after, tries, goal>>

\* A read changes something only when it fails.
mfsReadRecord(id) ==
  /\ Ready \/ InTransaction
  /\ drv.desc[id].offset # 0
  /\ drv' = Failed
  /\ UNCHANGED <<flash, store, call, plan, after, tries, goal>>

mfsErase ==
  /\ Ready
  /\ Begin("erase", mfs_bank_erase(0) \o mfs_bank_erase(1), drv, [i \in Ids |-> NoVal])

\* Mutant: the space of the replaced record stays accounted for.
Recorded_adds(d, id, n) ==
  [d EXCEPT !.used = @ + (IF n.size = 0 THEN 0 ELSE ALIGNED_REC_SIZE(n.size)),
            !.desc[id] = n]

\* The driver with the record n, or none, as the current instance of id.
Recorded(d, id, n) ==
  [d EXCEPT !.used = @ - (IF d.desc[id].offset = 0 /\ n.size > 0 THEN 0
                          ELSE ALIGNED_REC_SIZE(d.desc[id].size))
                       + (IF n.size = 0 THEN 0 ELSE ALIGNED_REC_SIZE(n.size)),
            !.desc[id] = n]

\* The flash operations that make room, and the driver state after them.
Room(rspace) ==
  IF rspace > BankSize - drv.next
  THEN [plan |-> mfs_garbage_collect(drv, flash[drv.bank].recs), drv |-> Collected(drv)]
  ELSE [plan |-> <<>>, drv |-> drv]

\* Mutant: no room is kept for an erase marker.
WriteSpace_tight(n) == ALIGNED_REC_SIZE(n)

WriteSpace(n) == ALIGNED_DHDR_SIZE + ALIGNED_REC_SIZE(n)

\* Writing the record without its magic number, and the number last.
mfsWriteRecord(id, v) ==
  LET n == SizeOf[v]
      r == Room(WriteSpace(n))
      b == r.drv.bank
      o == r.drv.next
  IN  /\ Ready
      /\ drv.counter < MaxCounter
      /\ WriteSpace(n) <= BankSize - drv.used
      /\ Begin("write",
               r.plan \o <<Put(b, o, Rec(id, n, NoVal, FALSE)), Data(b, o, v), Magic(b, o)>>,
               [Recorded(r.drv, id, [offset |-> o, size |-> n])
                  EXCEPT !.next = @ + ALIGNED_REC_SIZE(n)],
               [store EXCEPT ![id] = v])

\* A marker: a sealed record without data.
mfsEraseRecord(id) ==
  LET r == Room(ALIGNED_DHDR_SIZE)
      b == r.drv.bank
      o == r.drv.next
  IN  /\ Ready
      /\ drv.counter < MaxCounter
      /\ drv.desc[id].offset # 0
      /\ ALIGNED_DHDR_SIZE <= BankSize - drv.used
      /\ EraseLast \/ o < BankSize - ALIGNED_DHDR_SIZE
      /\ Begin("write",
               Append(r.plan, Put(b, o, Rec(id, 0, NoVal, TRUE))),
               [Recorded(r.drv, id, NoRecord) EXCEPT !.next = @ + 1],
               [store EXCEPT ![id] = NoVal])

mfsPerformGarbageCollection ==
  /\ Ready
  /\ drv.counter < MaxCounter
  /\ Begin("gc", mfs_garbage_collect(drv, flash[drv.bank].recs), Collected(drv),
           store)

-----------------------------------------------------------------------------
(* Transactions *)

mfsStartTransaction(size) ==
  LET tspace == AlignNext(size)
      r      == Room(tspace + ALIGNED_DHDR_SIZE)
  IN  /\ Ready
      /\ drv.counter < MaxCounter
      /\ tspace + ALIGNED_DHDR_SIZE <= BankSize - drv.used
      /\ Begin("transaction", r.plan,
               [r.drv EXCEPT !.state = "MFS_TRANSACTION", !.tr_next = r.drv.next,
                             !.tr_limit = r.drv.next + tspace, !.tr_ops = <<>>],
               store)

\* The record is written without its magic number and noted.
Noted(id, n, p) ==
  /\ InTransaction
  /\ Len(drv.tr_ops) < TRANSACTION_MAX
  /\ ALIGNED_REC_SIZE(n) <= drv.tr_limit - drv.tr_next
  /\ Begin("note", <<Put(drv.bank, drv.tr_next, Rec(id, n, NoVal, FALSE))>> \o p,
           [drv EXCEPT !.tr_next = @ + ALIGNED_REC_SIZE(n),
                       !.tr_ops = Append(@, [offset |-> drv.tr_next, size |-> n, id |-> id])],
           store)

WriteInTransaction(id, v) == Noted(id, SizeOf[v], <<Data(drv.bank, drv.tr_next, v)>>)

EraseInTransaction(id) ==
  /\ drv.desc[id].offset # 0
  /\ EraseTwice \/ \A n \in DOMAIN drv.tr_ops : drv.tr_ops[n].id # id \/ drv.tr_ops[n].size > 0
  /\ Noted(id, 0, <<>>)

\* The magic numbers, the last operation's first.
Seals(d) == Reverse([n \in DOMAIN d.tr_ops |-> Magic(d.bank, d.tr_ops[n].offset)])

\* The transaction is over, its fields mean nothing any more.
Ended(d) ==
  [d EXCEPT !.state = "MFS_READY", !.tr_next = 0, !.tr_limit = 0, !.tr_ops = <<>>]

mfsCommitTransaction ==
  /\ InTransaction
  /\ Begin("commit", Seals(drv),
           [Ended(FoldLeft(LAMBDA d, top : Recorded(d, top.id, Descriptor(flash[drv.bank].recs, top.offset)), drv, drv.tr_ops))
              EXCEPT !.next = drv.tr_next],
           FoldLeft(LAMBDA g, top : [g EXCEPT ![top.id] = flash[drv.bank].recs[top.offset].val],
                    store, drv.tr_ops))

mfsRollbackTransaction ==
  LET d == Ended(drv)
  IN  /\ InTransaction
      /\ IF drv.tr_ops # <<>>
         THEN Begin("rollback", mfs_garbage_collect(d, flash[d.bank].recs), Collected(d),
                    store)
         ELSE Begin("rollback", <<>>, d, store)

-----------------------------------------------------------------------------
(* Execution, power loss and failures *)

FlashStep ==
  /\ plan # <<>>
  /\ flash' = [flash EXCEPT ![Head(plan).bank] = Done(@, Head(plan))]
  /\ store' = Recovered(flash')
  /\ plan' = Tail(plan)
  /\ UNCHANGED <<drv, call, after, tries, goal>>

\* The call is over; mfsErase goes on with a mount.
Return ==
  /\ plan = <<>> /\ call # "none"
  /\ \/ /\ call = "erase"
        /\ TryMount(flash)
        /\ call' = "mount"
        /\ UNCHANGED <<flash, store, drv, tries, goal>>
     \/ /\ call # "erase"
        /\ drv' = after /\ after' = Stopped
        /\ call' = "none" /\ goal' = NoCall /\ tries' = 0
        /\ UNCHANGED <<flash, store, plan>>

\* What the operation in progress may have done when it does not end well.
Interrupted ==
  IF plan = <<>> THEN {flash}
  ELSE {flash, [flash EXCEPT ![Head(plan).bank] = Half(@, Head(plan))]}

\* Everything but the flash memory is lost.
PowerLoss ==
  /\ flash' \in Interrupted
  /\ store' = Recovered(flash')
  /\ drv' = Stopped /\ after' = Stopped
  /\ call' = "none" /\ plan' = <<>> /\ goal' = NoCall /\ tries' = 0

\* The flash reports an error.  The call returns it; the mount tries again.
FlashFailure ==
  /\ plan # <<>> \/ call = "mount"
  /\ flash' \in Interrupted
  /\ store' = Recovered(flash')
  /\ \/ /\ call = "mount" /\ tries + 1 < MAX_REPAIR_ATTEMPTS
        /\ tries' = tries + 1
        /\ TryMount(flash')
        /\ UNCHANGED <<drv, call, goal>>
     \/ /\ call # "mount" \/ tries + 1 = MAX_REPAIR_ATTEMPTS
        /\ drv' = Failed /\ after' = Stopped
        /\ call' = "none" /\ plan' = <<>> /\ goal' = NoCall /\ tries' = 0

-----------------------------------------------------------------------------

MfsInit ==
  /\ flash = [b \in Banks |-> ErasedBank]
  /\ store = [i \in Ids |-> NoVal]
  /\ drv = Stopped /\ after = Stopped
  /\ call = "none" /\ plan = <<>> /\ goal = NoCall /\ tries = 0

MfsCall ==
  \/ mfsStart \/ mfsStop \/ mfsErase \/ mfsPerformGarbageCollection
  \/ \E id \in Ids : \/ mfsReadRecord(id) \/ mfsEraseRecord(id) \/ EraseInTransaction(id)
                     \/ \E v \in Values : mfsWriteRecord(id, v) \/ WriteInTransaction(id, v)
  \/ \E size \in TransactionSizes : mfsStartTransaction(size)
  \/ mfsCommitTransaction \/ mfsRollbackTransaction

MfsNext == MfsCall \/ FlashStep \/ Return \/ PowerLoss \/ FlashFailure

MfsSpec == MfsInit /\ [][MfsNext]_mfsvars

-----------------------------------------------------------------------------
(* Properties *)

\* Every call changes the stored records as a whole or not at all, whenever
\* power fails or the flash reports an error: the stored records are the ones
\* that mfsStart would find.  Garbage collection, repair and roll-back change
\* none of them, a commit all of the transaction's at once.
Store == INSTANCE AtomicStore

StoreIsAtomic == Store!Spec

\* The driver's picture of the flash is what a restart would compute from the
\* flash alone, with nothing to repair: bank, counter, next offset, used space
\* and descriptors never drift from the contents.
RemountChangesNothing ==
  Ready => /\ Scanned(flash) = drv
           /\ Repair(flash) = <<>>
           /\ ~mfs_bank_scan_records(flash[drv.bank].recs).warn

\* mfsReadRecord returns what is committed, in a transaction as well: the
\* operations of a transaction in progress are not visible.
ReadsCommitted ==
  Ready \/ InTransaction =>
    LET recs == flash[drv.bank].recs
    IN  \A id \in Ids :
          \/ drv.desc[id] = NoRecord /\ store[id] = NoVal
          \/ \E o \in DOMAIN recs : /\ drv.desc[id] = [offset |-> o, size |-> recs[o].size]
                                    /\ store[id] = recs[o].val /\ store[id] # NoVal

\* Flash is programmed inside the bank and only where it is erased.
ProgramsErasedOnly ==
  plan # <<>> =>
    LET x == Head(plan)
        bank == flash[x.bank]
    IN  /\ x.op = "header" => bank.hdr = 0
        /\ x.op = "put" =>
             /\ x.off >= BankHeaderSize /\ x.off + ALIGNED_REC_SIZE(x.rec.size) <= BankSize
             /\ \A o \in x.off .. x.off + x.rec.size : ~Covered(bank.recs, o)

\* "It should never happen" (mfsEraseRecord): the marker that erases a record
\* always fits, however full the storage is.
EraseAlwaysFits ==
  Ready => \A id \in Ids : drv.desc[id].offset # 0 =>
                             ALIGNED_DHDR_SIZE <= BankSize - drv.used

=============================================================================
