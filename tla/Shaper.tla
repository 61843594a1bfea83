------------------------------- MODULE Shaper -------------------------------
(***************************************************************************)
(* The batching shaper of one stream direction (shaper/batch.go), its      *)
(* cover-traffic injector (shaper/covertraffic.go) and the record writer   *)
(* below it (crypto/record.go).                                            *)
(*                                                                         *)
(* A step is a critical section of bs.mu or of writeMu: flushAndWrite      *)
(* releases bs.mu between swapping the buffer out and writing it, and      *)
(* everything that may happen in that gap is an interleaving here.  Frames *)
(* are numbered in the order they enter the buffer; payloads are reduced   *)
(* to their encoded size.  The clock is abstracted: an armed timer may     *)
(* fire at any moment.                                                     *)
(***************************************************************************)
EXTENDS Integers, Sequences, FiniteSets

CONSTANTS
  Pushers,     \* goroutines calling PushData, PushFrame and Flush
  Timers,      \* goroutines that run onTimer callbacks
  Covers,      \* goroutines that run onIdle callbacks
  Closers,     \* goroutines calling Close
  Sizes,       \* Sizes[p]: encoded frame sizes pusher p may push
  Ceiling,     \* recordCeiling = crypto's maxPlain
  Threshold,   \* flushThreshold
  PadSizes,    \* padding lengths computePadPayloadSize may choose
  Header,      \* FrameHeaderSize
  CoverMin, CoverMax,   \* payload range of a cover frame
  BudgetCap, RatioNum, RatioDen,  \* cover budget: cap, and ratio as a fraction
  MaxFrames    \* bound: frames accepted over the life of the stream

Threads == Pushers \cup Timers \cup Covers \cup Closers

ASSUME ThreadsAssumption ==
  /\ Pushers \cap Timers = {} /\ Pushers \cap Covers = {} /\ Pushers \cap Closers = {}
  /\ Timers \cap Covers = {} /\ Timers \cap Closers = {} /\ Covers \cap Closers = {}

ASSUME SizesAssumption ==
  /\ Ceiling \in Nat \ {0} /\ Threshold \in 1 .. Ceiling
  /\ Sizes \in [Pushers -> SUBSET (Nat \ {0})]
  /\ PadSizes \subseteq Nat
  /\ Header \in Nat /\ CoverMin \in Nat \ {0} /\ CoverMax \in Nat /\ CoverMin <= CoverMax
  /\ BudgetCap \in Nat /\ RatioNum \in Nat /\ RatioDen \in Nat \ {0}
  /\ MaxFrames \in Nat

VARIABLES
  accepted,    \* frames appended so far: the buffer holds lo+1 .. accepted
  lo,          \* frames 1..lo were swapped out of the buffer
  bufLen,      \* len(bs.plaintext)
  freed,       \* bs.plaintext = nil (Close returned it to the pool)
  recs,        \* records swapped out, in order: bs.writeSeq = Len(recs)
  writeNext,   \* bs.writeNext
  closing, writeClosed,
  err,         \* bs.err # nil
  timer,       \* the flush timer is armed
  wire,        \* records the transport took, with the nonce they were sealed under
  nonce,       \* counter of the record writer
  failed,      \* some WriteRecord returned an error (history)
  budget, coverTimer,   \* the cover injector (stopped is set together with closing)
  pc,          \* pc[t]: where thread t stands
  seq,         \* seq[t]: the record t is writing
  size,        \* size[t]: the frame t is pushing
  res,         \* res[t]: what writeRecordInOrder returned
  pending      \* pending[k]: Close's snapshot of writeSeq

bufVars == <<accepted, lo, bufLen, freed, timer>>
recVars == <<recs, writeNext, wire, nonce, failed>>
flagVars == <<closing, writeClosed, err>>
coverVars == <<budget, coverTimer>>
locals == <<seq, size, res, pending>>
vars == <<bufVars, recVars, flagVars, coverVars, locals, pc>>

writeSeq == Len(recs)

(* "preflushing" and "writing" are the two places flushAndWrite is called  *)
(* from: before the append (the frame is still to be added) and after it.  *)
PCs == {"idle", "fired", "flush", "onIdle", "inject",
        "preflushing", "writing", "preflushed", "written",
        "snapshot", "drain", "free", "closed"}

Record == [lo : Nat, hi : Nat, size : Nat]
Sealed == [lo : Nat, hi : Nat, nonce : Nat]

TypeOK ==
  /\ accepted \in Nat /\ lo \in Nat /\ bufLen \in Nat
  /\ freed \in BOOLEAN /\ timer \in BOOLEAN
  /\ recs \in Seq(Record) /\ writeNext \in Nat
  /\ wire \in Seq(Sealed) /\ nonce \in Nat /\ failed \in BOOLEAN
  /\ closing \in BOOLEAN /\ writeClosed \in BOOLEAN /\ err \in BOOLEAN
  /\ budget \in Nat /\ coverTimer \in BOOLEAN
  /\ pc \in [Threads -> PCs]
  /\ seq \in [Threads -> Nat] /\ size \in [Threads -> Nat]
  /\ res \in [Threads -> {"nil", "err", "dropped"}]
  /\ pending \in [Closers -> Nat]

Init ==
  /\ accepted = 0 /\ lo = 0 /\ bufLen = 0 /\ freed = FALSE /\ timer = FALSE
  /\ recs = << >> /\ writeNext = 0
  /\ wire = << >> /\ nonce = 0 /\ failed = FALSE
  /\ closing = FALSE /\ writeClosed = FALSE /\ err = FALSE
  /\ budget = 0 /\ coverTimer = FALSE
  /\ pc = [t \in Threads |-> "idle"]
  /\ seq = [t \in Threads |-> 0] /\ size = [t \in Threads |-> 0]
  /\ res = [t \in Threads |-> "nil"]
  /\ pending = [k \in Closers |-> 0]

Goto(t, l) == pc' = [pc EXCEPT ![t] = l]

(* Where flushAndWrite's caller goes on: Close takes its snapshot next.    *)
After(t) == IF t \in Closers THEN "snapshot" ELSE "idle"

-----------------------------------------------------------------------------
(* flushLocked and the allocation of the sequence number, one section of   *)
(* bs.mu: the padded buffer, holding frames lo+1..hi in len bytes, becomes *)
(* the next record and an empty buffer takes its place.                    *)
SwapOut(t, hi, len, next) ==
  \E pad \in {0} \cup {n \in PadSizes : len + n <= Ceiling} :
    /\ recs' = Append(recs, [lo |-> lo, hi |-> hi, size |-> len + pad])
    /\ seq' = [seq EXCEPT ![t] = writeSeq]
    /\ lo' = hi /\ bufLen' = 0 /\ timer' = FALSE /\ freed' = FALSE
    /\ Goto(t, next)

(* Mutant: the flush timer is not rearmed.                                 *)
AppendFrameNoTimer(t, n) ==
  /\ accepted' = accepted + 1
  /\ IF bufLen + n >= Threshold
     THEN SwapOut(t, accepted + 1, bufLen + n, "writing")
     ELSE /\ bufLen' = bufLen + n /\ freed' = FALSE
          /\ seq' = [seq EXCEPT ![t] = 0]
          /\ Goto(t, "idle")
          /\ UNCHANGED <<lo, recs, timer>>

(* The rest of appendFrameLocked once the frame is known to fit: append,   *)
(* then flush at the threshold or leave the frame to the flush timer.      *)
AppendFrame(t, n) ==
  /\ accepted' = accepted + 1
  /\ IF bufLen + n >= Threshold
     THEN SwapOut(t, accepted + 1, bufLen + n, "writing")
     ELSE /\ bufLen' = bufLen + n /\ timer' = TRUE /\ freed' = FALSE
          /\ seq' = [seq EXCEPT ![t] = 0]
          /\ Goto(t, "idle")
          /\ UNCHANGED <<lo, recs>>

(* Mutant: no pre-flush.                                                   *)
appendFrameNoPreflush(t, n) ==
  /\ n <= Ceiling
  /\ AppendFrame(t, n)
  /\ size' = [size EXCEPT ![t] = 0]

(* appendFrameLocked: an oversized frame is refused, one that would burst  *)
(* the record flushes what is buffered first.                              *)
appendFrameLocked(t, n) ==
  \/ /\ n > Ceiling
     /\ Goto(t, "idle")
     /\ size' = [size EXCEPT ![t] = 0]
     /\ UNCHANGED <<accepted, lo, bufLen, freed, timer, recs, seq>>
  \/ /\ n <= Ceiling
     /\ bufLen > 0 /\ bufLen + n > Ceiling
     /\ SwapOut(t, accepted, bufLen, "preflushing")
     /\ size' = [size EXCEPT ![t] = n]
     /\ UNCHANGED accepted
  \/ /\ n <= Ceiling
     /\ bufLen = 0 \/ bufLen + n <= Ceiling
     /\ AppendFrame(t, n)
     /\ size' = [size EXCEPT ![t] = 0]

(* coverInjector.addBudget: a share of every real byte, capped; the idle   *)
(* timer is rearmed unless it was rearmed moments ago.                     *)
addBudget(n) ==
  /\ budget' = IF budget + n * RatioNum > BudgetCap * RatioDen
               THEN BudgetCap * RatioDen ELSE budget + n * RatioNum
  /\ coverTimer' \in {coverTimer, TRUE}

(* PushData and PushFrame.  A call that finds the shaper closing or in     *)
(* error returns at once and changes nothing.                              *)
Push(p) == \E n \in Sizes[p] :
  /\ pc[p] = "idle" /\ accepted < MaxFrames
  /\ ~closing /\ ~err
  /\ addBudget(n)
  /\ appendFrameLocked(p, n)
  /\ UNCHANGED <<writeNext, wire, nonce, failed, closing, writeClosed, err, res, pending>>

-----------------------------------------------------------------------------
(* Flush, and the flush of onTimer and of Close: nothing to do when the    *)
(* buffer is empty.                                                        *)
flush(t) ==
  /\ IF bufLen = 0
     THEN Goto(t, After(t)) /\ UNCHANGED <<lo, bufLen, freed, timer, recs, seq>>
     ELSE SwapOut(t, accepted, bufLen, "writing")
  /\ UNCHANGED <<accepted, writeNext, wire, nonce, failed, flagVars, coverVars,
                 size, res, pending>>

Flush(p) == pc[p] = "idle" /\ flush(p)

(* The flush timer expires: a callback goroutine starts.                   *)
FireTimer(t) ==
  /\ timer /\ pc[t] = "idle"
  /\ timer' = FALSE
  /\ Goto(t, "fired")
  /\ UNCHANGED <<accepted, lo, bufLen, freed, recVars, flagVars, coverVars, locals>>

(* onTimer looks at closing before it asks for bs.mu.                      *)
onTimer(t) ==
  /\ pc[t] = "fired"
  /\ Goto(t, IF closing THEN "idle" ELSE "flush")
  /\ UNCHANGED <<bufVars, recVars, flagVars, coverVars, locals>>

TimerFlush(t) == pc[t] = "flush" /\ flush(t)

-----------------------------------------------------------------------------
(* The idle timer expires: onIdle starts.                                  *)
FireCover(c) ==
  /\ coverTimer /\ pc[c] = "idle"
  /\ coverTimer' = FALSE
  /\ Goto(c, "onIdle")
  /\ UNCHANGED <<bufVars, recVars, flagVars, budget, locals>>

(* Mutant: a frame is paid for without looking at the budget.              *)
onIdleOverspend(c) ==
  /\ pc[c] = "onIdle" /\ ~closing
  /\ \E n \in CoverMin .. CoverMax :
       /\ budget' = budget - n * RatioDen
       /\ size' = [size EXCEPT ![c] = n]
  /\ Goto(c, "inject")
  /\ UNCHANGED <<bufVars, recVars, flagVars, coverTimer, seq, res, pending>>

(* onIdle under ci.mu: give up when closing, wait again when there was     *)
(* real traffic a moment ago, stay silent without budget, otherwise pay    *)
(* for a frame and rearm while the rest still buys one.                    *)
onIdle(c) ==
  /\ pc[c] = "onIdle"
  /\ \/ closing /\ Goto(c, "idle") /\ UNCHANGED <<budget, coverTimer, size>>
     \/ /\ ~closing
        /\ coverTimer' = TRUE
        /\ Goto(c, "idle")
        /\ UNCHANGED <<budget, size>>
     \/ /\ ~closing /\ budget < CoverMin * RatioDen
        /\ Goto(c, "idle")
        /\ UNCHANGED <<budget, coverTimer, size>>
     \/ /\ ~closing
        /\ \E n \in CoverMin .. CoverMax :
             /\ n * RatioDen <= budget
             /\ budget' = budget - n * RatioDen
             /\ size' = [size EXCEPT ![c] = n]
        /\ coverTimer' = (coverTimer \/ budget' >= CoverMin * RatioDen)
        /\ Goto(c, "inject")
  /\ UNCHANGED <<bufVars, recVars, flagVars, seq, res, pending>>

injectCoverFrame(c) ==
  /\ pc[c] = "inject"
  /\ \/ /\ closing \/ err
        /\ Goto(c, "idle")
        /\ size' = [size EXCEPT ![c] = 0]
        /\ UNCHANGED <<accepted, lo, bufLen, freed, timer, recs, seq>>
     \/ /\ ~closing /\ ~err /\ accepted < MaxFrames
        /\ appendFrameLocked(c, size[c] + Header)
  /\ UNCHANGED <<writeNext, wire, nonce, failed, flagVars, coverVars, res, pending>>

-----------------------------------------------------------------------------
(* RecordWriter.WriteRecord: an oversized record is refused before it      *)
(* takes a nonce; a failed write has used its nonce up.                    *)
WriteRecord(r) ==
  \/ /\ r.size <= Ceiling
     /\ wire' = Append(wire, [lo |-> r.lo, hi |-> r.hi, nonce |-> nonce])
     /\ nonce' = nonce + 1
     /\ UNCHANGED failed
  \/ /\ nonce' = IF r.size <= Ceiling THEN nonce + 1 ELSE nonce
     /\ failed' = TRUE
     /\ UNCHANGED wire

(* Mutant: whoever gets writeMu first writes, the defect that writeSeq is  *)
(* there to prevent.                                                       *)
writeRecordAnyOrder(t) ==
  /\ pc[t] \in {"preflushing", "writing"}
  /\ writeNext' = writeNext + 1
  /\ WriteRecord(recs[seq[t] + 1])
  /\ res' = [res EXCEPT ![t] = IF wire' = wire THEN "err" ELSE "nil"]
  /\ Goto(t, IF pc[t] = "writing" THEN "written" ELSE "preflushed")
  /\ UNCHANGED <<bufVars, recs, flagVars, coverVars, seq, size, pending>>

(* Mutant: a failed write returns without passing the turn on.             *)
writeRecordKeepTurn(t) ==
  /\ pc[t] \in {"preflushing", "writing"} /\ seq[t] = writeNext
  /\ WriteRecord(recs[seq[t] + 1])
  /\ writeNext' = IF wire' = wire THEN writeNext ELSE writeNext + 1
  /\ res' = [res EXCEPT ![t] = IF wire' = wire THEN "err" ELSE "nil"]
  /\ Goto(t, IF pc[t] = "writing" THEN "written" ELSE "preflushed")
  /\ UNCHANGED <<bufVars, recs, flagVars, coverVars, seq, size, pending>>

(* writeRecordInOrder: the thread whose turn it is writes under writeMu,   *)
(* or drops its record when Close is already through.                      *)
writeRecordInOrder(t) ==
  /\ pc[t] \in {"preflushing", "writing"} /\ seq[t] = writeNext
  /\ writeNext' = writeNext + 1
  /\ IF writeClosed
     THEN res' = [res EXCEPT ![t] = "dropped"] /\ UNCHANGED <<wire, nonce, failed>>
     ELSE /\ WriteRecord(recs[seq[t] + 1])
          /\ res' = [res EXCEPT ![t] = IF wire' = wire THEN "err" ELSE "nil"]
  /\ Goto(t, IF pc[t] = "writing" THEN "written" ELSE "preflushed")
  /\ UNCHANGED <<bufVars, recs, flagVars, coverVars, seq, size, pending>>

(* flushAndWrite after it has taken bs.mu again: a failed write is sticky, *)
(* a dropped one is reported to this caller only.                          *)
flushAndWriteReturns(t) ==
  /\ pc[t] = "written"
  /\ err' = (err \/ res[t] = "err")
  /\ seq' = [seq EXCEPT ![t] = 0] /\ res' = [res EXCEPT ![t] = "nil"]
  /\ Goto(t, After(t))
  /\ UNCHANGED <<bufVars, recVars, closing, writeClosed, coverVars, size, pending>>

(* Mutant: closing is not looked at again after the pre-flush.             *)
PreflushedNoRecheck(t) ==
  /\ pc[t] = "preflushed"
  /\ err' = (err \/ res[t] = "err")
  /\ size' = [size EXCEPT ![t] = 0] /\ res' = [res EXCEPT ![t] = "nil"]
  /\ res[t] = "nil" /\ AppendFrame(t, size[t])
  /\ UNCHANGED <<writeNext, wire, nonce, failed, closing, writeClosed, coverVars, pending>>

(* The same after a pre-flush: the frame is still to be appended, unless   *)
(* the flush failed or Close has begun meanwhile.                          *)
Preflushed(t) ==
  /\ pc[t] = "preflushed"
  /\ err' = (err \/ res[t] = "err")
  /\ size' = [size EXCEPT ![t] = 0] /\ res' = [res EXCEPT ![t] = "nil"]
  /\ \/ /\ res[t] # "nil" \/ closing
        /\ seq' = [seq EXCEPT ![t] = 0]
        /\ Goto(t, "idle")
        /\ UNCHANGED <<accepted, lo, bufLen, freed, timer, recs>>
     \/ /\ res[t] = "nil" /\ ~closing
        /\ AppendFrame(t, size[t])
  /\ UNCHANGED <<writeNext, wire, nonce, failed, closing, writeClosed, coverVars, pending>>

-----------------------------------------------------------------------------
(* Close, section by section.                                              *)
CloseBegin(k) ==
  /\ pc[k] = "idle"
  /\ closing' = TRUE /\ coverTimer' = FALSE /\ budget' = 0
  /\ timer' = FALSE
  /\ Goto(k, "flush")
  /\ UNCHANGED <<accepted, lo, bufLen, freed, recVars, writeClosed, err, locals>>

CloseFlush(k) == pc[k] = "flush" /\ flush(k)

CloseSnapshot(k) ==
  /\ pc[k] = "snapshot"
  /\ pending' = [pending EXCEPT ![k] = writeSeq]
  /\ Goto(k, "drain")
  /\ UNCHANGED <<bufVars, recVars, flagVars, coverVars, seq, size, res>>

(* Mutant: writeClosed is set without draining what was swapped out.       *)
CloseNoDrain(k) ==
  /\ pc[k] = "drain"
  /\ writeClosed' = TRUE
  /\ Goto(k, "free")
  /\ UNCHANGED <<bufVars, recVars, closing, err, coverVars, locals>>

CloseDrain(k) ==
  /\ pc[k] = "drain" /\ writeNext >= pending[k]
  /\ writeClosed' = TRUE
  /\ Goto(k, "free")
  /\ UNCHANGED <<bufVars, recVars, closing, err, coverVars, locals>>

CloseFree(k) ==
  /\ pc[k] = "free"
  /\ freed' = TRUE /\ lo' = accepted /\ bufLen' = 0
  /\ Goto(k, "closed")
  /\ UNCHANGED <<accepted, timer, recVars, flagVars, coverVars, locals>>

-----------------------------------------------------------------------------
Step(t) == writeRecordInOrder(t) \/ flushAndWriteReturns(t) \/ Preflushed(t)
PushStep(p) == Push(p) \/ Flush(p)
TimerStep(t) == FireTimer(t) \/ onTimer(t) \/ TimerFlush(t)
CoverStep(c) == FireCover(c) \/ onIdle(c) \/ injectCoverFrame(c)
CloseStep(k) == \/ CloseBegin(k) \/ CloseFlush(k) \/ CloseSnapshot(k)
                \/ CloseDrain(k) \/ CloseFree(k)

Next ==
  \/ \E t \in Threads : Step(t)
  \/ \E p \in Pushers : PushStep(p)
  \/ \E t \in Timers : TimerStep(t)
  \/ \E c \in Covers : CoverStep(c)
  \/ \E k \in Closers : CloseStep(k)

Spec == Init /\ [][Next]_vars

(* A goroutine that has something to do does it, I/O returns in the end    *)
(* and an armed timer expires.  Nobody is obliged to push, flush or close. *)
Fairness ==
  /\ \A t \in Threads : WF_vars(Step(t))
  /\ \A t \in Timers : WF_vars(TimerStep(t))
  /\ \A k \in Closers : WF_vars(CloseFlush(k) \/ CloseSnapshot(k) \/ CloseDrain(k) \/ CloseFree(k))

FairSpec == Spec /\ Fairness

-----------------------------------------------------------------------------
(* Records reach the transport in the order their frames entered the       *)
(* buffer: two records the peer can decode one after the other hold        *)
(* adjacent ranges of frames, although bs.mu is released before each write *)
(* (batch.go: writeSeq is allocated in the swap's critical section).       *)
RecordsInOrder ==
  \A i \in DOMAIN wire :
    wire[i].nonce = i - 1 => wire[i].lo = IF i = 1 THEN 0 ELSE wire[i - 1].hi

(* Close waits for every record that was swapped out, whoever swapped it,  *)
(* so the branch of writeRecordInOrder that throws a record away after     *)
(* writeClosed is never taken.                                             *)
NoRecordDropped == \A t \in Threads : res[t] # "dropped"

(* Once a Close has returned, the stream holds no pooled plaintext buffer  *)
(* again: whoever was in the middle of a push or a flush has seen closing. *)
BufferReleased == (\E k \in Closers : pc[k] = "closed") => freed

(* No record is longer than recordCeiling, the limit above which           *)
(* WriteRecord fails and the stream breaks (batch.go, comment of           *)
(* recordCeiling).  appendFrameLocked does not look at the length again    *)
(* after a pre-flush, during which others may have pushed: what keeps the  *)
(* sum below the ceiling is that only one goroutine of a stream pushes     *)
(* bulk data, and that the cover budget is capped.                         *)
RecordWithinCeiling == \A i \in DOMAIN recs : recs[i].size <= Ceiling

(* No record is longer than the transport takes, whoever pushes while a    *)
(* pre-flush writes; and a closed stream holds no pooled buffer again.     *)
BufferSound == RecordWithinCeiling /\ BufferReleased

(* What the peer can decode: ReadRecord opens the i-th record with nonce   *)
(* i-1, so it stops at the first record whose nonce is off.                *)
Readable == {i \in DOMAIN wire : wire[i].nonce = i - 1}
LastReadable == CHOOSE i \in Readable : \A j \in Readable : j <= i
Delivered == IF Readable = {} THEN 0 ELSE wire[LastReadable].hi

Pipe == INSTANCE FramePipe WITH delivered <- Delivered, broken <- failed,
                                closed <- writeClosed

(* The shaper, whatever its goroutines do, is a pipe: it delivers a prefix *)
(* of what was pushed, in order, nothing after writeClosed, and without a  *)
(* failed write everything that was accepted before Close returns.         *)
ImplementsPipe == Pipe!PipeSpec

(* A Close that has begun returns: its wait on writeCond ends.             *)
NoneClosing == \A k \in Closers : pc[k] \in {"idle", "closed"}
CloseReturns == []<>NoneClosing

(* A pushed frame is written, or its write fails, without the help of a    *)
(* later push, Flush or Close.                                             *)
AllWritten == accepted > 0 => \E i \in 1 .. writeNext : recs[i].hi = accepted
DataLeaves == []<>AllWritten
=============================================================================
