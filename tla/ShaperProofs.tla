---------------------------- MODULE ShaperProofs ----------------------------
(***************************************************************************)
(* Proofs about Shaper for any set of goroutines, frame sizes and bounds.  *)
(***************************************************************************)
EXTENDS Shaper, TLAPS

-----------------------------------------------------------------------------
(* The inductive invariant.  A thread between swap and write owns a        *)
(* sequence number nobody else owns, not yet written.                      *)
Active(t) == pc[t] \in {"preflushing", "writing"}

SeqInv ==
  /\ writeNext <= Len(recs)
  /\ \A t \in Threads : Active(t) => writeNext <= seq[t] /\ seq[t] < Len(recs)
  /\ \A t, u \in Threads : Active(t) /\ Active(u) /\ seq[t] = seq[u] => t = u

(* An empty buffer holds no frame: every frame has at least its header.    *)
BufInv ==
  /\ lo <= accepted /\ (bufLen = 0 => lo = accepted)
  /\ \A t \in Threads : pc[t] \in {"preflushing", "preflushed", "inject"} => size[t] > 0

(* The records swapped out are adjacent ranges of frames ending at lo.     *)
RecInv ==
  /\ \A i \in 1 .. Len(recs) :
       /\ recs[i].lo <= recs[i].hi /\ recs[i].hi <= lo
       /\ recs[i].lo = IF i = 1 THEN 0 ELSE recs[i - 1].hi
  /\ lo = IF Len(recs) = 0 THEN 0 ELSE recs[Len(recs)].hi

(* Once a Close has flushed, the buffer stays empty and no sequence number *)
(* is handed out, so its snapshot stays exact until everything is written. *)
CloseInv ==
  /\ \A k \in Closers :
       /\ pc[k] \in {"idle", "flush", "writing", "written", "snapshot", "drain", "free", "closed"}
       /\ pc[k] # "idle" => closing
       /\ pc[k] \notin {"idle", "flush"} => bufLen = 0
       /\ pc[k] = "drain" => pending[k] = Len(recs)
  /\ writeClosed => closing /\ bufLen = 0 /\ writeNext = Len(recs)
  /\ \A t \in Threads : res[t] # "dropped"

IInv == TypeOK /\ SeqInv /\ BufInv /\ RecInv /\ CloseInv

-----------------------------------------------------------------------------

(* Time limits for the leaves below.                                       *)
USE SMTT(30), ZenonT(30)

LEMMA UpdateType ==
  ASSUME NEW S, NEW T, NEW f \in [S -> T], NEW x \in S, NEW v \in T
  PROVE  [f EXCEPT ![x] = v] \in [S -> T]
  OBVIOUS

LEMMA ProductNat == ASSUME NEW a \in Nat, NEW b \in Nat PROVE a * b \in Nat
  BY SMT

(* Whatever is appended to the records stays typed.                        *)
LEMMA SwapOutType ==
  ASSUME TypeOK, NEW t \in Threads, NEW hi \in Nat, NEW len \in Nat,
         NEW next \in PCs, SwapOut(t, hi, len, next)
  PROVE  /\ recs' \in Seq(Record) /\ seq' \in [Threads -> Nat]
         /\ lo' \in Nat /\ bufLen' \in Nat /\ timer' \in BOOLEAN /\ freed' \in BOOLEAN
         /\ pc' \in [Threads -> PCs]
<1>1. PICK pad \in {0} \cup {n \in PadSizes : len + n <= Ceiling} :
         /\ recs' = Append(recs, [lo |-> lo, hi |-> hi, size |-> len + pad])
         /\ seq' = [seq EXCEPT ![t] = writeSeq]
         /\ lo' = hi /\ bufLen' = 0 /\ timer' = FALSE /\ freed' = FALSE
         /\ Goto(t, next)
  BY Zenon DEF SwapOut
<1>2. pad \in Nat
  BY SizesAssumption
<1>3. [lo |-> lo, hi |-> hi, size |-> len + pad] \in Record
  BY <1>2 DEF TypeOK, Record
<1>4. recs' \in Seq(Record)
  BY <1>1, <1>3 DEF TypeOK
<1>5. seq \in [Threads -> Nat] /\ pc \in [Threads -> PCs] /\ writeSeq \in Nat
  BY DEF TypeOK, writeSeq
<1>6. seq' \in [Threads -> Nat]
  BY <1>1, <1>5, UpdateType
<1>7. pc' \in [Threads -> PCs]
  BY <1>1, <1>5, UpdateType DEF Goto
<1> QED
  BY Zenon, <1>1, <1>4, <1>6, <1>7

LEMMA AppendFrameType ==
  ASSUME TypeOK, NEW t \in Threads, NEW n \in Nat, AppendFrame(t, n)
  PROVE  /\ recs' \in Seq(Record) /\ seq' \in [Threads -> Nat] /\ accepted' \in Nat
         /\ lo' \in Nat /\ bufLen' \in Nat /\ timer' \in BOOLEAN /\ freed' \in BOOLEAN
         /\ pc' \in [Threads -> PCs]
<1>1. accepted' \in Nat /\ bufLen + n \in Nat /\ accepted + 1 \in Nat /\ "writing" \in PCs
  BY DEF AppendFrame, TypeOK, PCs
<1>2. CASE bufLen + n >= Threshold
  BY <1>1, <1>2, SwapOutType DEF AppendFrame
<1>3. CASE ~(bufLen + n >= Threshold)
  <2>1. seq' = [seq EXCEPT ![t] = 0] /\ seq \in [Threads -> Nat]
    BY <1>3 DEF AppendFrame, TypeOK
  <2>2. seq' \in [Threads -> Nat]
    BY <2>1, UpdateType
  <2>3. pc' \in [Threads -> PCs]
    BY Zenon, <1>3 DEF AppendFrame, TypeOK, PCs, Goto
  <2> QED
    BY Zenon, <1>1, <1>3, <2>2, <2>3 DEF AppendFrame, TypeOK
<1> QED
  BY <1>2, <1>3

LEMMA AppendFrameLockedType ==
  ASSUME TypeOK, NEW t \in Threads, NEW n \in Nat, appendFrameLocked(t, n)
  PROVE  /\ recs' \in Seq(Record) /\ seq' \in [Threads -> Nat] /\ accepted' \in Nat
         /\ lo' \in Nat /\ bufLen' \in Nat /\ timer' \in BOOLEAN /\ freed' \in BOOLEAN
         /\ pc' \in [Threads -> PCs] /\ size' \in [Threads -> Nat]
<1>1. CASE n > Ceiling /\ Goto(t, "idle") /\ size' = [size EXCEPT ![t] = 0]
           /\ UNCHANGED <<accepted, lo, bufLen, freed, timer, recs, seq>>
  BY <1>1 DEF TypeOK, PCs, Goto
<1>2. CASE SwapOut(t, accepted, bufLen, "preflushing") /\ size' = [size EXCEPT ![t] = n]
           /\ UNCHANGED accepted
  BY Zenon, <1>2, SwapOutType DEF TypeOK, PCs
<1>3. CASE AppendFrame(t, n) /\ size' = [size EXCEPT ![t] = 0]
  BY Zenon, <1>3, AppendFrameType DEF TypeOK
<1> QED
  BY Zenon, <1>1, <1>2, <1>3 DEF appendFrameLocked

LEMMA FlushType ==
  ASSUME TypeOK, NEW t \in Threads, flush(t)
  PROVE  TypeOK'
<1>1. After(t) \in PCs
  BY DEF After, PCs
<1>2. CASE bufLen = 0
  BY Zenon, <1>1, <1>2 DEF flush, TypeOK, Goto, flagVars, coverVars
<1>3. CASE bufLen # 0
  BY Zenon, <1>3, SwapOutType DEF flush, TypeOK, PCs, flagVars, coverVars
<1> QED
  BY <1>2, <1>3

(* Every step keeps the types; writing needs a sequence number in range. *)
LEMMA TypeStep ==
  ASSUME TypeOK, SeqInv, Next
  PROVE  TypeOK'
<1> USE DEF bufVars, recVars, flagVars, coverVars, locals
<1>1. ASSUME NEW t \in Threads, writeRecordInOrder(t) PROVE TypeOK'
  <2>1. recs[writeNext + 1] \in Record
    BY <1>1 DEF writeRecordInOrder, SeqInv, Active, TypeOK
  <2>2. /\ wire' \in Seq(Sealed) /\ nonce' \in Nat /\ failed' \in BOOLEAN
        /\ res' \in [Threads -> {"nil", "err", "dropped"}]
    <3>1. [lo |-> recs[writeNext + 1].lo, hi |-> recs[writeNext + 1].hi, nonce |-> nonce] \in Sealed
      BY Zenon, <2>1 DEF Record, Sealed, TypeOK
    <3>2. CASE writeClosed
      BY Zenon, <1>1, <3>2 DEF writeRecordInOrder, TypeOK
    <3>5. res \in [Threads -> {"nil", "err", "dropped"}] /\ res' \in
              {[res EXCEPT ![t] = v] : v \in {"nil", "err", "dropped"}}
      BY <1>1 DEF writeRecordInOrder, TypeOK
    <3>6. res' \in [Threads -> {"nil", "err", "dropped"}]
      BY <3>5
    <3>3. CASE ~writeClosed /\ wire' = Append(wire, [lo |-> recs[writeNext + 1].lo,
                 hi |-> recs[writeNext + 1].hi, nonce |-> nonce]) /\ nonce' = nonce + 1 /\ UNCHANGED failed
      BY <3>1, <3>3, <3>6 DEF TypeOK
    <3>4. CASE ~writeClosed /\ nonce' \in {nonce, nonce + 1} /\ failed' = TRUE /\ UNCHANGED wire
      BY <3>4, <3>6 DEF TypeOK
    <3> QED
      BY Zenon, <1>1, <3>2, <3>3, <3>4 DEF writeRecordInOrder, WriteRecord
  <2> QED
    BY <1>1, <2>2 DEF writeRecordInOrder, TypeOK, PCs, Goto
<1>2. ASSUME NEW t \in Threads, flushAndWriteReturns(t) PROVE TypeOK'
  BY <1>2 DEF flushAndWriteReturns, After, TypeOK, PCs, Goto
<1>3. ASSUME NEW t \in Threads, Preflushed(t) PROVE TypeOK'
  <2>1. /\ size \in [Threads -> Nat] /\ seq \in [Threads -> Nat]
        /\ res \in [Threads -> {"nil", "err", "dropped"}] /\ size[t] \in Nat
    BY DEF TypeOK
  <2>2. size' \in [Threads -> Nat] /\ res' \in [Threads -> {"nil", "err", "dropped"}]
    BY <1>3, <2>1, UpdateType DEF Preflushed
  <2>3. CASE seq' = [seq EXCEPT ![t] = 0] /\ Goto(t, "idle")
             /\ UNCHANGED <<accepted, lo, bufLen, freed, timer, recs>>
    <3>1. seq' \in [Threads -> Nat]
      BY Zenon, <2>1, <2>3, UpdateType
    <3> QED
      BY <1>3, <2>2, <2>3, <3>1 DEF Preflushed, TypeOK, PCs, Goto
  <2>4. CASE AppendFrame(t, size[t])
    BY Zenon, <1>3, <2>1, <2>2, <2>4, AppendFrameType DEF Preflushed, TypeOK
  <2> QED
    BY <1>3, <2>3, <2>4 DEF Preflushed
<1>4. ASSUME NEW p \in Pushers, Push(p) PROVE TypeOK'
  <2>1. PICK n \in Sizes[p] : /\ addBudget(n) /\ appendFrameLocked(p, n)
            /\ UNCHANGED <<writeNext, wire, nonce, failed, closing, writeClosed, err, res, pending>>
    BY <1>4 DEF Push
  <2>2. n \in Nat /\ p \in Threads
    BY SizesAssumption DEF Threads
  <2>3. budget' \in Nat
    <3>1. budget \in Nat /\ n * RatioNum \in Nat /\ BudgetCap * RatioDen \in Nat
      BY <2>2, ProductNat, SizesAssumption DEF TypeOK
    <3>2. budget' \in {BudgetCap * RatioDen, budget + n * RatioNum}
      BY <2>1 DEF addBudget
    <3> DEFINE a == n * RatioNum  b == BudgetCap * RatioDen
    <3> HIDE DEF a, b
    <3> QED
      BY <3>1, <3>2 DEF a, b
  <2>4. coverTimer' \in BOOLEAN
    BY Zenon, <2>1 DEF addBudget, TypeOK
  <2>5. /\ recs' \in Seq(Record) /\ seq' \in [Threads -> Nat] /\ accepted' \in Nat
        /\ lo' \in Nat /\ bufLen' \in Nat /\ timer' \in BOOLEAN /\ freed' \in BOOLEAN
        /\ pc' \in [Threads -> PCs] /\ size' \in [Threads -> Nat]
    BY Zenon, <2>1, <2>2, AppendFrameLockedType
  <2> QED
    BY Zenon, <2>1, <2>3, <2>4, <2>5 DEF TypeOK
<1>5. ASSUME NEW p \in Pushers, Flush(p) PROVE TypeOK'
  BY <1>5, FlushType DEF Flush, Threads
<1>6. ASSUME NEW t \in Timers, FireTimer(t) PROVE TypeOK'
  BY Zenon, <1>6 DEF FireTimer, TypeOK, PCs, Goto
<1>7. ASSUME NEW t \in Timers, onTimer(t) PROVE TypeOK'
  BY Zenon, <1>7 DEF onTimer, TypeOK, PCs, Goto
<1>8. ASSUME NEW t \in Timers, TimerFlush(t) PROVE TypeOK'
  BY <1>8, FlushType DEF TimerFlush, Threads
<1>9. ASSUME NEW c \in Covers, FireCover(c) PROVE TypeOK'
  BY Zenon, <1>9 DEF FireCover, TypeOK, PCs, Goto
<1>10. ASSUME NEW c \in Covers, onIdle(c) PROVE TypeOK'
  <2>1. budget' \in Nat /\ size' \in [Threads -> Nat]
    <3>1. CASE UNCHANGED <<budget, size>>
      BY <3>1 DEF TypeOK
    <3>2. CASE \E n \in CoverMin .. CoverMax :
                 /\ n * RatioDen <= budget
                 /\ budget' = budget - n * RatioDen
                 /\ size' = [size EXCEPT ![c] = n]
      <4>1. PICK n \in CoverMin .. CoverMax :
                 /\ n * RatioDen <= budget
                 /\ budget' = budget - n * RatioDen
                 /\ size' = [size EXCEPT ![c] = n]
        BY Zenon, <3>2
      <4>2. n \in Nat /\ n * RatioDen \in Nat
        BY ProductNat, SizesAssumption
      <4>3. budget \in Nat /\ size \in [Threads -> Nat] /\ c \in Threads
        BY DEF TypeOK, Threads
      <4>4. size' \in [Threads -> Nat]
        BY <4>1, <4>2, <4>3, UpdateType
      <4> DEFINE a == n * RatioDen
      <4>5. a \in Nat /\ a <= budget /\ budget' = budget - a
        BY <4>1, <4>2
      <4> HIDE DEF a
      <4> QED
        BY <4>3, <4>4, <4>5
    <3> QED
      BY <1>10, <3>1, <3>2 DEF onIdle
  <2>2. coverTimer' \in BOOLEAN
    BY Zenon, <1>10 DEF onIdle, TypeOK
  <2>3. pc' \in [Threads -> PCs]
    BY Zenon, <1>10 DEF onIdle, TypeOK, PCs, Goto
  <2> QED
    BY <1>10, <2>1, <2>2, <2>3 DEF onIdle, TypeOK
<1>11. ASSUME NEW c \in Covers, injectCoverFrame(c) PROVE TypeOK'
  <2>1. c \in Threads /\ size[c] + Header \in Nat
    BY SizesAssumption DEF Threads, TypeOK
  <2>2. CASE Goto(c, "idle") /\ size' = [size EXCEPT ![c] = 0]
             /\ UNCHANGED <<accepted, lo, bufLen, freed, timer, recs, seq>>
    <3>1. size \in [Threads -> Nat]
      BY DEF TypeOK
    <3>2. size' \in [Threads -> Nat]
      BY <2>1, <2>2, <3>1, UpdateType
    <3> QED
      BY <1>11, <2>2, <3>2 DEF injectCoverFrame, TypeOK, PCs, Goto
  <2>3. CASE appendFrameLocked(c, size[c] + Header)
    BY Zenon, <1>11, <2>1, <2>3, AppendFrameLockedType DEF injectCoverFrame, TypeOK
  <2> QED
    BY <1>11, <2>2, <2>3 DEF injectCoverFrame
<1>12. ASSUME NEW k \in Closers, CloseBegin(k) PROVE TypeOK'
  BY Zenon, <1>12 DEF CloseBegin, TypeOK, PCs, Goto
<1>13. ASSUME NEW k \in Closers, CloseFlush(k) PROVE TypeOK'
  BY <1>13, FlushType DEF CloseFlush, Threads
<1>14. ASSUME NEW k \in Closers, CloseSnapshot(k) PROVE TypeOK'
  <2>1. pending \in [Closers -> Nat] /\ writeSeq \in Nat
    BY DEF TypeOK, writeSeq
  <2>2. pending' \in [Closers -> Nat]
    BY <1>14, <2>1, UpdateType DEF CloseSnapshot
  <2> QED
    BY Zenon, <1>14, <2>2 DEF CloseSnapshot, TypeOK, PCs, Goto
<1>15. ASSUME NEW k \in Closers, CloseDrain(k) PROVE TypeOK'
  BY Zenon, <1>15 DEF CloseDrain, TypeOK, PCs, Goto
<1>16. ASSUME NEW k \in Closers, CloseFree(k) PROVE TypeOK'
  BY Zenon, <1>16 DEF CloseFree, TypeOK, PCs, Goto
<1> QED
  BY Zenon, <1>1, <1>2, <1>3, <1>4, <1>5, <1>6, <1>7, <1>8, <1>9, <1>10, <1>11, <1>12, <1>13, <1>14, <1>15, <1>16 DEF Next, Step, PushStep, TimerStep, CoverStep, CloseStep

-----------------------------------------------------------------------------
(* Sequence numbers and records.  A step that neither swaps nor writes and *)
(* takes its thread out of flushAndWrite disturbs nobody's number.         *)
LEMMA SeqQuiet ==
  ASSUME TypeOK, SeqInv, NEW t \in Threads, NEW l \in PCs \ {"preflushing", "writing"},
         Goto(t, l), UNCHANGED <<recs, writeNext>>,
         \A u \in Threads \ {t} : seq'[u] = seq[u]
  PROVE  SeqInv'
  BY Zenon DEF TypeOK, SeqInv, Active, Goto

LEMMA RecQuiet ==
  ASSUME RecInv, UNCHANGED <<recs, lo>>
  PROVE  RecInv'
  BY DEF RecInv

(* Swapping out hands the thread the next number and extends the chain.    *)
LEMMA SwapOutKeeps ==
  ASSUME TypeOK, SeqInv, RecInv, NEW t \in Threads, NEW hi \in Nat, NEW len \in Nat,
         NEW next \in PCs, SwapOut(t, hi, len, next), lo <= hi, UNCHANGED writeNext
  PROVE  SeqInv' /\ RecInv' /\ Len(recs') = Len(recs) + 1
<1>1. PICK pad \in {0} \cup {n \in PadSizes : len + n <= Ceiling} :
         /\ recs' = Append(recs, [lo |-> lo, hi |-> hi, size |-> len + pad])
         /\ seq' = [seq EXCEPT ![t] = writeSeq]
         /\ lo' = hi /\ Goto(t, next)
  BY Zenon DEF SwapOut
<1> DEFINE r == [lo |-> lo, hi |-> hi, size |-> len + pad]
<1>2. /\ recs \in Seq(Record) /\ seq \in [Threads -> Nat] /\ pc \in [Threads -> PCs]
      /\ writeNext \in Nat /\ lo \in Nat
  BY DEF TypeOK
<1>3. r \in Record
  <2>1. pad \in Nat
    BY SizesAssumption
  <2> QED
    BY <1>2, <2>1 DEF Record
<1>4. /\ Len(recs') = Len(recs) + 1
      /\ \A i \in 1 .. Len(recs) : recs'[i] = recs[i]
      /\ recs'[Len(recs) + 1] = r
  BY <1>1, <1>2, <1>3
<1>5. r.lo = lo /\ r.hi = hi
  OBVIOUS
<1> HIDE DEF r
<1>6. SeqInv'
  <2>1. Len(recs) \in Nat
    BY <1>2
  <2>2. seq'[t] = Len(recs) /\ \A u \in Threads \ {t} : seq'[u] = seq[u] /\ pc'[u] = pc[u]
    BY <1>1, <1>2 DEF Goto, writeSeq
  <2>3. writeNext' = writeNext /\ writeNext <= Len(recs)
    BY DEF SeqInv
  <2>4. \A u \in Threads : seq[u] \in Nat
    BY <1>2
  <2>5. ASSUME NEW u \in Threads, Active(u)'
        PROVE  writeNext' <= seq'[u] /\ seq'[u] < Len(recs')
    BY <1>2, <1>4, <2>1, <2>2, <2>3, <2>4, <2>5 DEF SeqInv, Active
  <2>6. ASSUME NEW u \in Threads, NEW v \in Threads, Active(u)', Active(v)', seq'[u] = seq'[v]
        PROVE  u = v
    BY <1>2, <2>1, <2>2, <2>4, <2>6 DEF SeqInv, Active
  <2> QED
    BY <1>2, <1>4, <2>1, <2>3, <2>5, <2>6 DEF SeqInv
<1>7. RecInv'
  <2>1. Len(recs) \in Nat /\ \A i \in 1 .. Len(recs) : recs[i] \in Record
    BY <1>2
  <2>2. \A i \in 1 .. Len(recs) : recs[i].hi \in Nat /\ recs[i].lo \in Nat
    BY <2>1 DEF Record
  <2> QED
    BY <1>1, <1>2, <1>4, <1>5, <2>1, <2>2 DEF RecInv
<1> QED
  BY <1>4, <1>6, <1>7

LEMMA AppendFrameKeeps ==
  ASSUME TypeOK, SeqInv, RecInv, BufInv, NEW t \in Threads, NEW n \in Nat, n > 0,
         AppendFrame(t, n), UNCHANGED writeNext
  PROVE  /\ SeqInv' /\ RecInv'
         /\ lo' <= accepted' /\ (bufLen' = 0 => lo' = accepted')
         /\ pc' = [pc EXCEPT ![t] = "idle"] \/ pc' = [pc EXCEPT ![t] = "writing"]
<1>1. /\ accepted \in Nat /\ lo \in Nat /\ bufLen \in Nat /\ lo <= accepted
      /\ "writing" \in PCs /\ "idle" \in PCs \ {"preflushing", "writing"}
      /\ seq \in [Threads -> Nat]
  BY DEF TypeOK, BufInv, PCs
<1>2. CASE bufLen + n >= Threshold
  <2>1. SwapOut(t, accepted + 1, bufLen + n, "writing") /\ accepted' = accepted + 1
    BY <1>2 DEF AppendFrame
  <2>2. lo' = accepted' /\ pc' = [pc EXCEPT ![t] = "writing"]
    BY <2>1 DEF SwapOut, Goto
  <2>3. accepted + 1 \in Nat /\ bufLen + n \in Nat /\ lo <= accepted + 1
    BY <1>1
  <2>4. SeqInv' /\ RecInv'
    BY <1>1, <2>1, <2>3, SwapOutKeeps
  <2> QED
    BY <1>1, <2>1, <2>2, <2>4
<1>3. CASE ~(bufLen + n >= Threshold)
  <2>1. /\ accepted' = accepted + 1 /\ bufLen' = bufLen + n /\ Goto(t, "idle")
        /\ UNCHANGED <<lo, recs>> /\ seq' = [seq EXCEPT ![t] = 0]
    BY <1>3 DEF AppendFrame
  <2>2. \A u \in Threads \ {t} : seq'[u] = seq[u]
    BY <1>1, <2>1
  <2>3. SeqInv'
    BY <1>1, <2>1, <2>2, SeqQuiet
  <2>4. RecInv'
    BY <2>1, RecQuiet
  <2> QED
    BY <1>1, <2>1, <2>3, <2>4 DEF Goto
<1> QED
  BY <1>2, <1>3

(* BufInv only depends on the thread that moves: it may rest anywhere but  *)
(* before an append with nothing to append.                                *)
LEMMA SizesKept ==
  ASSUME TypeOK, BufInv, NEW t \in Threads, NEW l \in PCs, Goto(t, l),
         \A u \in Threads \ {t} : size'[u] = size[u],
         l \in {"preflushing", "preflushed", "inject"} => size'[t] > 0
  PROVE  \A u \in Threads : pc'[u] \in {"preflushing", "preflushed", "inject"} => size'[u] > 0
  BY DEF TypeOK, BufInv, Goto

LEMMA AppendFrameLockedKeeps ==
  ASSUME TypeOK, SeqInv, RecInv, BufInv, NEW t \in Threads, NEW n \in Nat, n > 0,
         appendFrameLocked(t, n), UNCHANGED writeNext
  PROVE  SeqInv' /\ RecInv' /\ BufInv'
<1>1. /\ accepted \in Nat /\ lo \in Nat /\ bufLen \in Nat /\ lo <= accepted
      /\ {"writing", "preflushing"} \subseteq PCs /\ "idle" \in PCs \ {"preflushing", "writing"}
      /\ size \in [Threads -> Nat]
  BY Zenon DEF TypeOK, BufInv, PCs
<1>2. CASE n > Ceiling /\ Goto(t, "idle") /\ size' = [size EXCEPT ![t] = 0]
           /\ UNCHANGED <<accepted, lo, bufLen, freed, timer, recs, seq>>
  <2>1. SeqInv' /\ RecInv'
    BY <1>1, <1>2, SeqQuiet, RecQuiet
  <2>2. \A u \in Threads \ {t} : size'[u] = size[u]
    BY <1>1, <1>2
  <2>3. \A u \in Threads : pc'[u] \in {"preflushing", "preflushed", "inject"} => size'[u] > 0
    BY <1>1, <1>2, <2>2, SizesKept
  <2> QED
    BY <1>2, <2>1, <2>3 DEF BufInv
<1>3. CASE SwapOut(t, accepted, bufLen, "preflushing") /\ size' = [size EXCEPT ![t] = n]
           /\ UNCHANGED accepted
  <2>1. SeqInv' /\ RecInv'
    BY <1>1, <1>3, SwapOutKeeps
  <2>2. lo' = accepted' /\ Goto(t, "preflushing")
    BY <1>3 DEF SwapOut
  <2>3. size'[t] = n /\ \A u \in Threads \ {t} : size'[u] = size[u]
    BY <1>1, <1>3
  <2>4. \A u \in Threads : pc'[u] \in {"preflushing", "preflushed", "inject"} => size'[u] > 0
    BY <1>1, <2>2, <2>3, SizesKept
  <2> QED
    BY <1>1, <1>3, <2>1, <2>2, <2>4 DEF BufInv
<1>4. CASE AppendFrame(t, n) /\ size' = [size EXCEPT ![t] = 0]
  <2>1. /\ SeqInv' /\ RecInv'
        /\ lo' <= accepted' /\ (bufLen' = 0 => lo' = accepted')
        /\ Goto(t, "idle") \/ Goto(t, "writing")
    BY <1>4, AppendFrameKeeps DEF Goto
  <2>2. \A u \in Threads \ {t} : size'[u] = size[u]
    BY Zenon, <1>1, <1>4
  <2>3. \A u \in Threads : pc'[u] \in {"preflushing", "preflushed", "inject"} => size'[u] > 0
    BY <1>1, <2>1, <2>2, SizesKept
  <2> QED
    BY <2>1, <2>3 DEF BufInv
<1> QED
  BY <1>2, <1>3, <1>4 DEF appendFrameLocked

LEMMA FlushKeeps ==
  ASSUME TypeOK, SeqInv, RecInv, BufInv, NEW t \in Threads, flush(t)
  PROVE  SeqInv' /\ RecInv' /\ BufInv'
<1>1. /\ accepted \in Nat /\ lo \in Nat /\ bufLen \in Nat /\ lo <= accepted
      /\ "writing" \in PCs
      /\ After(t) \in PCs \ {"preflushing", "writing", "preflushed", "inject"}
      /\ UNCHANGED <<accepted, writeNext, size>>
  BY DEF TypeOK, BufInv, PCs, After, flush
<1>2. CASE bufLen = 0
  <2>1. Goto(t, After(t)) /\ UNCHANGED <<lo, bufLen, freed, timer, recs, seq>>
    BY <1>2 DEF flush
  <2>2. SeqInv' /\ RecInv'
    BY Zenon, <1>1, <2>1, SeqQuiet, RecQuiet
  <2>3. \A u \in Threads : pc'[u] \in {"preflushing", "preflushed", "inject"} => size'[u] > 0
    BY <1>1, <2>1, SizesKept
  <2> QED
    BY <1>1, <2>1, <2>2, <2>3 DEF BufInv
<1>3. CASE bufLen # 0
  <2>1. SwapOut(t, accepted, bufLen, "writing")
    BY <1>3 DEF flush
  <2>2. SeqInv' /\ RecInv'
    BY <1>1, <2>1, SwapOutKeeps
  <2>3. lo' = accepted' /\ Goto(t, "writing")
    BY Zenon, <1>1, <2>1 DEF SwapOut
  <2>4. \A u \in Threads : pc'[u] \in {"preflushing", "preflushed", "inject"} => size'[u] > 0
    BY <1>1, <2>3, SizesKept
  <2> QED
    BY <1>1, <2>2, <2>3, <2>4 DEF BufInv
<1> QED
  BY Zenon, <1>2, <1>3

(* A step that moves one thread and leaves buffer and records alone.       *)
LEMMA ChainQuiet ==
  ASSUME TypeOK, SeqInv, RecInv, BufInv, NEW t \in Threads,
         NEW l \in PCs \ {"preflushing", "writing", "preflushed", "inject"}, Goto(t, l),
         UNCHANGED <<recs, writeNext, lo, bufLen, accepted>>,
         \A u \in Threads \ {t} : seq'[u] = seq[u] /\ size'[u] = size[u]
  PROVE  SeqInv' /\ RecInv' /\ BufInv'
<1>1. SeqInv' /\ RecInv'
  BY SeqQuiet, RecQuiet
<1>2. \A u \in Threads : pc'[u] \in {"preflushing", "preflushed", "inject"} => size'[u] > 0
  BY Zenon, SizesKept
<1> QED
  BY Zenon, <1>1, <1>2 DEF BufInv

(* Every step keeps sequence numbers unique and the records adjacent. *)
LEMMA ChainStep ==
  ASSUME IInv, Next
  PROVE  SeqInv' /\ RecInv' /\ BufInv'
<1> USE DEF bufVars, recVars, flagVars, coverVars, locals, IInv
<1>1. ASSUME NEW t \in Threads, writeRecordInOrder(t) PROVE SeqInv' /\ RecInv' /\ BufInv'
  <2>1. /\ seq \in [Threads -> Nat] /\ pc \in [Threads -> PCs] /\ writeNext \in Nat
        /\ recs \in Seq(Record) /\ Len(recs) \in Nat
        /\ \A u \in Threads : seq[u] \in Nat
    BY DEF TypeOK
  <2>2. /\ UNCHANGED <<recs, seq, lo, bufLen, accepted, size>> /\ writeNext' = writeNext + 1
        /\ seq[t] = writeNext /\ Active(t)
    BY Zenon, <1>1 DEF writeRecordInOrder, Active
  <2>3. pc'[t] \in {"written", "preflushed"} /\ \A u \in Threads \ {t} : pc'[u] = pc[u]
    BY <1>1, <2>1 DEF writeRecordInOrder, Goto
  <2>4. SeqInv'
    BY <2>1, <2>2, <2>3 DEF SeqInv, Active
  <2>5. pc'[t] = "preflushed" => size[t] > 0
    BY <1>1, <2>1 DEF writeRecordInOrder, Goto, BufInv
  <2>6. BufInv'
    BY Zenon, <2>2, <2>3, <2>5 DEF BufInv
  <2> QED
    BY <2>2, <2>4, <2>6, RecQuiet
<1>2. ASSUME NEW t \in Threads, flushAndWriteReturns(t) PROVE SeqInv' /\ RecInv' /\ BufInv'
  <2>1. /\ After(t) \in PCs \ {"preflushing", "writing", "preflushed", "inject"}
        /\ seq \in [Threads -> Nat]
    BY Zenon DEF After, PCs, TypeOK
  <2>2. \A u \in Threads \ {t} : seq'[u] = seq[u] /\ size'[u] = size[u]
    BY Zenon, <1>2, <2>1 DEF flushAndWriteReturns
  <2> QED
    BY <1>2, <2>1, <2>2, ChainQuiet DEF flushAndWriteReturns
<1>3. ASSUME NEW t \in Threads, Preflushed(t) PROVE SeqInv' /\ RecInv' /\ BufInv'
  <2>1. /\ "idle" \in PCs \ {"preflushing", "writing", "preflushed", "inject"} /\ "writing" \in PCs
        /\ seq \in [Threads -> Nat] /\ size \in [Threads -> Nat] /\ size[t] \in Nat /\ size[t] > 0
    BY Zenon, <1>3 DEF PCs, TypeOK, Preflushed, BufInv
  <2>2. UNCHANGED writeNext /\ \A u \in Threads \ {t} : size'[u] = size[u]
    BY <1>3, <2>1 DEF Preflushed
  <2>3. CASE seq' = [seq EXCEPT ![t] = 0] /\ Goto(t, "idle")
             /\ UNCHANGED <<accepted, lo, bufLen, freed, timer, recs>>
    <3>1. \A u \in Threads \ {t} : seq'[u] = seq[u]
      BY <2>1, <2>3
    <3> QED
      BY <2>1, <2>2, <2>3, <3>1, ChainQuiet
  <2>4. CASE AppendFrame(t, size[t])
    <3>1. /\ SeqInv' /\ RecInv'
          /\ lo' <= accepted' /\ (bufLen' = 0 => lo' = accepted')
          /\ Goto(t, "idle") \/ Goto(t, "writing")
      BY Zenon, <2>1, <2>2, <2>4, AppendFrameKeeps DEF Goto
    <3>2. \A u \in Threads : pc'[u] \in {"preflushing", "preflushed", "inject"} => size'[u] > 0
      BY <2>1, <2>2, <3>1, SizesKept
    <3> QED
      BY <3>1, <3>2 DEF BufInv
  <2> QED
    BY Zenon, <1>3, <2>3, <2>4 DEF Preflushed
<1>4. ASSUME NEW p \in Pushers, Push(p) PROVE SeqInv' /\ RecInv' /\ BufInv'
  <2>1. PICK n \in Sizes[p] : appendFrameLocked(p, n) /\ UNCHANGED writeNext
    BY <1>4 DEF Push
  <2>2. n \in Nat /\ n > 0 /\ p \in Threads
    BY SizesAssumption DEF Threads
  <2> QED
    BY <2>1, <2>2, AppendFrameLockedKeeps
<1>5. ASSUME NEW p \in Pushers, Flush(p) PROVE SeqInv' /\ RecInv' /\ BufInv'
  BY Zenon, <1>5, FlushKeeps DEF Flush, Threads
<1>6. ASSUME NEW t \in Timers, FireTimer(t) PROVE SeqInv' /\ RecInv' /\ BufInv'
  <2>1. t \in Threads /\ "fired" \in PCs \ {"preflushing", "writing", "preflushed", "inject"}
    BY Zenon DEF Threads, PCs
  <2> QED
    BY <1>6, <2>1, ChainQuiet DEF FireTimer
<1>7. ASSUME NEW t \in Timers, onTimer(t) PROVE SeqInv' /\ RecInv' /\ BufInv'
  <2>1. t \in Threads /\ (IF closing THEN "idle" ELSE "flush") \in PCs \ {"preflushing", "writing", "preflushed", "inject"}
    BY DEF Threads, PCs
  <2> QED
    BY <1>7, <2>1, ChainQuiet DEF onTimer
<1>8. ASSUME NEW t \in Timers, TimerFlush(t) PROVE SeqInv' /\ RecInv' /\ BufInv'
  BY Zenon, <1>8, FlushKeeps DEF TimerFlush, Threads
<1>9. ASSUME NEW c \in Covers, FireCover(c) PROVE SeqInv' /\ RecInv' /\ BufInv'
  <2>1. c \in Threads /\ "onIdle" \in PCs \ {"preflushing", "writing", "preflushed", "inject"}
    BY Zenon DEF Threads, PCs
  <2> QED
    BY <1>9, <2>1, ChainQuiet DEF FireCover
<1>10. ASSUME NEW c \in Covers, onIdle(c) PROVE SeqInv' /\ RecInv' /\ BufInv'
  <2>1. /\ c \in Threads /\ "idle" \in PCs \ {"preflushing", "writing", "preflushed", "inject"}
        /\ "inject" \in PCs \ {"preflushing", "writing"} /\ size \in [Threads -> Nat]
    BY DEF Threads, PCs, TypeOK
  <2>2. UNCHANGED <<recs, writeNext, lo, bufLen, accepted, seq>>
    BY <1>10 DEF onIdle
  <2>3. CASE Goto(c, "idle") /\ UNCHANGED size
    BY Zenon, <2>1, <2>2, <2>3, ChainQuiet
  <2>4. CASE /\ Goto(c, "inject")
             /\ \E n \in CoverMin .. CoverMax : size' = [size EXCEPT ![c] = n]
    <3>1. size'[c] > 0 /\ \A u \in Threads \ {c} : size'[u] = size[u]
      BY <2>1, <2>4, SizesAssumption
    <3>2. SeqInv' /\ RecInv'
      BY <2>1, <2>2, <2>4, SeqQuiet, RecQuiet
    <3>3. \A u \in Threads : pc'[u] \in {"preflushing", "preflushed", "inject"} => size'[u] > 0
      BY Zenon, <2>1, <2>4, <3>1, SizesKept
    <3> QED
      BY <2>2, <3>2, <3>3 DEF BufInv
  <2> QED
    BY Zenon, <1>10, <2>3, <2>4 DEF onIdle
<1>11. ASSUME NEW c \in Covers, injectCoverFrame(c) PROVE SeqInv' /\ RecInv' /\ BufInv'
  <2>1. /\ c \in Threads /\ "idle" \in PCs \ {"preflushing", "writing", "preflushed", "inject"}
        /\ size \in [Threads -> Nat]
    BY Zenon DEF Threads, PCs, TypeOK
  <2>2. size[c] + Header \in Nat /\ size[c] + Header > 0 /\ UNCHANGED writeNext
    BY <1>11, <2>1, SizesAssumption DEF injectCoverFrame, BufInv
  <2>3. CASE Goto(c, "idle") /\ size' = [size EXCEPT ![c] = 0]
             /\ UNCHANGED <<accepted, lo, bufLen, freed, timer, recs, seq>>
    <3>1. \A u \in Threads \ {c} : size'[u] = size[u]
      BY <2>1, <2>3
    <3> QED
      BY <2>1, <2>2, <2>3, <3>1, ChainQuiet
  <2>4. CASE appendFrameLocked(c, size[c] + Header)
    BY Zenon, <2>1, <2>2, <2>4, AppendFrameLockedKeeps
  <2> QED
    BY Zenon, <1>11, <2>3, <2>4 DEF injectCoverFrame
<1>12. ASSUME NEW k \in Closers, CloseBegin(k) PROVE SeqInv' /\ RecInv' /\ BufInv'
  <2>1. k \in Threads /\ "flush" \in PCs \ {"preflushing", "writing", "preflushed", "inject"}
    BY DEF Threads, PCs
  <2> QED
    BY <1>12, <2>1, ChainQuiet DEF CloseBegin
<1>13. ASSUME NEW k \in Closers, CloseFlush(k) PROVE SeqInv' /\ RecInv' /\ BufInv'
  BY Zenon, <1>13, FlushKeeps DEF CloseFlush, Threads
<1>14. ASSUME NEW k \in Closers, CloseSnapshot(k) PROVE SeqInv' /\ RecInv' /\ BufInv'
  <2>1. k \in Threads /\ "drain" \in PCs \ {"preflushing", "writing", "preflushed", "inject"}
    BY Zenon DEF Threads, PCs
  <2> QED
    BY <1>14, <2>1, ChainQuiet DEF CloseSnapshot
<1>15. ASSUME NEW k \in Closers, CloseDrain(k) PROVE SeqInv' /\ RecInv' /\ BufInv'
  <2>1. k \in Threads /\ "free" \in PCs \ {"preflushing", "writing", "preflushed", "inject"}
    BY Zenon DEF Threads, PCs
  <2> QED
    BY <1>15, <2>1, ChainQuiet DEF CloseDrain
<1>16. ASSUME NEW k \in Closers, CloseFree(k) PROVE SeqInv' /\ RecInv' /\ BufInv'
  <2>1. k \in Threads /\ "closed" \in PCs \ {"preflushing", "writing", "preflushed", "inject"}
    BY Zenon DEF Threads, PCs
  <2>2. bufLen = 0 /\ lo = accepted
    BY <1>16 DEF CloseFree, CloseInv, BufInv
  <2>3. UNCHANGED <<recs, writeNext, lo, bufLen, accepted, seq, size>>
    BY Zenon, <1>16, <2>2 DEF CloseFree
  <2> QED
    BY <1>16, <2>1, <2>3, ChainQuiet DEF CloseFree
<1> QED
  BY Zenon, <1>1, <1>2, <1>3, <1>4, <1>5, <1>6, <1>7, <1>8, <1>9, <1>10, <1>11, <1>12, <1>13, <1>14, <1>15, <1>16 DEF Next, Step, PushStep, TimerStep, CoverStep, CloseStep

-----------------------------------------------------------------------------
(* Close.  Before any Close has begun there is nothing to protect; after   *)
(* it, a step of another goroutine must leave buffer and records alone.    *)
LEMMA CloseNotBegun ==
  ASSUME TypeOK, CloseInv, ~closing, NEW t \in Threads \ Closers, NEW l, Goto(t, l),
         UNCHANGED <<closing, writeClosed, pending>>,
         \A u \in Threads : res'[u] # "dropped"
  PROVE  CloseInv'
<1>1. \A k \in Closers : pc[k] = "idle" /\ pc'[k] = "idle"
  BY Zenon DEF CloseInv, Goto, TypeOK, Threads
<1> QED
  BY Zenon, <1>1 DEF CloseInv

LEMMA CloseQuiet ==
  ASSUME TypeOK, CloseInv, NEW t \in Threads \ Closers, NEW l, Goto(t, l),
         UNCHANGED <<closing, writeClosed, pending, recs, writeNext, bufLen>>,
         \A u \in Threads : res'[u] # "dropped"
  PROVE  CloseInv'
<1>1. \A k \in Closers : pc'[k] = pc[k]
  BY DEF Goto, TypeOK, Threads
<1> QED
  BY Zenon, <1>1 DEF CloseInv

LEMMA FlushClose ==
  ASSUME TypeOK, SeqInv, CloseInv, NEW t \in Threads, flush(t), t \in Closers => pc[t] = "flush"
  PROVE  CloseInv'
<1>1. UNCHANGED <<closing, writeClosed, pending, writeNext>> /\ \A u \in Threads : res'[u] # "dropped"
  BY Zenon DEF flush, flagVars, CloseInv
<1>2. CASE bufLen = 0
  <2>1. Goto(t, After(t)) /\ UNCHANGED <<bufLen, recs>>
    BY Zenon, <1>2 DEF flush
  <2>2. \A k \in Closers : pc'[k] = IF k = t THEN "snapshot" ELSE pc[k]
    BY Zenon, <2>1 DEF Goto, After, TypeOK, Threads
  <2> QED
    BY <1>1, <1>2, <2>1, <2>2 DEF CloseInv
<1>3. CASE bufLen # 0
  <2>1. bufLen' = 0 /\ Goto(t, "writing")
    BY Zenon, <1>3 DEF flush, SwapOut
  <2>2. \A k \in Closers : pc[k] \in {"idle", "flush"} /\ pc'[k] = IF k = t THEN "writing" ELSE pc[k]
    BY <1>3, <2>1 DEF Goto, TypeOK, Threads, CloseInv
  <2>3. ~writeClosed
    BY Zenon, <1>3 DEF CloseInv
  <2> QED
    BY <1>1, <2>1, <2>2, <2>3 DEF CloseInv
<1> QED
  BY Zenon, <1>2, <1>3

(* Every step keeps what Close relies on. *)
LEMMA ClosingStep ==
  ASSUME IInv, Next
  PROVE  CloseInv'
<1> USE DEF bufVars, recVars, flagVars, coverVars, locals, IInv
<1>1. ASSUME NEW t \in Threads, writeRecordInOrder(t) PROVE CloseInv'
  <2>1. ~writeClosed
    BY <1>1 DEF writeRecordInOrder, SeqInv, Active, CloseInv, TypeOK
  <2>2. \A u \in Threads : res'[u] # "dropped"
    BY Zenon, <1>1, <2>1 DEF writeRecordInOrder, CloseInv, TypeOK
  <2>3. UNCHANGED <<closing, writeClosed, pending, recs, bufLen>>
    BY <1>1 DEF writeRecordInOrder
  <2>4. \A k \in Closers : pc'[k] = IF k = t THEN "written" ELSE pc[k]
    BY Zenon, <1>1 DEF writeRecordInOrder, Goto, CloseInv, TypeOK, Threads
  <2>5. \A k \in Closers : k = t => pc[k] = "writing"
    BY Zenon, <1>1 DEF writeRecordInOrder, CloseInv
  <2> QED
    BY Zenon, <2>1, <2>2, <2>3, <2>4, <2>5 DEF CloseInv
<1>2. ASSUME NEW t \in Threads, flushAndWriteReturns(t) PROVE CloseInv'
  <2>1. \A u \in Threads : res'[u] # "dropped"
    BY <1>2 DEF flushAndWriteReturns, CloseInv, TypeOK
  <2>2. UNCHANGED <<closing, writeClosed, pending, recs, writeNext, bufLen>>
    BY Zenon, <1>2 DEF flushAndWriteReturns
  <2>3. \A k \in Closers : pc'[k] = IF k = t THEN "snapshot" ELSE pc[k]
    BY <1>2 DEF flushAndWriteReturns, Goto, After, TypeOK, Threads
  <2>4. \A k \in Closers : k = t => pc[k] = "written"
    BY <1>2 DEF flushAndWriteReturns
  <2> QED
    BY Zenon, <2>1, <2>2, <2>3, <2>4 DEF CloseInv
<1>3. ASSUME NEW t \in Threads, Preflushed(t) PROVE CloseInv'
  <2>1. t \notin Closers
    BY Zenon, <1>3 DEF Preflushed, CloseInv
  <2>2. /\ UNCHANGED <<closing, writeClosed, pending, writeNext>>
        /\ \A u \in Threads : res'[u] # "dropped"
    BY <1>3 DEF Preflushed, CloseInv, TypeOK
  <2>3. CASE Goto(t, "idle") /\ UNCHANGED <<accepted, lo, bufLen, freed, timer, recs>>
    BY Zenon, <2>1, <2>2, <2>3, CloseQuiet
  <2>4. CASE ~closing /\ AppendFrame(t, size[t])
    <3>1. Goto(t, "idle") \/ Goto(t, "writing")
      BY Zenon, <2>4 DEF AppendFrame, SwapOut
    <3> QED
      BY <2>1, <2>2, <2>4, <3>1, CloseNotBegun
  <2> QED
    BY Zenon, <1>3, <2>3, <2>4 DEF Preflushed
<1>4. ASSUME NEW p \in Pushers, Push(p) PROVE CloseInv'
  <2>1. PICK n \in Sizes[p] : appendFrameLocked(p, n)
    BY <1>4 DEF Push
  <2>2. p \in Threads \ Closers
    BY Zenon, ThreadsAssumption DEF Threads
  <2>3. /\ ~closing /\ UNCHANGED <<closing, writeClosed, pending>>
        /\ \A u \in Threads : res'[u] # "dropped"
    BY <1>4 DEF Push, CloseInv
  <2>4. Goto(p, "idle") \/ Goto(p, "writing") \/ Goto(p, "preflushing")
    BY Zenon, <2>1 DEF appendFrameLocked, AppendFrame, SwapOut
  <2> QED
    BY Zenon, <2>2, <2>3, <2>4, CloseNotBegun
<1>5. ASSUME NEW p \in Pushers, Flush(p) PROVE CloseInv'
  <2>1. p \in Threads \ Closers
    BY Zenon, ThreadsAssumption DEF Threads
  <2> QED
    BY <1>5, <2>1, FlushClose DEF Flush
<1>6. ASSUME NEW t \in Timers, FireTimer(t) PROVE CloseInv'
  <2>1. t \in Threads \ Closers
    BY Zenon, ThreadsAssumption DEF Threads
  <2>2. \A u \in Threads : res'[u] # "dropped"
    BY Zenon, <1>6 DEF FireTimer, CloseInv
  <2> QED
    BY <1>6, <2>1, <2>2, CloseQuiet DEF FireTimer
<1>7. ASSUME NEW t \in Timers, onTimer(t) PROVE CloseInv'
  <2>1. t \in Threads \ Closers
    BY Zenon, ThreadsAssumption DEF Threads
  <2>2. \A u \in Threads : res'[u] # "dropped"
    BY <1>7 DEF onTimer, CloseInv
  <2> QED
    BY Zenon, <1>7, <2>1, <2>2, CloseQuiet DEF onTimer
<1>8. ASSUME NEW t \in Timers, TimerFlush(t) PROVE CloseInv'
  <2>1. t \in Threads \ Closers
    BY ThreadsAssumption DEF Threads
  <2> QED
    BY Zenon, <1>8, <2>1, FlushClose DEF TimerFlush
<1>9. ASSUME NEW c \in Covers, FireCover(c) PROVE CloseInv'
  <2>1. c \in Threads \ Closers
    BY Zenon, ThreadsAssumption DEF Threads
  <2>2. \A u \in Threads : res'[u] # "dropped"
    BY <1>9 DEF FireCover, CloseInv
  <2> QED
    BY <1>9, <2>1, <2>2, CloseQuiet DEF FireCover
<1>10. ASSUME NEW c \in Covers, onIdle(c) PROVE CloseInv'
  <2>1. c \in Threads \ Closers
    BY Zenon, ThreadsAssumption DEF Threads
  <2>2. \A u \in Threads : res'[u] # "dropped"
    BY <1>10 DEF onIdle, CloseInv
  <2> QED
    BY Zenon, <1>10, <2>1, <2>2, CloseQuiet DEF onIdle
<1>11. ASSUME NEW c \in Covers, injectCoverFrame(c) PROVE CloseInv'
  <2>1. c \in Threads \ Closers
    BY ThreadsAssumption DEF Threads
  <2>2. /\ UNCHANGED <<closing, writeClosed, pending, writeNext>>
        /\ \A u \in Threads : res'[u] # "dropped"
    BY <1>11 DEF injectCoverFrame, CloseInv
  <2>3. CASE Goto(c, "idle") /\ UNCHANGED <<accepted, lo, bufLen, freed, timer, recs, seq>>
    BY Zenon, <2>1, <2>2, <2>3, CloseQuiet
  <2>4. CASE ~closing /\ appendFrameLocked(c, size[c] + Header)
    <3>1. Goto(c, "idle") \/ Goto(c, "writing") \/ Goto(c, "preflushing")
      BY Zenon, <2>4 DEF appendFrameLocked, AppendFrame, SwapOut
    <3> QED
      BY <2>1, <2>2, <2>4, <3>1, CloseNotBegun
  <2> QED
    BY Zenon, <1>11, <2>3, <2>4 DEF injectCoverFrame
<1>12. ASSUME NEW k \in Closers, CloseBegin(k) PROVE CloseInv'
  <2>1. \A j \in Closers : pc'[j] = IF j = k THEN "flush" ELSE pc[j]
    BY <1>12 DEF CloseBegin, Goto, TypeOK, Threads
  <2> QED
    BY Zenon, <1>12, <2>1 DEF CloseBegin, CloseInv
<1>13. ASSUME NEW k \in Closers, CloseFlush(k) PROVE CloseInv'
  BY Zenon, <1>13, FlushClose DEF CloseFlush, Threads
<1>14. ASSUME NEW k \in Closers, CloseSnapshot(k) PROVE CloseInv'
  <2>1. \A j \in Closers : /\ pc'[j] = IF j = k THEN "drain" ELSE pc[j]
                          /\ pending'[j] = IF j = k THEN Len(recs) ELSE pending[j]
    BY Zenon, <1>14 DEF CloseSnapshot, Goto, TypeOK, Threads, writeSeq
  <2> QED
    BY Zenon, <1>14, <2>1 DEF CloseSnapshot, CloseInv
<1>15. ASSUME NEW k \in Closers, CloseDrain(k) PROVE CloseInv'
  <2>1. \A j \in Closers : pc'[j] = IF j = k THEN "free" ELSE pc[j]
    BY Zenon, <1>15 DEF CloseDrain, Goto, TypeOK, Threads
  <2>2. writeNext = Len(recs) /\ closing /\ bufLen = 0
    BY <1>15 DEF CloseDrain, CloseInv, SeqInv, TypeOK
  <2> QED
    BY Zenon, <1>15, <2>1, <2>2 DEF CloseDrain, CloseInv
<1>16. ASSUME NEW k \in Closers, CloseFree(k) PROVE CloseInv'
  <2>1. \A j \in Closers : pc'[j] = IF j = k THEN "closed" ELSE pc[j]
    BY <1>16 DEF CloseFree, Goto, TypeOK, Threads
  <2> QED
    BY Zenon, <1>16, <2>1 DEF CloseFree, CloseInv
<1> QED
  BY Zenon, <1>1, <1>2, <1>3, <1>4, <1>5, <1>6, <1>7, <1>8, <1>9, <1>10, <1>11, <1>12, <1>13, <1>14, <1>15, <1>16 DEF Next, Step, PushStep, TimerStep, CoverStep, CloseStep

(* The inductive invariant holds: the three facts, put together.           *)
THEOREM Invariance == Spec => []IInv
<1>1. Init => IInv
  <2> SUFFICES ASSUME Init PROVE IInv
    BY Zenon
  <2>1. TypeOK
    <3>1. pc \in [Threads -> PCs] /\ res \in [Threads -> {"nil", "err", "dropped"}]
      BY DEF Init, PCs
    <3>2. seq \in [Threads -> Nat] /\ size \in [Threads -> Nat] /\ pending \in [Closers -> Nat]
      BY DEF Init
    <3>3. recs \in Seq(Record) /\ wire \in Seq(Sealed)
      BY DEF Init
    <3>4. /\ accepted \in Nat /\ lo \in Nat /\ bufLen \in Nat /\ writeNext \in Nat
          /\ nonce \in Nat /\ budget \in Nat
          /\ {freed, timer, failed, closing, writeClosed, err, coverTimer} \subseteq BOOLEAN
      BY Zenon DEF Init
    <3> QED
      BY <3>1, <3>2, <3>3, <3>4 DEF TypeOK
  <2>2. SeqInv /\ BufInv /\ RecInv
    BY DEF Init, SeqInv, BufInv, RecInv, Active
  <2>3. CloseInv
    BY DEF Init, CloseInv, Threads
  <2> QED
    BY <2>1, <2>2, <2>3 DEF IInv
<1>2. IInv /\ [Next]_vars => IInv'
  <2> SUFFICES ASSUME IInv, [Next]_vars PROVE IInv'
    OBVIOUS
  <2>1. CASE Next
    BY Zenon, <2>1, TypeStep, ChainStep, ClosingStep DEF IInv
  <2>2. CASE UNCHANGED vars
    <3> USE <2>2 DEF vars, bufVars, recVars, flagVars, coverVars, locals, IInv
    <3>1. TypeOK'
      BY Zenon DEF TypeOK
    <3>2. SeqInv' /\ BufInv' /\ RecInv'
      BY Zenon DEF SeqInv, BufInv, RecInv, Active
    <3>3. CloseInv'
      BY DEF CloseInv
    <3> QED
      BY Zenon, <3>1, <3>2, <3>3
  <2> QED
    BY <2>1, <2>2
<1> QED
  BY <1>1, <1>2, PTL DEF Spec

(* The variables keep their types.                                         *)
THEOREM TypeCorrect == Spec => []TypeOK
  BY Invariance, PTL DEF IInv

(* writeRecordInOrder never throws a record away, however pushes, timer    *)
(* callbacks, cover injection and any number of Close calls interleave.    *)
THEOREM NothingDropped == Spec => []NoRecordDropped
<1>1. IInv => NoRecordDropped
  BY Zenon DEF IInv, CloseInv, NoRecordDropped
<1> QED
  BY <1>1, Invariance, PTL

-----------------------------------------------------------------------------
(* What is on the wire.  As long as no write has failed it holds exactly   *)
(* the records whose turn has come; a failed write leaves a nonce behind   *)
(* that no record bears, and nothing after it is readable.  This half      *)
(* needs records within the ceiling: WriteRecord refuses a longer one      *)
(* without taking a nonce.                                                 *)
ReadablePrefix ==
  \E m \in 0 .. Len(wire) : \A i \in 1 .. Len(wire) : (wire[i].nonce = i - 1) <=> (i <= m)

WireInv ==
  /\ ~failed => /\ nonce = Len(wire) /\ Len(wire) = writeNext
                /\ \A i \in 1 .. Len(wire) : wire[i].nonce = i - 1
  /\ failed => nonce > Len(wire)
  /\ \A i \in 1 .. Len(wire) : wire[i].nonce = i - 1 =>
       /\ i <= Len(recs) /\ wire[i].lo = recs[i].lo /\ wire[i].hi = recs[i].hi
  /\ ReadablePrefix

LEMMA SwapOutGrows ==
  ASSUME TypeOK, NEW t \in Threads, NEW hi, NEW len, NEW next, SwapOut(t, hi, len, next)
  PROVE  Len(recs') = Len(recs) + 1 /\ \A i \in 1 .. Len(recs) : recs'[i] = recs[i]
<1>1. PICK r : recs' = Append(recs, r)
  BY DEF SwapOut
<1>2. recs \in Seq(Record)
  BY Zenon DEF TypeOK
<1> QED
  BY <1>1, <1>2

LEMMA FlushGrows ==
  ASSUME TypeOK, NEW t \in Threads, flush(t)
  PROVE  Len(recs') >= Len(recs) /\ \A i \in 1 .. Len(recs) : recs'[i] = recs[i]
<1>1. Len(recs) \in Nat
  BY DEF TypeOK
<1> QED
  BY <1>1, SwapOutGrows DEF flush

LEMMA AppendGrows ==
  ASSUME TypeOK, NEW t \in Threads, NEW n, appendFrameLocked(t, n) \/ AppendFrame(t, n)
  PROVE  Len(recs') >= Len(recs) /\ \A i \in 1 .. Len(recs) : recs'[i] = recs[i]
<1>1. Len(recs) \in Nat
  BY DEF TypeOK
<1>2. CASE AppendFrame(t, n)
  <2>1. CASE \E hi, len, next : SwapOut(t, hi, len, next)
    BY <1>1, <2>1, SwapOutGrows
  <2>2. CASE UNCHANGED recs
    BY <1>1, <2>2
  <2> QED
    BY Zenon, <1>2, <2>1, <2>2 DEF AppendFrame
<1>3. CASE SwapOut(t, accepted, bufLen, "preflushing")
  <2>1. Len(recs') = Len(recs) + 1 /\ \A i \in 1 .. Len(recs) : recs'[i] = recs[i]
    BY <1>3, SwapOutGrows, Zenon
  <2> QED
    BY <1>1, <2>1
<1>4. CASE UNCHANGED recs
  BY <1>1, <1>4
<1> QED
  BY Zenon, <1>2, <1>3, <1>4 DEF appendFrameLocked

(* Records are only ever added at the end. *)
LEMMA RecordsGrow ==
  ASSUME TypeOK, Next
  PROVE  Len(recs') >= Len(recs) /\ \A i \in 1 .. Len(recs) : recs'[i] = recs[i]
<1> USE DEF bufVars, recVars, flagVars, coverVars, locals
<1>1. ASSUME NEW t \in Threads, writeRecordInOrder(t) PROVE Len(recs') >= Len(recs) /\ \A i \in 1 .. Len(recs) : recs'[i] = recs[i]
  BY <1>1 DEF writeRecordInOrder, TypeOK
<1>2. ASSUME NEW t \in Threads, flushAndWriteReturns(t) PROVE Len(recs') >= Len(recs) /\ \A i \in 1 .. Len(recs) : recs'[i] = recs[i]
  BY <1>2 DEF flushAndWriteReturns, TypeOK
<1>3. ASSUME NEW t \in Threads, Preflushed(t) PROVE Len(recs') >= Len(recs) /\ \A i \in 1 .. Len(recs) : recs'[i] = recs[i]
  <2>1. (\E n : AppendFrame(t, n)) \/ UNCHANGED recs
    BY Zenon, <1>3 DEF Preflushed
  <2> QED
    BY <2>1, AppendGrows DEF TypeOK
<1>4. ASSUME NEW p \in Pushers, Push(p) PROVE Len(recs') >= Len(recs) /\ \A i \in 1 .. Len(recs) : recs'[i] = recs[i]
  <2>1. \E n : appendFrameLocked(p, n)
    BY <1>4 DEF Push
  <2> QED
    BY Zenon, <2>1, AppendGrows DEF Threads
<1>5. ASSUME NEW p \in Pushers, Flush(p) PROVE Len(recs') >= Len(recs) /\ \A i \in 1 .. Len(recs) : recs'[i] = recs[i]
  BY Zenon, <1>5, FlushGrows DEF Flush, Threads
<1>6. ASSUME NEW t \in Timers, FireTimer(t) PROVE Len(recs') >= Len(recs) /\ \A i \in 1 .. Len(recs) : recs'[i] = recs[i]
  BY <1>6 DEF FireTimer, TypeOK
<1>7. ASSUME NEW t \in Timers, onTimer(t) PROVE Len(recs') >= Len(recs) /\ \A i \in 1 .. Len(recs) : recs'[i] = recs[i]
  BY <1>7 DEF onTimer, TypeOK
<1>8. ASSUME NEW t \in Timers, TimerFlush(t) PROVE Len(recs') >= Len(recs) /\ \A i \in 1 .. Len(recs) : recs'[i] = recs[i]
  BY Zenon, <1>8, FlushGrows DEF TimerFlush, Threads
<1>9. ASSUME NEW c \in Covers, FireCover(c) PROVE Len(recs') >= Len(recs) /\ \A i \in 1 .. Len(recs) : recs'[i] = recs[i]
  BY <1>9 DEF FireCover, TypeOK
<1>10. ASSUME NEW c \in Covers, onIdle(c) PROVE Len(recs') >= Len(recs) /\ \A i \in 1 .. Len(recs) : recs'[i] = recs[i]
  BY <1>10 DEF onIdle, TypeOK
<1>11. ASSUME NEW c \in Covers, injectCoverFrame(c) PROVE Len(recs') >= Len(recs) /\ \A i \in 1 .. Len(recs) : recs'[i] = recs[i]
  <2>1. (\E n : appendFrameLocked(c, n)) \/ UNCHANGED recs
    BY Zenon, <1>11 DEF injectCoverFrame
  <2> QED
    BY <2>1, AppendGrows DEF Threads, TypeOK
<1>12. ASSUME NEW k \in Closers, CloseBegin(k) PROVE Len(recs') >= Len(recs) /\ \A i \in 1 .. Len(recs) : recs'[i] = recs[i]
  BY <1>12 DEF CloseBegin, TypeOK
<1>13. ASSUME NEW k \in Closers, CloseFlush(k) PROVE Len(recs') >= Len(recs) /\ \A i \in 1 .. Len(recs) : recs'[i] = recs[i]
  BY Zenon, <1>13, FlushGrows DEF CloseFlush, Threads
<1>14. ASSUME NEW k \in Closers, CloseSnapshot(k) PROVE Len(recs') >= Len(recs) /\ \A i \in 1 .. Len(recs) : recs'[i] = recs[i]
  BY <1>14 DEF CloseSnapshot, TypeOK
<1>15. ASSUME NEW k \in Closers, CloseDrain(k) PROVE Len(recs') >= Len(recs) /\ \A i \in 1 .. Len(recs) : recs'[i] = recs[i]
  BY <1>15 DEF CloseDrain, TypeOK
<1>16. ASSUME NEW k \in Closers, CloseFree(k) PROVE Len(recs') >= Len(recs) /\ \A i \in 1 .. Len(recs) : recs'[i] = recs[i]
  BY <1>16 DEF CloseFree, TypeOK
<1> QED
  BY Zenon, <1>1, <1>2, <1>3, <1>4, <1>5, <1>6, <1>7, <1>8, <1>9, <1>10, <1>11, <1>12, <1>13, <1>14, <1>15, <1>16 DEF Next, Step, PushStep, TimerStep, CoverStep, CloseStep

(* Only writeRecordInOrder touches the wire.                               *)
LEMMA OnlyWritersWrite ==
  ASSUME Next, \A t \in Threads : ~writeRecordInOrder(t)
  PROVE  UNCHANGED <<wire, nonce, failed, writeNext>>
<1> USE DEF recVars, flagVars
<1>1. CASE \E t \in Threads : Step(t)
  BY Zenon, <1>1 DEF Step, flushAndWriteReturns, Preflushed
<1>2. CASE \E p \in Pushers : PushStep(p)
  BY Zenon, <1>2 DEF PushStep, Push, Flush, flush
<1>3. CASE \E t \in Timers : TimerStep(t)
  BY Zenon, <1>3 DEF TimerStep, FireTimer, onTimer, TimerFlush, flush
<1>4. CASE \E c \in Covers : CoverStep(c)
  BY Zenon, <1>4 DEF CoverStep, FireCover, onIdle, injectCoverFrame
<1>5. CASE \E k \in Closers : CloseStep(k)
  BY <1>5 DEF CloseStep, CloseBegin, CloseFlush, flush, CloseSnapshot, CloseDrain, CloseFree
<1> QED
  BY Zenon, <1>1, <1>2, <1>3, <1>4, <1>5 DEF Next

(* The two outcomes of a write: the record is on the wire under the next   *)
(* nonce, or the nonce is gone.                                            *)
LEMMA WriteOutcome ==
  ASSUME IInv, RecordWithinCeiling, NEW t \in Threads, writeRecordInOrder(t)
  PROVE  /\ ~writeClosed /\ writeNext + 1 \in 1 .. Len(recs) /\ writeNext' = writeNext + 1
         /\ UNCHANGED <<recs, lo, accepted, writeClosed>>
         /\ nonce' = nonce + 1
         /\ \/ /\ wire' = Append(wire, [lo |-> recs[writeNext + 1].lo,
                                     hi |-> recs[writeNext + 1].hi, nonce |-> nonce])
               /\ UNCHANGED failed
            \/ failed' = TRUE /\ UNCHANGED wire
<1>1. ~writeClosed /\ writeNext + 1 \in 1 .. Len(recs)
  <2>1. recs \in Seq(Record) /\ writeNext \in Nat /\ writeNext <= seq[t] /\ seq[t] < Len(recs) /\ seq[t] = writeNext
    BY Zenon DEF IInv, TypeOK, SeqInv, Active, writeRecordInOrder
  <2>2. writeNext + 1 \in 1 .. Len(recs) /\ writeNext # Len(recs)
    BY <2>1
  <2> QED
    BY Zenon, <2>2 DEF IInv, CloseInv
<1>2. recs[writeNext + 1].size <= Ceiling
  BY <1>1 DEF RecordWithinCeiling, IInv, TypeOK
<1> QED
  BY Zenon, <1>1, <1>2 DEF writeRecordInOrder, WriteRecord, bufVars, flagVars

LEMMA WireStep ==
  ASSUME IInv, RecordWithinCeiling, WireInv, Next
  PROVE  WireInv'
<1>1. /\ wire \in Seq(Sealed) /\ recs \in Seq(Record) /\ nonce \in Nat /\ writeNext \in Nat
      /\ failed \in BOOLEAN /\ Len(wire) \in Nat /\ Len(recs) \in Nat
  <2>1. /\ wire \in Seq(Sealed) /\ recs \in Seq(Record) /\ nonce \in Nat /\ writeNext \in Nat
        /\ failed \in BOOLEAN
    BY Zenon DEF IInv, TypeOK
  <2> QED
    BY <2>1
<1>2. Len(recs') \in Nat /\ Len(recs') >= Len(recs) /\ \A i \in 1 .. Len(recs) : recs'[i] = recs[i]
  <2>1. TypeOK'
    BY Zenon, TypeStep DEF IInv
  <2>2. recs' \in Seq(Record)
    BY Zenon, <2>1 DEF TypeOK
  <2>3. Len(recs') \in Nat
    BY <2>2
  <2> QED
    BY Zenon, <2>3, RecordsGrow DEF IInv
<1>3. CASE UNCHANGED <<wire, nonce, failed, writeNext>>
  <2>1. ReadablePrefix'
    BY Zenon, <1>3 DEF WireInv, ReadablePrefix
  <2>2. /\ wire' = wire /\ nonce' = nonce /\ failed' = failed /\ writeNext' = writeNext
    BY <1>3
  <2>3. ASSUME NEW i \in 1 .. Len(wire'), wire'[i].nonce = i - 1
        PROVE  i <= Len(recs') /\ wire'[i].lo = recs'[i].lo /\ wire'[i].hi = recs'[i].hi
    <3>1. i \in 1 .. Len(wire) /\ wire[i].nonce = i - 1
      BY <2>2, <2>3
    <3>2. i <= Len(recs) /\ wire[i].lo = recs[i].lo /\ wire[i].hi = recs[i].hi
      BY Zenon, <3>1 DEF WireInv
    <3>3. i \in 1 .. Len(recs) /\ i <= Len(recs')
      BY <1>1, <1>2, <3>1, <3>2
    <3>4. recs'[i] = recs[i]
      BY Zenon, <1>2, <3>3
    <3> QED
      BY Zenon, <2>2, <3>2, <3>3, <3>4
  <2>4. ~failed' => /\ nonce' = Len(wire') /\ Len(wire') = writeNext'
                    /\ \A i \in 1 .. Len(wire') : wire'[i].nonce = i - 1
    BY Zenon, <2>2 DEF WireInv
  <2>5. failed' => nonce' > Len(wire')
    BY Zenon, <2>2 DEF WireInv
  <2> QED
    BY Zenon, <2>1, <2>3, <2>4, <2>5 DEF WireInv
<1>4. ASSUME NEW t \in Threads, writeRecordInOrder(t) PROVE WireInv'
  <2> DEFINE r == [lo |-> recs[writeNext + 1].lo, hi |-> recs[writeNext + 1].hi, nonce |-> nonce]
  <2>1. /\ writeNext + 1 \in 1 .. Len(recs) /\ writeNext' = writeNext + 1 /\ nonce' = nonce + 1
        /\ UNCHANGED recs
        /\ (wire' = Append(wire, r) /\ UNCHANGED failed) \/ (failed' = TRUE /\ UNCHANGED wire)
    BY Zenon, <1>4, WriteOutcome
  <2>2. r.lo = recs[writeNext + 1].lo /\ r.hi = recs[writeNext + 1].hi /\ r.nonce = nonce
    OBVIOUS
  <2> HIDE DEF r
  <2>3. CASE wire' = Append(wire, r) /\ UNCHANGED failed
    <3>1. /\ Len(wire') = Len(wire) + 1 /\ wire'[Len(wire) + 1] = r
          /\ \A i \in 1 .. Len(wire) : wire'[i] = wire[i]
      BY <1>1, <2>3
    <3>2. \A i \in 1 .. Len(wire') :
            (wire'[i].nonce = i - 1) <=> IF i <= Len(wire) THEN wire[i].nonce = i - 1 ELSE ~failed
      <4>1. (nonce = Len(wire)) <=> ~failed
        BY <1>1 DEF WireInv
      <4>2. (wire'[Len(wire) + 1].nonce = Len(wire)) <=> ~failed
        BY Zenon, <2>2, <3>1, <4>1
      <4>3. SUFFICES ASSUME NEW i \in 1 .. Len(wire')
                     PROVE  (wire'[i].nonce = i - 1)
                              <=> IF i <= Len(wire) THEN wire[i].nonce = i - 1 ELSE ~failed
        OBVIOUS
      <4>4. CASE i <= Len(wire)
        BY <1>1, <3>1, <4>4
      <4>5. CASE i = Len(wire) + 1
        BY <1>1, <4>2, <4>5
      <4> QED
        BY <1>1, <3>1, <4>4, <4>5
    <3>3. ReadablePrefix'
      <4>1. PICK m \in 0 .. Len(wire) : \A i \in 1 .. Len(wire) : (wire[i].nonce = i - 1) <=> (i <= m)
        BY DEF WireInv, ReadablePrefix
      <4>2. CASE failed
        <5>1. \A i \in 1 .. Len(wire') : (wire'[i].nonce = i - 1) <=> (i <= m)
          BY <1>1, <3>1, <3>2, <4>1, <4>2
        <5>2. m \in 0 .. Len(wire')
          BY <1>1, <3>1
        <5> QED
          BY Zenon, <5>1, <5>2 DEF ReadablePrefix
      <4>3. CASE ~failed
        <5>1. \A i \in 1 .. Len(wire') : (wire'[i].nonce = i - 1) <=> (i <= Len(wire'))
          BY <1>1, <3>1, <3>2, <4>3 DEF WireInv
        <5>2. Len(wire') \in 0 .. Len(wire')
          BY <1>1, <3>1
        <5> QED
          BY Zenon, <5>1, <5>2 DEF ReadablePrefix
      <4> QED
        BY Zenon, <4>2, <4>3
    <3>4. CASE failed
      BY <1>1, <2>1, <2>2, <2>3, <3>1, <3>3, <3>4 DEF WireInv
    <3>5. CASE ~failed
      BY <1>1, <2>1, <2>2, <2>3, <3>1, <3>3, <3>5 DEF WireInv
    <3> QED
      BY Zenon, <3>4, <3>5
  <2>4. CASE failed' = TRUE /\ UNCHANGED wire
    <3>1. ReadablePrefix'
      BY Zenon, <2>4 DEF WireInv, ReadablePrefix
    <3> QED
      BY <1>1, <2>1, <2>4, <3>1 DEF WireInv
  <2> QED
    BY Zenon, <2>1, <2>3, <2>4
<1> QED
  BY Zenon, <1>3, <1>4, OnlyWritersWrite

LEMMA WireInvariance == Spec /\ []RecordWithinCeiling => []WireInv
<1>1. Init => WireInv
  <2>1. Init => ReadablePrefix
    BY DEF Init, ReadablePrefix
  <2> QED
    BY <2>1 DEF Init, WireInv
<1>2. IInv /\ RecordWithinCeiling /\ WireInv /\ [Next]_vars => WireInv'
  <2>1. ASSUME WireInv, UNCHANGED vars PROVE WireInv'
    <3>1. /\ recs' = recs /\ writeNext' = writeNext /\ wire' = wire
          /\ nonce' = nonce /\ failed' = failed
      BY <2>1 DEF vars, recVars
    <3>2. ReadablePrefix'
      BY <2>1, <3>1, Zenon DEF WireInv, ReadablePrefix
    <3> QED
      BY <2>1, <3>1, <3>2, Zenon DEF WireInv
  <2> QED
    BY <2>1, WireStep
<1> QED
  BY <1>1, <1>2, Invariance, PTL DEF Spec

(* Frames reach the peer in the order they were pushed, whatever the       *)
(* number of goroutines: RecordsInOrder, as long as no record exceeds the  *)
(* ceiling.                                                                *)
THEOREM InOrder == Spec /\ []RecordWithinCeiling => []RecordsInOrder
<1>1. IInv /\ WireInv => RecordsInOrder
  <2> SUFFICES ASSUME IInv, WireInv, NEW i \in DOMAIN wire, wire[i].nonce = i - 1
               PROVE  wire[i].lo = IF i = 1 THEN 0 ELSE wire[i - 1].hi
    BY Zenon DEF RecordsInOrder
  <2>1. i \in 1 .. Len(wire) /\ Len(wire) \in Nat /\ Len(recs) \in Nat
    BY DEF IInv, TypeOK
  <2>2. i <= Len(recs) /\ wire[i].lo = recs[i].lo
    BY Zenon, <2>1 DEF WireInv
  <2>3. CASE i = 1
    BY <2>1, <2>2, <2>3 DEF IInv, RecInv
  <2>4. CASE i # 1
    <3>1. i - 1 \in 1 .. Len(wire) /\ wire[i - 1].nonce = (i - 1) - 1
      BY <2>1, <2>4 DEF WireInv, ReadablePrefix
    <3>2. wire[i - 1].hi = recs[i - 1].hi
      BY <3>1 DEF WireInv
    <3>3. recs[i].lo = recs[i - 1].hi
      BY <2>1, <2>2, <2>4 DEF IInv, RecInv
    <3> QED
      BY Zenon, <2>2, <2>4, <3>2, <3>3
  <2> QED
    BY Zenon, <2>3, <2>4
<1> QED
  BY <1>1, Invariance, WireInvariance, PTL

-----------------------------------------------------------------------------
(* The refinement.  The peer reads up to the greatest readable place.      *)
LEMMA LastReadableIsLast ==
  ASSUME NEW n \in Readable, \A j \in Readable : j <= n
  PROVE  LastReadable \in Readable /\ \A j \in Readable : j <= LastReadable
<1> DEFINE Q(i) == i \in Readable /\ \A j \in Readable : j <= i
<1>1. \E i : Q(i)
  OBVIOUS
<1>2. Q(CHOOSE i : Q(i))
  BY <1>1, Zenon
<1>3. LastReadable = CHOOSE i : Q(i)
  BY Zenon DEF LastReadable
<1> QED
  BY <1>2, <1>3, Zenon

(* Without a failed write everything on the wire counts.  *)
LEMMA DeliveredAll ==
  ASSUME IInv, WireInv, ~failed
  PROVE  /\ Delivered = IF writeNext = 0 THEN 0 ELSE recs[writeNext].hi
         /\ writeNext = Len(wire)
<1>1. wire \in Seq(Sealed) /\ Len(wire) \in Nat /\ writeNext = Len(wire)
  BY Zenon DEF IInv, TypeOK, WireInv
<1>2. Readable = 1 .. Len(wire)
  BY <1>1 DEF Readable, WireInv
<1>3. CASE Len(wire) = 0
  BY <1>1, <1>2, <1>3 DEF Delivered
<1>4. CASE Len(wire) # 0
  <2>1. Len(wire) \in Readable /\ \A j \in Readable : j <= Len(wire)
    BY <1>1, <1>2, <1>4
  <2>2. LastReadable \in Readable /\ \A j \in Readable : j <= LastReadable
    BY <2>1, LastReadableIsLast
  <2>3. LastReadable = Len(wire)
    BY <1>1, <1>2, <2>1, <2>2
  <2>4. wire[Len(wire)].hi = recs[Len(wire)].hi
    BY <1>1, <1>4 DEF WireInv
  <2> QED
    BY <1>1, <1>4, <2>1, <2>3, <2>4 DEF Delivered
<1> QED
  BY <1>1, <1>3, <1>4

DeliveredWritten == Delivered = IF writeNext = 0 THEN 0 ELSE recs[writeNext].hi

LEMMA DeliveredAllNext == IInv' /\ WireInv' /\ ~failed' => DeliveredWritten'
<1>1. IInv /\ WireInv /\ ~failed => DeliveredWritten
  BY Zenon, DeliveredAll DEF DeliveredWritten
<1> QED
  BY <1>1, PTL

(* A record that does not get the nonce of its place changes nothing for   *)
(* the peer.                                                               *)
LEMMA DeliveredSame ==
  ASSUME IInv, WireInv, Readable' = Readable, \A i \in Readable : wire'[i] = wire[i]
  PROVE  Delivered' = Delivered
<1>1. LastReadable' = LastReadable
  BY Zenon DEF LastReadable
<1>2. CASE Readable = {}
  BY Zenon, <1>2 DEF Delivered
<1>3. CASE Readable # {}
  <2>1. wire \in Seq(Sealed) /\ Len(wire) \in Nat
    BY DEF IInv, TypeOK
  <2>2. PICK m \in 0 .. Len(wire) : \A i \in 1 .. Len(wire) : (wire[i].nonce = i - 1) <=> (i <= m)
    BY Zenon DEF WireInv, ReadablePrefix
  <2>3. Readable \subseteq 1 .. Len(wire) /\ \A i \in 1 .. Len(wire) : i \in Readable <=> wire[i].nonce = i - 1
    BY <2>1 DEF Readable
  <2>4. \A i \in 1 .. Len(wire) : i \in Readable <=> i <= m
    BY Zenon, <2>2, <2>3
  <2>5. PICK j \in 1 .. Len(wire) : j \in Readable
    BY Zenon, <1>3, <2>3
  <2>6. m \in 1 .. Len(wire) /\ m <= m
    BY <2>1, <2>2, <2>4, <2>5
  <2>7. m \in Readable /\ \A i \in Readable : i <= m
    BY Zenon, <2>3, <2>4, <2>6
  <2>8. LastReadable \in Readable
    BY <2>7, LastReadableIsLast
  <2>9. Delivered = wire[LastReadable].hi /\ Delivered' = wire'[LastReadable].hi
    BY <1>1, <1>3 DEF Delivered
  <2> QED
    BY Zenon, <2>8, <2>9
<1> QED
  BY Zenon, <1>2, <1>3

(* Every step is a step of the pipe, or leaves it as it is.                *)
LEMMA PipeStep ==
  ASSUME IInv, RecordWithinCeiling, WireInv, Next
  PROVE  [Pipe!PipeNext]_(Pipe!pipeVars)
<1>1. /\ wire \in Seq(Sealed) /\ Len(wire) \in Nat /\ recs \in Seq(Record) /\ Len(recs) \in Nat
      /\ nonce \in Nat /\ writeNext \in Nat /\ accepted \in Nat /\ lo \in Nat
      /\ failed \in BOOLEAN /\ writeClosed \in BOOLEAN /\ lo <= accepted /\ writeNext <= Len(recs)
  BY DEF IInv, TypeOK, BufInv, SeqInv
<1>2. ASSUME UNCHANGED wire PROVE Delivered' = Delivered
  BY <1>2 DEF Delivered, LastReadable, Readable
<1>3. ASSUME NEW t \in Threads, writeRecordInOrder(t) PROVE [Pipe!PipeNext]_(Pipe!pipeVars)
  <2> DEFINE r == [lo |-> recs[writeNext + 1].lo, hi |-> recs[writeNext + 1].hi, nonce |-> nonce]
  <2>1. /\ ~writeClosed /\ writeNext + 1 \in 1 .. Len(recs) /\ writeNext' = writeNext + 1
        /\ UNCHANGED <<recs, lo, accepted, writeClosed>>
        /\ (wire' = Append(wire, r) /\ UNCHANGED failed) \/ (failed' = TRUE /\ UNCHANGED wire)
    BY Zenon, <1>3, WriteOutcome
  <2>2. r.nonce = nonce
    OBVIOUS
  <2> HIDE DEF r
  <2>3. CASE failed' = TRUE /\ UNCHANGED wire
    BY <1>2, <2>1, <2>3 DEF Pipe!PipeNext, Pipe!Break
  <2>4. CASE wire' = Append(wire, r) /\ UNCHANGED failed /\ failed
    <3>1. /\ Len(wire') = Len(wire) + 1 /\ wire'[Len(wire) + 1] = r
          /\ \A i \in 1 .. Len(wire) : wire'[i] = wire[i]
          /\ DOMAIN wire' = 1 .. (Len(wire) + 1) /\ DOMAIN wire = 1 .. Len(wire)
      BY <1>1, <2>4
    <3>2. nonce > Len(wire)
      BY Zenon, <2>4 DEF WireInv
    <3>3. Readable' = Readable /\ \A i \in Readable : wire'[i] = wire[i]
      BY <1>1, <2>2, <3>1, <3>2 DEF Readable
    <3>4. Delivered' = Delivered
      BY <3>3, DeliveredSame
    <3> QED
      BY <2>1, <2>4, <3>4 DEF Pipe!pipeVars
  <2>5. CASE wire' = Append(wire, r) /\ UNCHANGED failed /\ ~failed
    <3>1. Delivered = IF writeNext = 0 THEN 0 ELSE recs[writeNext].hi
      BY <2>5, DeliveredAll
    <3>2. Delivered' = recs[writeNext + 1].hi
      <4>1. IInv' /\ WireInv' /\ ~failed'
        BY Zenon, <2>5, WireStep, TypeStep, ChainStep, ClosingStep DEF IInv
      <4>2. Delivered' = IF writeNext' = 0 THEN 0 ELSE recs'[writeNext'].hi
        BY <4>1, DeliveredAllNext DEF DeliveredWritten
      <4> QED
        BY <1>1, <2>1, <4>2
    <3>3. recs[writeNext + 1] \in Record
      BY <1>1, <2>1
    <3>4. /\ recs[writeNext + 1].hi \in Nat /\ recs[writeNext + 1].hi <= accepted
          /\ recs[writeNext + 1].lo <= recs[writeNext + 1].hi
          /\ recs[writeNext + 1].lo = Delivered /\ recs[writeNext + 1].lo \in Nat
      <4>1. recs[writeNext + 1].hi \in Nat /\ recs[writeNext + 1].lo \in Nat
        BY <3>3 DEF Record
      <4>2. /\ recs[writeNext + 1].lo <= recs[writeNext + 1].hi /\ recs[writeNext + 1].hi <= lo
            /\ recs[writeNext + 1].lo = IF writeNext + 1 = 1 THEN 0 ELSE recs[(writeNext + 1) - 1].hi
        BY Zenon, <2>1 DEF IInv, RecInv
      <4>3. (writeNext + 1) - 1 = writeNext /\ (writeNext + 1 = 1 <=> writeNext = 0)
        BY <1>1
      <4> QED
        BY <1>1, <3>1, <4>1, <4>2, <4>3
    <3>5. Delivered' \in Delivered .. accepted
      BY <1>1, <3>2, <3>4
    <3> QED
      BY <2>1, <2>5, <3>5 DEF Pipe!PipeNext, Pipe!Deliver
  <2> QED
    BY Zenon, <2>1, <2>3, <2>4, <2>5
<1>4. ASSUME NEW k \in Closers, CloseDrain(k) PROVE [Pipe!PipeNext]_(Pipe!pipeVars)
  <2>1. UNCHANGED <<wire, failed, accepted>> /\ writeClosed' = TRUE
    BY <1>4 DEF CloseDrain, recVars, bufVars
  <2>2. writeNext = Len(recs) /\ lo = accepted
    BY <1>4 DEF CloseDrain, IInv, CloseInv, SeqInv, BufInv, TypeOK
  <2>3. failed \/ Delivered = accepted
    BY <1>1, <2>2, DeliveredAll DEF IInv, RecInv
  <2> QED
    BY <1>2, <2>1, <2>3 DEF Pipe!PipeNext, Pipe!Shut
<1>5. ASSUME UNCHANGED <<wire, failed, writeClosed>>,
             UNCHANGED accepted \/ (~closing /\ accepted' = accepted + 1)
      PROVE  [Pipe!PipeNext]_(Pipe!pipeVars)
  <2>1. ~closing => ~writeClosed
    BY DEF IInv, CloseInv
  <2> QED
    BY Zenon, <1>2, <1>5, <2>1 DEF Pipe!PipeNext, Pipe!Accept, Pipe!pipeVars
<1> USE DEF bufVars, recVars, flagVars, coverVars, locals
<1>6. ASSUME NEW t \in Threads, flushAndWriteReturns(t) \/ Preflushed(t)
      PROVE  [Pipe!PipeNext]_(Pipe!pipeVars)
  BY <1>5, <1>6 DEF flushAndWriteReturns, Preflushed, AppendFrame
<1>7. ASSUME NEW p \in Pushers, PushStep(p) PROVE [Pipe!PipeNext]_(Pipe!pipeVars)
  BY Zenon, <1>5, <1>7 DEF PushStep, Push, appendFrameLocked, AppendFrame, Flush, flush
<1>8. ASSUME NEW t \in Timers, TimerStep(t) PROVE [Pipe!PipeNext]_(Pipe!pipeVars)
  <2>1. CASE FireTimer(t)
    BY Zenon, <1>5, <2>1 DEF FireTimer
  <2>2. CASE onTimer(t)
    BY Zenon, <1>5, <2>2 DEF onTimer
  <2>3. CASE TimerFlush(t)
    BY Zenon, <1>5, <2>3 DEF TimerFlush, flush
  <2> QED
    BY Zenon, <1>8, <2>1, <2>2, <2>3 DEF TimerStep
<1>9. ASSUME NEW c \in Covers, CoverStep(c) PROVE [Pipe!PipeNext]_(Pipe!pipeVars)
  <2>1. CASE FireCover(c)
    BY <1>5, <2>1 DEF FireCover
  <2>2. CASE onIdle(c)
    <3>1. UNCHANGED <<bufVars, wire, failed, writeClosed>>
      BY <2>2 DEF onIdle
    <3> QED  BY Zenon, <1>5, <3>1
  <2>3. CASE injectCoverFrame(c)
    <3>1. UNCHANGED <<wire, failed, writeClosed>>
      BY Zenon, <2>3 DEF injectCoverFrame
    <3>2. UNCHANGED accepted \/ (~closing /\ accepted' = accepted + 1)
      BY Zenon, <2>3 DEF injectCoverFrame, appendFrameLocked, AppendFrame
    <3> QED  BY Zenon, <1>5, <3>1, <3>2
  <2> QED
    BY <1>9, <2>1, <2>2, <2>3 DEF CoverStep
<1>10. ASSUME NEW k \in Closers, CloseStep(k), ~CloseDrain(k) PROVE [Pipe!PipeNext]_(Pipe!pipeVars)
  BY <1>5, <1>10 DEF CloseStep, CloseBegin, CloseFlush, flush, CloseSnapshot, CloseFree
<1> QED
  BY Zenon, <1>3, <1>4, <1>6, <1>7, <1>8, <1>9, <1>10 DEF Next, Step

(* The shaper implements the pipe: ImplementsPipe, as long as no record    *)
(* exceeds the ceiling.                                                    *)
THEOREM Refinement == Spec /\ []RecordWithinCeiling => ImplementsPipe
<1>1. Init => Pipe!PipeInit
  BY DEF Init, Pipe!PipeInit, Delivered, Readable
<1>2. IInv /\ RecordWithinCeiling /\ WireInv /\ [Next]_vars => [Pipe!PipeNext]_(Pipe!pipeVars)
  <2>1. ASSUME UNCHANGED vars PROVE UNCHANGED Pipe!pipeVars
    BY <2>1 DEF vars, bufVars, recVars, flagVars, Pipe!pipeVars, Delivered, LastReadable, Readable
  <2> QED
    BY <2>1, PipeStep
<1> QED
  BY <1>1, <1>2, Invariance, WireInvariance, PTL DEF Spec, ImplementsPipe, Pipe!PipeSpec

-----------------------------------------------------------------------------
(* The ceiling.  appendFrameLocked does not look at the length again after *)
(* a pre-flush, so a record stays below the ceiling only when the streams  *)
(* are used as the code uses them: one goroutine pushes (UDPExchange.Send  *)
(* and its FIN hold ue.mu, the relay has one copying goroutine per         *)
(* direction), idle callbacks do not overlap, a cover frame fits above the *)
(* threshold, and a frame leaves room for all that the cover budget buys:  *)
(* k bytes of payload cost at most k * (CoverMin + Header) / CoverMin.     *)
LoneWriter ==
  /\ \A p, q \in Pushers : p = q
  /\ \A c, d \in Covers : c = d
  /\ Threshold - 1 + CoverMax + Header <= Ceiling
  /\ \A p \in Pushers : \A n \in Sizes[p] :
       n <= Ceiling => n * CoverMin + (CoverMin + Header) * (BudgetCap + CoverMax) <= Ceiling * CoverMin

(* A thread between its pre-flush and its append; a cover frame that was   *)
(* paid for and is not in the buffer yet, and its payload.                 *)
Holding(t) == pc[t] \in {"preflushing", "preflushed"}
Owes(c) == Holding(c) \/ pc[c] = "inject"
Owed(c) == IF pc[c] = "inject" THEN size[c] ELSE size[c] - Header

(* What is in the buffer, what is owed and what the budget still buys are  *)
(* together within the cap.                                                *)
RoomFor(len, money, due) ==
  RatioDen * CoverMin * len + (CoverMin + Header) * (money + RatioDen * due)
    <= (CoverMin + Header) * (RatioDen * (BudgetCap + CoverMax))
Room == \E due \in 0 .. CoverMax :
  RoomFor(bufLen, budget, due) /\ \A c \in Covers : Owes(c) => Owed(c) <= due

CeilInv ==
  /\ RecordWithinCeiling
  /\ bufLen < Threshold
  /\ budget <= BudgetCap * RatioDen
  /\ \A t \in Threads : /\ Holding(t) => t \in Pushers \cup Covers
                        /\ pc[t] = "inject" => t \in Covers
  /\ \A c \in Covers : Owes(c) => Owed(c) \in CoverMin .. CoverMax
  /\ \A p \in Pushers : Holding(p) => size[p] \in Sizes[p] /\ size[p] <= Ceiling /\ Room

-----------------------------------------------------------------------------
(* The arithmetic of the budget.                                           *)
LEMMA TimesMonotone ==
  ASSUME NEW k \in Nat, NEW x \in Nat, NEW y \in Nat, x <= y
  PROVE  k * x <= k * y /\ k * x \in Nat /\ k * y \in Nat
<1>1. k * y = k * x + k * (y - x) /\ k * (y - x) \in Nat /\ k * x \in Nat
  BY SMT
<1> DEFINE a == k * y  b == k * x  c == k * (y - x)
<1>2. a = b + c /\ b \in Nat /\ c \in Nat
  BY <1>1
<1> HIDE DEF a, b, c
<1>3. b <= a /\ b \in Nat /\ a \in Nat
  BY <1>2
<1> QED
  BY <1>3 DEF a, b

LEMMA RoomAtFirst ==
  ASSUME NEW money \in Nat, money <= BudgetCap * RatioDen, NEW due \in 0 .. CoverMax
  PROVE  RoomFor(0, money, due)
<1>1. /\ RatioDen \in Nat /\ CoverMin \in Nat /\ Header \in Nat /\ BudgetCap \in Nat /\ CoverMax \in Nat
      /\ CoverMin + Header \in Nat /\ due \in Nat
  BY SizesAssumption
<1>2. ASSUME NEW r \in Nat, NEW b \in Nat, NEW m \in Nat, NEW d \in Nat, d <= m
      PROVE  b * r + r * d <= r * (b + m) /\ r * d \in Nat /\ r * (b + m) \in Nat
  <2>1. r * (b + m) = b * r + r * d + r * (m - d) /\ r * (m - d) \in Nat /\ b * r \in Nat /\ r * d \in Nat
    BY <1>2, SMT
  <2> DEFINE x == r * (b + m)  y == b * r  z == r * d  w == r * (m - d)
  <2>2. x = y + z + w /\ y \in Nat /\ z \in Nat /\ w \in Nat
    BY <2>1
  <2> HIDE DEF x, y, z, w
  <2>3. y + z <= x /\ z \in Nat /\ x \in Nat
    BY <2>2
  <2> QED
    BY <2>3 DEF x, y, z, w
<1>4. money + RatioDen * due <= RatioDen * (BudgetCap + CoverMax) /\ money + RatioDen * due \in Nat
      /\ RatioDen * (BudgetCap + CoverMax) \in Nat
  <2> DEFINE x == RatioDen * (BudgetCap + CoverMax)  y == RatioDen * due  z == BudgetCap * RatioDen
  <2>1. z + y <= x /\ y \in Nat /\ x \in Nat /\ money <= z
    BY <1>1, <1>2
  <2>2. z \in Nat
    BY <1>1, ProductNat
  <2> HIDE DEF x, y, z
  <2>3. money + y <= x /\ money + y \in Nat /\ x \in Nat
    BY <2>1, <2>2
  <2> QED
    BY <2>3 DEF x, y
<1>5. (CoverMin + Header) * (money + RatioDen * due) <= (CoverMin + Header) * (RatioDen * (BudgetCap + CoverMax))
  BY <1>1, <1>4, TimesMonotone
<1>6. (RatioDen * CoverMin) * 0 = 0 /\ RatioDen * CoverMin \in Nat
  BY <1>1, ProductNat
<1>7. (CoverMin + Header) * (money + RatioDen * due) \in Nat
  BY <1>1, <1>4, ProductNat
<1> DEFINE X == (CoverMin + Header) * (money + RatioDen * due)
           Y == (CoverMin + Header) * (RatioDen * (BudgetCap + CoverMax))
<1>8. RoomFor(0, money, due) <=> (RatioDen * CoverMin) * 0 + X <= Y
  BY DEF RoomFor
<1> HIDE DEF X
<1>9. 0 + X <= Y /\ X \in Nat
  BY <1>5, <1>7 DEF X
<1> QED
  BY <1>6, <1>8, <1>9

(* Room stays when the buffer is swapped out or the budget shrinks.        *)
LEMMA RoomShrinks ==
  ASSUME NEW len \in Nat, NEW len2 \in {len, 0}, NEW money \in Nat, NEW money2 \in Nat,
         money2 <= money, NEW due \in Nat, RoomFor(len, money, due)
  PROVE  RoomFor(len2, money2, due)
<1>2. RatioDen * CoverMin \in Nat /\ CoverMin + Header \in Nat /\ RatioDen * due \in Nat
  BY SizesAssumption, ProductNat
<1> DEFINE R == RatioDen * CoverMin  K == CoverMin + Header  D == RatioDen * due
           Y == (CoverMin + Header) * (RatioDen * (BudgetCap + CoverMax))
<1>3. RoomFor(len, money, due) <=> R * len + K * (money + D) <= Y
  BY DEF RoomFor
<1>4. RoomFor(len2, money2, due) <=> R * len2 + K * (money2 + D) <= Y
  BY DEF RoomFor
<1>5. R \in Nat /\ K \in Nat /\ D \in Nat
  BY <1>2
<1>6. Y \in Nat
  BY SizesAssumption, ProductNat
<1> HIDE DEF R, K, D, Y
<1>7. R * len2 <= R * len /\ R * len2 \in Nat /\ R * len \in Nat
  BY <1>5, TimesMonotone
<1>8. K * (money2 + D) <= K * (money + D) /\ K * (money2 + D) \in Nat /\ K * (money + D) \in Nat
  BY <1>5, TimesMonotone
<1> DEFINE a == R * len  b == R * len2  c == K * (money + D)  d == K * (money2 + D)
<1>9. a + c <= Y /\ b <= a /\ d <= c /\ a \in Nat /\ b \in Nat /\ c \in Nat /\ d \in Nat
  BY <1>3, <1>7, <1>8
<1> HIDE DEF a, b, c, d
<1>10. b + d <= Y
  BY <1>6, <1>9
<1> QED
  BY <1>4, <1>10 DEF b, d

(* A frame that is owed takes, header included, no more than what was set  *)
(* aside for it.                                                           *)
LEMMA RoomTaken ==
  ASSUME NEW len \in Nat, NEW money \in Nat, NEW due \in Nat, NEW n \in Nat,
         CoverMin <= n, n <= due, RoomFor(len, money, due)
  PROVE  RoomFor(len + (n + Header), money, 0)
<1>1. RatioDen \in Nat /\ CoverMin \in Nat /\ Header \in Nat
  BY Zenon, SizesAssumption
<1>2. ASSUME NEW r \in Nat, NEW c \in Nat, NEW h \in Nat, NEW l \in Nat, NEW m \in Nat,
             NEW d \in Nat, NEW x \in Nat, c <= x, x <= d
      PROVE  r * c * (l + (x + h)) + (c + h) * (m + r * 0) <= r * c * l + (c + h) * (m + r * d)
  <2>1. r * c * (l + (x + h)) = r * c * l + r * c * x + r * c * h
    BY SMT
  <2>2. (c + h) * (m + r * d) = (c + h) * m + r * c * d + r * h * d
    BY SMT
  <2>3. (c + h) * (m + r * 0) = (c + h) * m
    BY SMT
  <2>4. r * c * d = r * c * x + r * c * (d - x) /\ r * c * (d - x) \in Nat
    BY <1>2, SMT
  <2>5. r * h * d = r * c * h + r * h * (d - c) /\ r * h * (d - c) \in Nat
    BY <1>2, SMT
  <2>6. r * c * l \in Nat /\ r * c * x \in Nat /\ r * c * h \in Nat /\ (c + h) * m \in Nat
    BY SMT
  <2> DEFINE a1 == r * c * (l + (x + h))  a2 == (c + h) * (m + r * 0)
             a3 == (c + h) * (m + r * d)  b1 == r * c * l  b2 == r * c * x  b3 == r * c * h
             b4 == (c + h) * m  b5 == r * c * d  b6 == r * h * d
             b7 == r * c * (d - x)  b8 == r * h * (d - c)
  <2>7. /\ a1 = b1 + b2 + b3 /\ a3 = b4 + b5 + b6 /\ a2 = b4 /\ b5 = b2 + b7 /\ b6 = b3 + b8
        /\ b7 \in Nat /\ b8 \in Nat /\ b1 \in Nat /\ b2 \in Nat /\ b3 \in Nat /\ b4 \in Nat
    BY Zenon, <2>1, <2>2, <2>3, <2>4, <2>5, <2>6
  <2> HIDE DEF a1, a2, a3, b1, b2, b3, b4, b5, b6, b7, b8
  <2>8. a1 + a2 <= b1 + a3
    BY <2>7
  <2> QED
    BY <2>8 DEF a1, a2, a3, b1
<1>3. RatioDen * CoverMin * (len + (n + Header)) + (CoverMin + Header) * (money + RatioDen * 0)
        <= RatioDen * CoverMin * len + (CoverMin + Header) * (money + RatioDen * due)
  BY Zenon, <1>1, <1>2
<1>4. /\ RatioDen * CoverMin * (len + (n + Header)) \in Nat
      /\ (CoverMin + Header) * (money + RatioDen * 0) \in Nat
      /\ RatioDen * CoverMin * len \in Nat /\ (CoverMin + Header) * (money + RatioDen * due) \in Nat
      /\ (CoverMin + Header) * (RatioDen * (BudgetCap + CoverMax)) \in Nat
  BY SizesAssumption, ProductNat
<1> DEFINE a == RatioDen * CoverMin * (len + (n + Header))
           b == (CoverMin + Header) * (money + RatioDen * 0)
           c == RatioDen * CoverMin * len
           d == (CoverMin + Header) * (money + RatioDen * due)
           y == (CoverMin + Header) * (RatioDen * (BudgetCap + CoverMax))
<1>5. a + b <= c + d /\ c + d <= y
  BY Zenon, <1>3 DEF RoomFor
<1>6. a \in Nat /\ b \in Nat /\ c \in Nat /\ d \in Nat /\ y \in Nat
  BY Zenon, <1>4
<1>7. RoomFor(len + (n + Header), money, 0) <=> a + b <= y
  BY Zenon DEF RoomFor
<1> HIDE DEF a, b, c, d, y
<1> QED
  BY <1>5, <1>6, <1>7

(* While there is room, a frame of the pusher fits.                        *)
LEMMA RoomSuffices ==
  ASSUME NEW len \in Nat, NEW money \in Nat, NEW due \in Nat, NEW n \in Nat, RoomFor(len, money, due),
         n * CoverMin + (CoverMin + Header) * (BudgetCap + CoverMax) <= Ceiling * CoverMin
  PROVE  len + n <= Ceiling
<1>1. /\ RatioDen \in Nat \ {0} /\ CoverMin \in Nat \ {0} /\ Header \in Nat
      /\ CoverMin + Header \in Nat /\ BudgetCap + CoverMax \in Nat /\ Ceiling \in Nat
  BY SizesAssumption
<1>2. RatioDen * CoverMin * len <= (CoverMin + Header) * (RatioDen * (BudgetCap + CoverMax))
  <2> DEFINE a == RatioDen * CoverMin * len  b == (CoverMin + Header) * (money + RatioDen * due)
             y == (CoverMin + Header) * (RatioDen * (BudgetCap + CoverMax))
  <2>1. a \in Nat /\ b \in Nat /\ y \in Nat
    BY <1>1, ProductNat
  <2>2. a + b <= y
    BY DEF RoomFor
  <2> HIDE DEF a, b, y
  <2>3. a <= y
    BY <2>1, <2>2
  <2> QED
    BY Zenon, <2>3 DEF a, y
<1>3. ASSUME NEW r \in Nat \ {0}, NEW c \in Nat \ {0}, NEW l \in Nat, NEW k \in Nat, NEW s \in Nat,
             NEW m \in Nat, NEW t \in Nat,
             r * c * l <= k * (r * s), m * c + k * s <= t * c, l + m > t
      PROVE  FALSE
  <2>1. k * (r * s) = r * (k * s) /\ k * s \in Nat /\ r * c * l = r * (c * l) /\ c * l \in Nat
    BY SMT
  <2>2. c * l <= k * s
    <3>1. ASSUME NEW u \in Nat, NEW v \in Nat, r * u <= r * v PROVE u <= v
      <4>1. SUFFICES ASSUME v + 1 <= u PROVE FALSE
        OBVIOUS
      <4>2. r * u = r * v + r + r * (u - v - 1) /\ r * (u - v - 1) \in Nat /\ r * v \in Nat
        BY <4>1, SMT
      <4> DEFINE a == r * u  b == r * v  d == r * (u - v - 1)
      <4>3. a = b + r + d /\ a <= b /\ b \in Nat /\ d \in Nat
        BY <3>1, <4>2
      <4> HIDE DEF a, b, d
      <4> QED
        BY <4>3
    <3> QED
      BY Zenon, <1>3, <2>1, <3>1
  <2>3. m * c + c * l = c * (l + m) /\ t * c = c * t /\ m * c \in Nat
    BY SMT
  <2>4. c * (l + m) = c * t + c + c * (l + m - t - 1) /\ c * (l + m - t - 1) \in Nat /\ c * t \in Nat
    BY <1>3, SMT
  <2> DEFINE a1 == k * s  a2 == c * l  a3 == m * c  a4 == t * c  a5 == c * (l + m)
             a6 == c * (l + m - t - 1)  a7 == c * t
  <2>5. /\ a2 <= a1 /\ a3 + a1 <= a4 /\ a3 + a2 = a5 /\ a4 = a7 /\ a5 = a7 + c + a6
        /\ a1 \in Nat /\ a2 \in Nat /\ a3 \in Nat /\ a6 \in Nat /\ a7 \in Nat
    BY <1>3, <2>1, <2>2, <2>3, <2>4
  <2> HIDE DEF a1, a2, a3, a4, a5, a6, a7
  <2> QED
    BY <2>5
<1> QED
  BY <1>1, <1>2, <1>3

-----------------------------------------------------------------------------
(* Steps.  A thread that swaps out no more than the ceiling, moves on and  *)
(* takes nothing upon itself leaves the ceiling invariant as it was.       *)
LEMMA CeilQuiet ==
  ASSUME TypeOK, CeilInv, NEW t \in Threads, NEW l \in PCs, Goto(t, l),
         RecordWithinCeiling', bufLen' \in {bufLen, 0}, budget' \in Nat, budget' <= budget,
         \A u \in Threads \ {t} : size'[u] = size[u],
         l \notin {"inject", "preflushing"},
         l = "preflushed" => pc[t] = "preflushing" /\ size'[t] = size[t]
  PROVE  CeilInv'
<1>1. /\ bufLen \in Nat /\ budget \in Nat /\ Threshold \in Nat \ {0}
      /\ pc \in [Threads -> PCs] /\ CoverMax \in Nat /\ BudgetCap * RatioDen \in Nat
  BY SizesAssumption, ProductNat DEF TypeOK
<1>2. /\ \A u \in Threads : u # t => pc'[u] = pc[u] /\ size'[u] = size[u]
      /\ pc'[t] = l
  BY Zenon, <1>1 DEF Goto
<1>3. bufLen' < Threshold
  BY <1>1 DEF CeilInv
<1>4. budget' <= BudgetCap * RatioDen
  <2> DEFINE x == BudgetCap * RatioDen
  <2>1. budget <= x /\ x \in Nat
    BY Zenon, <1>1 DEF CeilInv
  <2> HIDE DEF x
  <2>2. budget' <= x
    BY <1>1, <2>1
  <2> QED
    BY Zenon, <2>2 DEF x
<1>5. ASSUME NEW u \in Threads
      PROVE  /\ Holding(u)' => Holding(u) /\ size'[u] = size[u]
             /\ pc'[u] = "inject" => pc[u] = "inject" /\ size'[u] = size[u]
  BY Zenon, <1>2 DEF Holding
<1>6. ASSUME NEW c \in Covers, Owes(c)' PROVE Owes(c) /\ Owed(c)' = Owed(c)
  <2>1. c \in Threads
    BY Zenon DEF Threads
  <2>2. CASE pc'[c] = "inject"
    BY Zenon, <1>5, <2>1, <2>2 DEF Owes, Owed
  <2>3. CASE pc'[c] # "inject"
    BY Zenon, <1>5, <1>6, <2>1, <2>3 DEF Owes, Owed, Holding
  <2> QED
    BY Zenon, <2>2, <2>3
<1>7. ASSUME Room PROVE Room'
  <2>1. PICK due \in 0 .. CoverMax :
          RoomFor(bufLen, budget, due) /\ \A c \in Covers : Owes(c) => Owed(c) <= due
    BY Zenon, <1>7 DEF Room
  <2>2. RoomFor(bufLen', budget', due)
    BY <1>1, <2>1, RoomShrinks
  <2>3. \A c \in Covers : Owes(c)' => Owed(c)' <= due
    BY Zenon, <1>6, <2>1
  <2> QED
    BY Zenon, <2>2, <2>3 DEF Room, RoomFor
<1>8. Pushers \subseteq Threads /\ Covers \subseteq Threads
  BY Zenon DEF Threads
<1>9. \A u \in Threads : /\ Holding(u)' => u \in Pushers \cup Covers
                         /\ pc'[u] = "inject" => u \in Covers
  BY Zenon, <1>5 DEF CeilInv
<1>10. \A c \in Covers : Owes(c)' => Owed(c)' \in CoverMin .. CoverMax
  BY <1>6 DEF CeilInv
<1>11. \A p \in Pushers : Holding(p)' => size'[p] \in Sizes[p] /\ size'[p] <= Ceiling /\ Room'
  BY Zenon, <1>5, <1>7, <1>8 DEF CeilInv
<1> QED
  BY Zenon, <1>3, <1>4, <1>9, <1>10, <1>11 DEF CeilInv

(* A swap that fits is a record that fits: padding stays within the rest.  *)
LEMMA SwapFits ==
  ASSUME TypeOK, RecordWithinCeiling, NEW t \in Threads, NEW hi \in Nat, NEW len \in Nat,
         len <= Ceiling, NEW next, SwapOut(t, hi, len, next)
  PROVE  RecordWithinCeiling' /\ bufLen' = 0 /\ Goto(t, next)
<1>1. PICK pad \in {0} \cup {n \in PadSizes : len + n <= Ceiling} :
         recs' = Append(recs, [lo |-> lo, hi |-> hi, size |-> len + pad])
  BY Zenon DEF SwapOut
<1> DEFINE r == [lo |-> lo, hi |-> hi, size |-> len + pad]
<1>2. r.size <= Ceiling /\ recs \in Seq(Record) /\ r \in Record
  BY SizesAssumption DEF TypeOK, Record
<1> HIDE DEF r
<1>3. recs' = Append(recs, r)
  BY Zenon, <1>1 DEF r
<1>4. \A i \in DOMAIN recs' : recs'[i] = IF i \in DOMAIN recs THEN recs[i] ELSE r
  BY <1>2, <1>3
<1>5. RecordWithinCeiling'
  BY <1>2, <1>4 DEF RecordWithinCeiling
<1> QED
  BY <1>5 DEF SwapOut

(* An append that fits leaves a buffer below the threshold.                *)
LEMMA AppendFits ==
  ASSUME TypeOK, RecordWithinCeiling, NEW t \in Threads, NEW n \in Nat,
         bufLen + n <= Ceiling, AppendFrame(t, n)
  PROVE  /\ RecordWithinCeiling' /\ bufLen' < Threshold /\ bufLen' \in {0, bufLen + n}
         /\ Goto(t, "idle") \/ Goto(t, "writing")
<1>1. bufLen + n \in Nat /\ accepted + 1 \in Nat /\ Threshold \in Nat \ {0}
  BY SizesAssumption DEF TypeOK
<1>2. CASE bufLen + n >= Threshold
  <2>1. SwapOut(t, accepted + 1, bufLen + n, "writing")
    BY Zenon, <1>2 DEF AppendFrame
  <2> QED
    BY <1>1, <2>1, SwapFits
<1>3. CASE ~(bufLen + n >= Threshold)
  BY <1>1, <1>3 DEF AppendFrame, RecordWithinCeiling
<1> QED
  BY Zenon, <1>2, <1>3

(* The same for a flush.                                                   *)
LEMMA FlushFits ==
  ASSUME TypeOK, CeilInv, NEW t \in Threads, flush(t)
  PROVE  CeilInv'
<1>1. /\ bufLen \in Nat /\ accepted \in Nat /\ bufLen <= Ceiling /\ budget \in Nat
      /\ RecordWithinCeiling /\ After(t) \in PCs /\ "writing" \in PCs
  BY SizesAssumption DEF TypeOK, CeilInv, After, PCs
<1>2. After(t) \notin {"inject", "preflushing", "preflushed"} /\ UNCHANGED <<size, budget>>
  BY Zenon DEF After, flush, coverVars
<1>3. CASE bufLen = 0
  <2>1. Goto(t, After(t)) /\ UNCHANGED <<bufLen, recs>>
    BY Zenon, <1>3 DEF flush
  <2>2. RecordWithinCeiling'
    BY Zenon, <1>1, <2>1 DEF RecordWithinCeiling
  <2> QED
    BY <1>1, <1>2, <2>1, <2>2, CeilQuiet
<1>4. CASE bufLen # 0
  <2>1. SwapOut(t, accepted, bufLen, "writing")
    BY <1>4 DEF flush
  <2>2. RecordWithinCeiling' /\ bufLen' = 0 /\ Goto(t, "writing")
    BY Zenon, <1>1, <2>1, SwapFits
  <2> QED
    BY <1>1, <1>2, <2>2, CeilQuiet
<1> QED
  BY Zenon, <1>3, <1>4

(* A step of the only pusher: the budget may grow, but a pre-flush begins  *)
(* with an empty buffer.                                                   *)
LEMMA CeilPush ==
  ASSUME LoneWriter, TypeOK, CeilInv, NEW p \in Pushers, NEW l \in PCs, Goto(p, l),
         RecordWithinCeiling', bufLen' < Threshold,
         budget' \in Nat, budget' <= BudgetCap * RatioDen,
         \A u \in Threads \ {p} : size'[u] = size[u],
         l \notin {"inject", "preflushed"},
         l = "preflushing" => bufLen' = 0 /\ size'[p] \in Sizes[p] /\ size'[p] <= Ceiling
  PROVE  CeilInv'
<1>1. pc \in [Threads -> PCs] /\ CoverMax \in Nat /\ Pushers \subseteq Threads /\ Covers \subseteq Threads
      /\ p \in Threads /\ p \notin Covers
  BY Zenon, SizesAssumption, ThreadsAssumption DEF TypeOK, Threads
<1>2. /\ \A u \in Threads : u # p => pc'[u] = pc[u] /\ size'[u] = size[u]
      /\ pc'[p] = l
  BY Zenon, <1>1 DEF Goto
<1>3. \A c \in Covers : (Owes(c)' <=> Owes(c)) /\ Owed(c)' = Owed(c)
  BY Zenon, <1>1, <1>2 DEF Owes, Owed, Holding
<1>4. \A u \in Threads : /\ Holding(u)' => u \in Pushers \cup Covers
                         /\ pc'[u] = "inject" => u \in Covers
  BY <1>2 DEF CeilInv, Holding
<1>5. \A c \in Covers : Owes(c)' => Owed(c)' \in CoverMin .. CoverMax
  BY Zenon, <1>3 DEF CeilInv
<1>6. ASSUME bufLen' = 0 PROVE Room'
  <2>1. PICK due \in 0 .. CoverMax : \A c \in Covers : Owes(c) => Owed(c) <= due
    <3>1. CASE \E c \in Covers : Owes(c)
      <4>1. PICK c \in Covers : Owes(c)
        BY <3>1
      <4>2. Owed(c) \in CoverMin .. CoverMax /\ CoverMin \in Nat
        BY Zenon, <4>1, SizesAssumption DEF CeilInv
      <4>3. Owed(c) \in 0 .. CoverMax /\ Owed(c) <= Owed(c)
        BY <1>1, <4>2
      <4>4. \A d \in Covers : d = c
        BY Zenon DEF LoneWriter
      <4> QED
        BY Zenon, <4>3, <4>4
    <3>2. CASE ~\E c \in Covers : Owes(c)
      <4>1. 0 \in 0 .. CoverMax
        BY <1>1
      <4> QED
        BY Zenon, <3>2, <4>1
    <3> QED
      BY Zenon, <3>1, <3>2
  <2>2. RoomFor(0, budget', due)
    BY Zenon, RoomAtFirst
  <2>3. \A c \in Covers : Owes(c)' => Owed(c)' <= due
    BY Zenon, <1>3, <2>1
  <2> QED
    BY Zenon, <1>6, <2>2, <2>3 DEF Room, RoomFor
<1>7. \A q \in Pushers : Holding(q)' => size'[q] \in Sizes[q] /\ size'[q] <= Ceiling /\ Room'
  <2>1. \A q \in Pushers : q = p
    BY Zenon DEF LoneWriter
  <2>2. Holding(p)' => l = "preflushing"
    BY <1>2 DEF Holding
  <2> QED
    BY Zenon, <1>6, <2>1, <2>2
<1> QED
  BY Zenon, <1>4, <1>5, <1>7 DEF CeilInv

(* A step of the only injector: what it does to the room is what counts.   *)
LEMMA CeilCover ==
  ASSUME LoneWriter, TypeOK, CeilInv, NEW c \in Covers, NEW l \in PCs, Goto(c, l),
         RecordWithinCeiling', bufLen' < Threshold,
         budget' \in Nat, budget' <= BudgetCap * RatioDen,
         \A u \in Threads \ {c} : size'[u] = size[u],
         Owes(c)' => Owed(c)' \in CoverMin .. CoverMax,
         Room => Room'
  PROVE  CeilInv'
<1>1. pc \in [Threads -> PCs] /\ Pushers \subseteq Threads /\ Covers \subseteq Threads
      /\ c \in Threads /\ c \notin Pushers
  BY Zenon, SizesAssumption, ThreadsAssumption DEF TypeOK, Threads
<1>2. \A u \in Threads : u # c => pc'[u] = pc[u] /\ size'[u] = size[u]
  BY Zenon, <1>1 DEF Goto
<1>3. \A u \in Threads : /\ Holding(u)' => u \in Pushers \cup Covers
                         /\ pc'[u] = "inject" => u \in Covers
  BY Zenon, <1>2 DEF CeilInv, Holding
<1>4. \A d \in Covers : Owes(d)' => Owed(d)' \in CoverMin .. CoverMax
  BY Zenon DEF LoneWriter
<1>5. \A p \in Pushers : Holding(p)' => size'[p] \in Sizes[p] /\ size'[p] <= Ceiling /\ Room'
  BY Zenon, <1>1, <1>2 DEF CeilInv, Holding
<1> QED
  BY Zenon, <1>3, <1>4, <1>5 DEF CeilInv

(* The injector's frame enters the buffer: it takes its room.              *)
LEMMA CoverAppends ==
  ASSUME LoneWriter, TypeOK, CeilInv, NEW c \in Covers, Owes(c),
         AppendFrame(c, Owed(c) + Header), UNCHANGED budget,
         \A u \in Threads \ {c} : size'[u] = size[u]
  PROVE  CeilInv'
<1>1. /\ c \in Threads /\ bufLen \in Nat /\ budget \in Nat /\ Header \in Nat /\ CoverMin \in Nat
      /\ CoverMax \in Nat /\ Threshold \in Nat \ {0} /\ Ceiling \in Nat
      /\ {"idle", "writing"} \subseteq PCs
  BY SizesAssumption DEF TypeOK, Threads, PCs
<1>2. Owed(c) \in CoverMin .. CoverMax /\ bufLen < Threshold /\ RecordWithinCeiling
      /\ budget <= BudgetCap * RatioDen
  BY Zenon DEF CeilInv
<1>3. Owed(c) \in Nat /\ Owed(c) + Header \in Nat
  BY <1>1, <1>2
<1>4. bufLen + (Owed(c) + Header) <= Ceiling
  BY <1>1, <1>2, <1>3 DEF LoneWriter
<1>5. /\ RecordWithinCeiling' /\ bufLen' < Threshold /\ bufLen' \in {0, bufLen + (Owed(c) + Header)}
      /\ Goto(c, "idle") \/ Goto(c, "writing")
  BY Zenon, <1>1, <1>2, <1>3, <1>4, AppendFits
<1>6. ~Owes(c)'
  BY Zenon, <1>1, <1>5 DEF TypeOK, Goto, Owes, Holding
<1>7. ASSUME Room PROVE Room'
  <2>1. PICK due \in 0 .. CoverMax :
          RoomFor(bufLen, budget, due) /\ \A d \in Covers : Owes(d) => Owed(d) <= due
    BY Zenon, <1>7 DEF Room
  <2>2. due \in Nat /\ Owed(c) <= due /\ CoverMin <= Owed(c)
    BY <1>1, <1>2, <2>1
  <2>3. RoomFor(bufLen + (Owed(c) + Header), budget, 0)
    BY Zenon, <1>1, <1>3, <2>1, <2>2, RoomTaken
  <2>4. bufLen + (Owed(c) + Header) \in Nat
    BY <1>1, <1>3
  <2>5. RoomFor(bufLen', budget', 0)
    BY <1>1, <1>5, <2>3, <2>4, RoomShrinks
  <2>6. \A d \in Covers : ~Owes(d)'
    BY Zenon, <1>6 DEF LoneWriter
  <2>7. 0 \in 0 .. CoverMax
    BY <1>1
  <2> QED
    BY Zenon, <2>5, <2>6, <2>7 DEF Room, RoomFor
<1> QED
  BY Zenon, <1>1, <1>2, <1>5, <1>6, <1>7, CeilCover

(* The injector pays for a frame: what it owes leaves the budget.          *)
LEMMA CoverPays ==
  ASSUME LoneWriter, TypeOK, CeilInv, NEW c \in Covers, pc[c] = "onIdle", Goto(c, "inject"),
         NEW n \in CoverMin .. CoverMax, n * RatioDen <= budget, budget' = budget - n * RatioDen,
         size' = [size EXCEPT ![c] = n], UNCHANGED <<recs, bufLen>>
  PROVE  CeilInv'
<1>1. /\ c \in Threads /\ bufLen \in Nat /\ budget \in Nat /\ CoverMin \in Nat /\ CoverMax \in Nat
      /\ RatioDen \in Nat /\ "inject" \in PCs /\ n \in Nat /\ pc \in [Threads -> PCs] /\ size \in [Threads -> Nat]
  BY SizesAssumption DEF TypeOK, Threads, PCs
<1>2. n * RatioDen \in Nat /\ RatioDen * n = n * RatioDen /\ BudgetCap * RatioDen \in Nat
  BY <1>1, ProductNat, SizesAssumption
<1>3. /\ budget' \in Nat /\ budget' <= BudgetCap * RatioDen /\ budget' + RatioDen * n = budget
      /\ budget' <= budget
  <2> DEFINE x == n * RatioDen  y == RatioDen * n  z == BudgetCap * RatioDen
  <2>1. x \in Nat /\ y = x /\ budget' = budget - x /\ x <= budget /\ budget <= z /\ z \in Nat
    BY Zenon, <1>2 DEF CeilInv
  <2> HIDE DEF x, y, z
  <2>2. budget' \in Nat /\ budget' <= z /\ budget' + y = budget /\ budget' <= budget
    BY <1>1, <2>1
  <2> QED
    BY Zenon, <2>2 DEF x, y, z
<1>4. pc'[c] = "inject" /\ size'[c] = n
  BY Zenon, <1>1 DEF Goto
<1>5. Owed(c)' = n /\ ~Owes(c)
  BY Zenon, <1>4 DEF Owed, Owes, Holding
<1>6. ASSUME Room PROVE Room'
  <2>1. PICK due \in 0 .. CoverMax : RoomFor(bufLen, budget, due)
    BY <1>6 DEF Room
  <2>2. RoomFor(bufLen, budget', n)
    <3> DEFINE K == CoverMin + Header  D == RatioDen * due  X == RatioDen * CoverMin * bufLen
               Y == (CoverMin + Header) * (RatioDen * (BudgetCap + CoverMax))
    <3>1. RoomFor(bufLen, budget, due) <=> X + K * (budget + D) <= Y
      BY Zenon DEF RoomFor
    <3>2. RoomFor(bufLen, budget', n) <=> X + K * budget <= Y
      BY Zenon, <1>3 DEF RoomFor
    <3>3. due \in Nat
      BY <1>1
    <3>4. K \in Nat /\ D \in Nat /\ X \in Nat /\ Y \in Nat
      BY <1>1, <3>3, SizesAssumption, ProductNat
    <3> HIDE DEF K, D, X, Y
    <3>5. K * budget <= K * (budget + D) /\ K * budget \in Nat /\ K * (budget + D) \in Nat
      BY <1>1, <3>4, TimesMonotone
    <3> DEFINE a == K * budget  b == K * (budget + D)
    <3>6. a <= b /\ a \in Nat /\ b \in Nat /\ X + b <= Y
      BY Zenon, <2>1, <3>1, <3>5
    <3> HIDE DEF a, b
    <3>7. X + a <= Y
      BY <3>4, <3>6
    <3> QED
      BY Zenon, <3>2, <3>7 DEF a
  <2>3. n \in 0 .. CoverMax /\ n <= n
    BY <1>1
  <2>4. \A d \in Covers : Owed(d)' <= n
    BY Zenon, <1>5, <2>3 DEF LoneWriter
  <2>5. RoomFor(bufLen', budget', n)
    BY Zenon, <2>2
  <2> QED
    BY Zenon, <2>3, <2>4, <2>5 DEF Room, RoomFor
<1>7. RecordWithinCeiling' /\ bufLen' < Threshold
  BY Zenon DEF CeilInv, RecordWithinCeiling
<1>8. \A u \in Threads \ {c} : size'[u] = size[u]
  BY Zenon, <1>1
<1> QED
  BY Zenon, <1>1, <1>3, <1>5, <1>6, <1>7, <1>8, CeilCover

(* Every step of a stream used that way keeps its records within the       *)
(* ceiling.                                                                *)
LEMMA CeilStep ==
  ASSUME LoneWriter, IInv, CeilInv, Next, TypeOK'
  PROVE  CeilInv'
<1> USE DEF bufVars, recVars, flagVars, coverVars, locals
<1>1. /\ TypeOK /\ RecordWithinCeiling /\ bufLen \in Nat /\ accepted \in Nat /\ budget \in Nat
      /\ bufLen < Threshold /\ Threshold \in Nat /\ Ceiling \in Nat /\ Threshold <= Ceiling
      /\ budget' \in Nat /\ bufLen' \in Nat
      /\ Pushers \subseteq Threads /\ Timers \subseteq Threads /\ Covers \subseteq Threads /\ Closers \subseteq Threads
  <2>1. TypeOK /\ RecordWithinCeiling /\ bufLen < Threshold
    BY Zenon DEF IInv, CeilInv
  <2>2. /\ bufLen \in Nat /\ accepted \in Nat /\ budget \in Nat /\ budget' \in Nat /\ bufLen' \in Nat
    BY Zenon, <2>1 DEF TypeOK
  <2>3. Threshold \in Nat /\ Ceiling \in Nat /\ Threshold <= Ceiling
    BY SizesAssumption
  <2>4. /\ Pushers \subseteq Threads /\ Timers \subseteq Threads /\ Covers \subseteq Threads /\ Closers \subseteq Threads
    BY Zenon DEF Threads
  <2> QED
    BY Zenon, <2>1, <2>2, <2>3, <2>4
<1>2. PCs = {"idle", "fired", "flush", "onIdle", "inject", "preflushing", "writing", "preflushed",
             "written", "snapshot", "drain", "free", "closed"}
  BY Zenon DEF PCs
<1>3. ASSUME UNCHANGED recs PROVE RecordWithinCeiling'
  BY <1>1, <1>3 DEF RecordWithinCeiling
<1>4. budget <= budget
  BY <1>1
<1>5. ASSUME NEW t \in Threads, writeRecordInOrder(t) PROVE CeilInv'
  <2>1. UNCHANGED <<recs, bufLen, budget, size>>
    BY Zenon, <1>5 DEF writeRecordInOrder
  <2>2. \/ Goto(t, "written")
        \/ Goto(t, "preflushed") /\ pc[t] = "preflushing"
    BY Zenon, <1>5 DEF writeRecordInOrder
  <2> QED
    BY Zenon, <1>1, <1>2, <1>3, <1>4, <2>1, <2>2, CeilQuiet
<1>6. ASSUME NEW t \in Threads, flushAndWriteReturns(t) PROVE CeilInv'
  <2>1. UNCHANGED <<recs, bufLen, budget, size>> /\ (Goto(t, "snapshot") \/ Goto(t, "idle"))
    BY <1>6 DEF flushAndWriteReturns, After
  <2> QED
    BY Zenon, <1>1, <1>2, <1>3, <1>4, <2>1, CeilQuiet
<1>7. ASSUME NEW t \in Threads, Preflushed(t) PROVE CeilInv'
  <2>1. UNCHANGED budget /\ pc[t] = "preflushed" /\ size' = [size EXCEPT ![t] = 0]
    BY Zenon, <1>7 DEF Preflushed
  <2>2. \A u \in Threads \ {t} : size'[u] = size[u]
    BY Zenon, <2>1, <1>1 DEF TypeOK
  <2>3. CASE Goto(t, "idle") /\ UNCHANGED <<accepted, lo, bufLen, freed, timer, recs>>
    BY Zenon, <1>1, <1>2, <1>3, <1>4, <2>1, <2>2, <2>3, CeilQuiet
  <2>4. CASE AppendFrame(t, size[t])
    <3>1. Holding(t) /\ Owes(t) /\ size[t] \in Nat /\ Owed(t) = size[t] - Header /\ Header \in Nat
      BY Zenon, <1>1, <2>1, SizesAssumption DEF Holding, Owes, Owed, TypeOK
    <3>2. t \in Pushers \cup Covers
      BY Zenon, <3>1 DEF CeilInv
    <3>3. CASE t \in Covers
      <4>1. Owed(t) + Header = size[t]
        BY <3>1
      <4> QED
        BY Zenon, <1>1, <2>1, <2>2, <2>4, <3>1, <3>3, <4>1, CoverAppends
    <3>4. CASE t \in Pushers
      <4>1. size[t] \in Sizes[t] /\ size[t] <= Ceiling /\ Room
        BY Zenon, <3>1, <3>4 DEF CeilInv
      <4>2. PICK due \in 0 .. CoverMax : RoomFor(bufLen, budget, due)
        BY Zenon, <4>1 DEF Room
      <4>3. size[t] * CoverMin + (CoverMin + Header) * (BudgetCap + CoverMax) <= Ceiling * CoverMin
        BY Zenon, <3>4, <4>1 DEF LoneWriter
      <4>4. due \in Nat
        BY SizesAssumption
      <4>5. bufLen + size[t] <= Ceiling
        BY Zenon, <1>1, <3>1, <4>2, <4>3, <4>4, RoomSuffices
      <4>6. /\ RecordWithinCeiling' /\ bufLen' < Threshold
            /\ Goto(t, "idle") \/ Goto(t, "writing")
        BY <1>1, <2>4, <3>1, <4>5, AppendFits
      <4>7. budget' <= BudgetCap * RatioDen
        BY Zenon, <2>1 DEF CeilInv
      <4> QED
        BY Zenon, <1>1, <1>2, <2>2, <3>4, <4>6, <4>7, CeilPush
    <3> QED
      BY Zenon, <3>2, <3>3, <3>4
  <2> QED
    BY Zenon, <1>7, <2>3, <2>4 DEF Preflushed
<1>8. ASSUME NEW p \in Pushers, Push(p) PROVE CeilInv'
  <2>1. PICK n \in Sizes[p] : addBudget(n) /\ appendFrameLocked(p, n)
    BY Zenon, <1>8 DEF Push
  <2>2. n \in Nat /\ p \in Threads /\ size \in [Threads -> Nat]
    BY Zenon, <1>1, SizesAssumption DEF TypeOK
  <2>3. budget' <= BudgetCap * RatioDen
    <3> DEFINE x == BudgetCap * RatioDen  y == n * RatioNum
    <3>1. x \in Nat /\ y \in Nat /\ budget' = IF budget + y > x THEN x ELSE budget + y
      BY Zenon, <2>1, <2>2, SizesAssumption, ProductNat DEF addBudget
    <3> HIDE DEF x, y
    <3>2. budget' <= x
      BY <1>1, <3>1
    <3> QED
      BY Zenon, <3>2 DEF x
  <2>4. CASE Goto(p, "idle") /\ size' = [size EXCEPT ![p] = 0]
             /\ UNCHANGED <<accepted, lo, bufLen, freed, timer, recs, seq>>
    <3>1. \A u \in Threads \ {p} : size'[u] = size[u]
      BY Zenon, <2>2, <2>4
    <3> QED
      BY Zenon, <1>1, <1>2, <1>3, <2>3, <2>4, <3>1, CeilPush
  <2>5. CASE n <= Ceiling /\ SwapOut(p, accepted, bufLen, "preflushing") /\ size' = [size EXCEPT ![p] = n]
    <3>1. size'[p] = n /\ \A u \in Threads \ {p} : size'[u] = size[u]
      BY Zenon, <2>2, <2>5
    <3>2. bufLen <= Ceiling
      BY <1>1
    <3>3. RecordWithinCeiling' /\ bufLen' = 0 /\ Goto(p, "preflushing")
      BY Zenon, <1>1, <2>2, <2>5, <3>2, SwapFits
    <3>4. bufLen' < Threshold
      BY <3>3, SizesAssumption
    <3> QED
      BY Zenon, <1>1, <1>2, <2>3, <2>5, <3>1, <3>3, <3>4, CeilPush
  <2>6. CASE n <= Ceiling /\ (bufLen = 0 \/ bufLen + n <= Ceiling) /\ AppendFrame(p, n) /\ size' = [size EXCEPT ![p] = 0]
    <3>1. \A u \in Threads \ {p} : size'[u] = size[u]
      BY Zenon, <2>2, <2>6
    <3>2. bufLen + n <= Ceiling
      BY <1>1, <2>2, <2>6
    <3>3. /\ RecordWithinCeiling' /\ bufLen' < Threshold
          /\ Goto(p, "idle") \/ Goto(p, "writing")
      BY Zenon, <1>1, <2>2, <2>6, <3>2, AppendFits
    <3> QED
      BY Zenon, <1>1, <1>2, <2>3, <3>1, <3>3, CeilPush
  <2> QED
    BY Zenon, <2>1, <2>4, <2>5, <2>6 DEF appendFrameLocked
<1>9. ASSUME NEW t \in Threads, flush(t) PROVE CeilInv'
  BY Zenon, <1>1, <1>9, FlushFits
<1>10. ASSUME NEW t \in Timers, FireTimer(t) \/ onTimer(t) PROVE CeilInv'
  <2>1. UNCHANGED <<recs, bufLen, budget, size>> /\ (Goto(t, "fired") \/ Goto(t, "flush") \/ Goto(t, "idle"))
    BY Zenon, <1>10 DEF FireTimer, onTimer
  <2> QED
    BY Zenon, <1>1, <1>2, <1>3, <1>4, <2>1, CeilQuiet
<1>11. ASSUME NEW c \in Covers, FireCover(c) PROVE CeilInv'
  <2>1. UNCHANGED <<recs, bufLen, budget, size>> /\ Goto(c, "onIdle")
    BY Zenon, <1>11 DEF FireCover
  <2> QED
    BY Zenon, <1>1, <1>2, <1>3, <1>4, <2>1, CeilQuiet
<1>12. ASSUME NEW c \in Covers, onIdle(c) PROVE CeilInv'
  <2>1. UNCHANGED <<recs, bufLen>> /\ pc[c] = "onIdle"
    BY Zenon, <1>12 DEF onIdle
  <2>2. CASE Goto(c, "idle") /\ UNCHANGED <<budget, size>>
    BY Zenon, <1>1, <1>2, <1>3, <1>4, <2>1, <2>2, CeilQuiet
  <2>3. CASE /\ \E n \in CoverMin .. CoverMax :
                  /\ n * RatioDen <= budget
                  /\ budget' = budget - n * RatioDen
                  /\ size' = [size EXCEPT ![c] = n]
             /\ Goto(c, "inject")
    BY Zenon, <1>1, <2>1, <2>3, CoverPays
  <2> QED
    BY Zenon, <1>12, <2>2, <2>3 DEF onIdle
<1>13. ASSUME NEW c \in Covers, injectCoverFrame(c) PROVE CeilInv'
  <2>1. UNCHANGED budget /\ pc[c] = "inject" /\ Owes(c) /\ Owed(c) = size[c] /\ size \in [Threads -> Nat]
        /\ c \in Threads /\ size[c] + Header \in Nat /\ Header \in Nat
    <3>1. UNCHANGED budget /\ pc[c] = "inject" /\ Owes(c) /\ Owed(c) = size[c]
      BY Zenon, <1>13 DEF injectCoverFrame, Owes, Owed
    <3>2. c \in Threads /\ size \in [Threads -> Nat]
      BY Zenon, <1>1 DEF TypeOK
    <3>3. Header \in Nat /\ size[c] \in Nat
      BY <3>2, SizesAssumption
    <3>4. size[c] + Header \in Nat
      BY <3>3
    <3> QED
      BY Zenon, <3>1, <3>2, <3>3, <3>4
  <2>2. CASE Goto(c, "idle") /\ size' = [size EXCEPT ![c] = 0]
             /\ UNCHANGED <<accepted, lo, bufLen, freed, timer, recs, seq>>
    <3>1. \A u \in Threads \ {c} : size'[u] = size[u]
      BY <2>1, <2>2
    <3> QED
      BY Zenon, <1>1, <1>2, <1>3, <1>4, <2>1, <2>2, <3>1, CeilQuiet
  <2>3. CASE SwapOut(c, accepted, bufLen, "preflushing") /\ size' = [size EXCEPT ![c] = size[c] + Header]
    <3>1. bufLen <= Ceiling
      BY <1>1
    <3>2. RecordWithinCeiling' /\ bufLen' = 0 /\ Goto(c, "preflushing")
      BY Zenon, <1>1, <2>1, <2>3, <3>1, SwapFits
    <3>3. bufLen' < Threshold /\ budget' <= BudgetCap * RatioDen
      BY <2>1, <3>2, SizesAssumption DEF CeilInv
    <3>4. pc'[c] = "preflushing" /\ size'[c] = size[c] + Header /\ \A u \in Threads \ {c} : size'[u] = size[u]
      BY Zenon, <1>1, <2>1, <2>3, <3>2 DEF TypeOK, Goto
    <3>5. Owed(c)' = Owed(c) /\ Owed(c) \in CoverMin .. CoverMax
      <4>1. Owed(c)' = size'[c] - Header
        BY <3>4 DEF Owed
      <4>2. Owed(c) \in CoverMin .. CoverMax
        BY Zenon, <2>1 DEF CeilInv
      <4>3. size[c] \in Nat /\ Header \in Nat /\ Owed(c) = size[c]
        BY Zenon, <2>1
      <4>4. Owed(c)' = Owed(c)
        BY <3>4, <4>1, <4>3
      <4> QED
        BY Zenon, <4>2, <4>4
    <3>6. ASSUME Room PROVE Room'
      <4>1. PICK due \in 0 .. CoverMax : RoomFor(bufLen, budget, due) /\ Owed(c) <= due
        BY Zenon, <2>1, <3>6 DEF Room
      <4>2. due \in Nat
        BY SizesAssumption
      <4>3. RoomFor(bufLen', budget', due)
        BY Zenon, <1>1, <1>4, <2>1, <3>2, <4>1, <4>2, RoomShrinks
      <4>4. \A d \in Covers : Owed(d)' <= due
        BY Zenon, <3>5, <4>1 DEF LoneWriter
      <4> QED
        BY Zenon, <4>3, <4>4 DEF Room, RoomFor
    <3> QED
      BY Zenon, <1>1, <1>2, <3>2, <3>3, <3>4, <3>5, <3>6, CeilCover
  <2>4. CASE AppendFrame(c, size[c] + Header) /\ size' = [size EXCEPT ![c] = 0]
    <3>1. \A u \in Threads \ {c} : size'[u] = size[u]
      BY <2>1, <2>4
    <3> QED
      BY Zenon, <1>1, <2>1, <2>4, <3>1, CoverAppends
  <2> QED
    BY Zenon, <1>13, <2>2, <2>3, <2>4 DEF injectCoverFrame, appendFrameLocked
<1>14. ASSUME NEW k \in Closers, CloseBegin(k) PROVE CeilInv'
  <2>1. UNCHANGED <<recs, bufLen, size>> /\ budget' = 0 /\ Goto(k, "flush")
    BY Zenon, <1>14 DEF CloseBegin
  <2>2. budget' <= budget /\ "flush" \in PCs /\ k \in Threads /\ RecordWithinCeiling'
    BY <1>1, <1>2, <1>3, <2>1
  <2> QED
    BY Zenon, <1>1, <2>1, <2>2, CeilQuiet
<1>15. ASSUME NEW k \in Closers, CloseSnapshot(k) \/ CloseDrain(k) \/ CloseFree(k) PROVE CeilInv'
  <2>1. /\ UNCHANGED <<recs, budget, size>> /\ bufLen' \in {bufLen, 0}
        /\ Goto(k, "drain") \/ Goto(k, "free") \/ Goto(k, "closed")
    BY <1>15 DEF CloseSnapshot, CloseDrain, CloseFree
  <2> QED
    BY Zenon, <1>1, <1>2, <1>3, <1>4, <2>1, CeilQuiet
<1> QED
  BY Zenon, <1>1, <1>5, <1>6, <1>7, <1>8, <1>9, <1>10, <1>11, <1>12, <1>13, <1>14, <1>15
     DEF Next, Step, PushStep, Flush, TimerStep, TimerFlush, CoverStep, CloseStep, CloseFlush

(* A stream with one pusher never swaps out a record longer than the       *)
(* transport takes, although appendFrameLocked does not look at the length *)
(* again after its pre-flush.                                              *)
THEOREM CeilingKept == ASSUME LoneWriter PROVE Spec => []RecordWithinCeiling
<1>1. Init => CeilInv
  <2> SUFFICES ASSUME Init PROVE CeilInv
    OBVIOUS
  <2>1. BudgetCap * RatioDen \in Nat
    BY SizesAssumption, ProductNat
  <2> DEFINE x == BudgetCap * RatioDen
  <2>2. x \in Nat
    BY Zenon, <2>1
  <2> HIDE DEF x
  <2>3. budget <= x
    BY <2>2 DEF Init
  <2>4. budget <= BudgetCap * RatioDen
    BY Zenon, <2>3 DEF x
  <2>5. \A t \in Threads : pc[t] = "idle"
    BY DEF Init
  <2>6. Pushers \subseteq Threads /\ Covers \subseteq Threads
    BY Zenon DEF Threads
  <2>7. bufLen < Threshold /\ RecordWithinCeiling
    BY SizesAssumption DEF Init, RecordWithinCeiling
  <2> QED
    BY Zenon, <2>4, <2>5, <2>6, <2>7 DEF CeilInv, Holding, Owes
<1>2. IInv /\ IInv' /\ CeilInv /\ [Next]_vars => CeilInv'
  <2> SUFFICES ASSUME IInv, IInv', CeilInv, [Next]_vars PROVE CeilInv'
    OBVIOUS
  <2>1. CASE Next
    BY Zenon, <2>1, CeilStep DEF IInv
  <2>2. CASE UNCHANGED vars
    <3>1. UNCHANGED <<recs, bufLen, budget, pc, size>>
      BY Zenon, <2>2 DEF vars, bufVars, recVars, coverVars, locals
    <3> QED
      BY Zenon, <3>1 DEF CeilInv, RecordWithinCeiling, Holding, Owes, Owed, Room, RoomFor
  <2> QED
    BY <2>1, <2>2
<1>3. CeilInv => RecordWithinCeiling
  BY DEF CeilInv
<1> QED
  BY <1>1, <1>2, <1>3, Invariance, PTL DEF Spec

(* Once a Close has returned the stream holds no pooled buffer, whoever    *)
(* was in the middle of a push, a flush or a callback: no further          *)
(* condition.                                                              *)
THEOREM Released == Spec => []BufferReleased
<1>1. Init => BufferReleased
  BY Zenon DEF Init, BufferReleased, Threads
<1>2. IInv /\ BufferReleased /\ [Next]_vars => BufferReleased'
  <2> SUFFICES ASSUME IInv, BufferReleased, [Next]_vars PROVE BufferReleased'
    BY Zenon
  <2> USE DEF bufVars, recVars, flagVars, coverVars, locals
  <2>1. ASSUME NEW t \in Threads, NEW l, Goto(t, l), l # "closed", UNCHANGED freed PROVE BufferReleased'
    BY Zenon, <2>1 DEF BufferReleased, Goto, IInv, TypeOK, Threads
  <2>2. ASSUME NEW t \in Threads, NEW l, Goto(t, l), l # "closed", ~closing PROVE BufferReleased'
    <3>1. \A k \in Closers : pc[k] = "idle"
      BY <2>2 DEF IInv, CloseInv
    <3> QED
      BY Zenon, <2>2, <3>1 DEF BufferReleased, Goto, IInv, TypeOK, Threads
  <2>3. ASSUME NEW t \in Threads, flush(t) PROVE BufferReleased'
    <3>1. CASE bufLen = 0
      BY Zenon, <2>1, <2>3, <3>1 DEF flush, After
    <3>2. CASE bufLen # 0
      <4>1. \A k \in Closers : pc[k] # "closed"
        BY <3>2 DEF IInv, CloseInv
      <4>2. Goto(t, "writing")
        BY Zenon, <2>3, <3>2 DEF flush, SwapOut
      <4> QED
        BY Zenon, <4>1, <4>2 DEF BufferReleased, Goto, IInv, TypeOK, Threads
    <3> QED
      BY Zenon, <3>1, <3>2
  <2>4. ASSUME NEW t \in Threads, NEW n, appendFrameLocked(t, n) PROVE
             Goto(t, "idle") \/ Goto(t, "writing") \/ Goto(t, "preflushing")
    BY Zenon, <2>4 DEF appendFrameLocked, AppendFrame, SwapOut
  <2>5. ASSUME NEW t \in Threads, writeRecordInOrder(t) \/ flushAndWriteReturns(t) PROVE BufferReleased'
    BY <2>1, <2>5 DEF writeRecordInOrder, flushAndWriteReturns, After
  <2>6. ASSUME NEW t \in Threads, Preflushed(t) PROVE BufferReleased'
    <3>1. CASE Goto(t, "idle") /\ UNCHANGED freed
      BY Zenon, <2>1, <3>1
    <3>2. CASE ~closing /\ AppendFrame(t, size[t])
      <4>1. Goto(t, "idle") \/ Goto(t, "writing")
        BY Zenon, <3>2 DEF AppendFrame, SwapOut
      <4> QED
        BY <2>2, <3>2, <4>1
    <3> QED
      BY Zenon, <2>6, <3>1, <3>2 DEF Preflushed
  <2>7. ASSUME NEW p \in Pushers, Push(p) PROVE BufferReleased'
    <3>1. p \in Threads /\ ~closing /\ \E n \in Sizes[p] : appendFrameLocked(p, n)
      BY Zenon, <2>7 DEF Push, Threads
    <3> QED
      BY Zenon, <2>2, <2>4, <3>1
  <2>8. ASSUME NEW t \in Timers, FireTimer(t) \/ onTimer(t) PROVE BufferReleased'
    BY <2>1, <2>8 DEF FireTimer, onTimer, Threads
  <2>9. ASSUME NEW c \in Covers, FireCover(c) \/ onIdle(c) PROVE BufferReleased'
    <3>1. c \in Threads /\ UNCHANGED freed /\ (Goto(c, "idle") \/ Goto(c, "onIdle") \/ Goto(c, "inject"))
      BY Zenon, <2>9 DEF FireCover, onIdle, Threads
    <3> QED
      BY Zenon, <2>1, <3>1
  <2>10. ASSUME NEW c \in Covers, injectCoverFrame(c) PROVE BufferReleased'
    <3>1. c \in Threads /\ \/ Goto(c, "idle") /\ UNCHANGED freed
                           \/ ~closing /\ appendFrameLocked(c, size[c] + Header)
      BY Zenon, <2>10 DEF injectCoverFrame, Threads
    <3> QED
      BY Zenon, <2>1, <2>2, <2>4, <3>1
  <2>11. ASSUME NEW k \in Closers, CloseBegin(k) \/ CloseSnapshot(k) \/ CloseDrain(k) PROVE BufferReleased'
    BY <2>1, <2>11 DEF CloseBegin, CloseSnapshot, CloseDrain, Threads
  <2>12. ASSUME NEW k \in Closers, CloseFree(k) PROVE BufferReleased'
    BY Zenon, <2>12 DEF CloseFree, BufferReleased
  <2>13. CASE UNCHANGED vars
    BY <2>13 DEF vars, BufferReleased
  <2> QED
    BY Zenon, <2>3, <2>5, <2>6, <2>7, <2>8, <2>9, <2>10, <2>11, <2>12, <2>13
       DEF Next, Step, PushStep, Flush, TimerStep, TimerFlush, CoverStep, CloseStep, CloseFlush, Threads
<1> QED
  BY <1>1, <1>2, Invariance, PTL DEF Spec

(* No record is longer than the transport takes, and a closed stream holds *)
(* no pooled buffer again.                                                 *)
THEOREM BufferKept == ASSUME LoneWriter PROVE Spec => []BufferSound
  BY CeilingKept, Released, PTL DEF BufferSound

(* A stream with one pusher is an in-order pipe, with nothing left to      *)
(* assume about its records.                                               *)
THEOREM StreamIsPipe == ASSUME LoneWriter PROVE Spec => ImplementsPipe
  BY CeilingKept, Refinement, PTL

=============================================================================
