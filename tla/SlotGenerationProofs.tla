------------------------ MODULE SlotGenerationProofs ------------------------
(***************************************************************************)
(* Proofs about SlotGeneration for any number of streams, dials, sweeps    *)
(* and closers.                                                            *)
(***************************************************************************)
EXTENDS SlotGeneration, TLAPS

-----------------------------------------------------------------------------
(* The inductive invariant.  Everybody works on a generation and on a      *)
(* connection that exist.                                                  *)
RefInv ==
  /\ \A t \in Threads : tg[t] \in 1 .. Len(conn) /\ tc[t] \in 0 .. Len(cgen)
  /\ \A c \in 1 .. Len(cgen) : cgen[c] \in 1 .. Len(conn)

(* IdentityOpen, spelled out.                                              *)
IdInv ==
  \A g \in 1 .. Len(conn) : conn[g] # 0 =>
    /\ conn[g] \in 1 .. Len(cgen) /\ cgen[conn[g]] = g
    /\ conn[g] \notin evicted /\ conn[g] \notin hard

(* Who has claimed a connection owns it: no generation holds it any more,  *)
(* nobody closed it, and it belongs to the generation being retired.       *)
ClaimInv ==
  /\ \A t \in Threads : Claims(t) =>
       /\ tc[t] # 0 /\ cgen[tc[t]] = tg[t] /\ tc[t] \notin hard
       /\ \A g \in 1 .. Len(conn) : conn[g] # tc[t]
       /\ t \notin Sweepers => tc[t] \in judged
       /\ pc[t] = "hardclose" => tg[t] < Len(conn) /\ t \notin Sweepers
  /\ ClaimedOnce

HardInv == \A c \in hard : c \in 1 .. Len(cgen) /\ c \in judged /\ cgen[c] < Len(conn)

Core == RefInv /\ IdInv /\ ClaimInv /\ HardInv /\ GenerationsSpent

IInv == TypeOK /\ Core

-----------------------------------------------------------------------------

(* Time limits for the leaves below.                                       *)
USE SMTT(30), ZenonT(30)

LEMMA UpdateType ==
  ASSUME NEW S, NEW T, NEW f \in [S -> T], NEW x \in S, NEW v \in T
  PROVE  [f EXCEPT ![x] = v] \in [S -> T]
  OBVIOUS

LEMMA UpdateSeq ==
  ASSUME NEW f \in Seq(Nat), NEW g \in 1 .. Len(f), NEW x \in Nat
  PROVE  [f EXCEPT ![g] = x] \in Seq(Nat)
  BY SMTT(30)

LEMMA AppendFacts ==
  ASSUME NEW f \in Seq(Nat), NEW x \in Nat
  PROVE  /\ Append(f, x) \in Seq(Nat) /\ Len(Append(f, x)) = Len(f) + 1
         /\ Append(f, x)[Len(f) + 1] = x
         /\ \A h \in 1 .. Len(f) : Append(f, x)[h] = f[h]
  OBVIOUS

(* r is what closing the connections C of generation g leaves of the table *)
(* f of generations.                                                       *)
Retired(f, g, C, r) ==
  /\ r \in Seq(Nat)
  /\ Len(r) \in {Len(f), Len(f) + 1}
  /\ \A h \in 1 .. Len(f) : r[h] = IF h = g /\ f[g] \in C THEN 0 ELSE f[h]
  /\ Len(r) = Len(f) + 1 => r[Len(f) + 1] = 0 /\ g = Len(f) /\ f[g] \in C

(* What CloseIdleConnections and trackedConn.Close leave of the table of   *)
(* generations.                                                            *)
LEMMA RetireGenerationFacts ==
  ASSUME NEW f \in Seq(Nat), NEW g \in 1 .. Len(f), NEW C
  PROVE  Retired(f, g, C, retireGeneration(f, g, C))
<1> DEFINE r == retireGeneration(f, g, C)
<1> DEFINE e == [f EXCEPT ![g] = 0]
<1>1. e \in Seq(Nat) /\ Len(e) = Len(f) /\ \A h \in 1 .. Len(f) : e[h] = IF h = g THEN 0 ELSE f[h]
  OBVIOUS
<1> HIDE DEF e
<1>2. Append(e, 0) \in Seq(Nat) /\ Len(Append(e, 0)) = Len(f) + 1 /\ Append(e, 0)[Len(f) + 1] = 0
      /\ \A h \in 1 .. Len(f) : Append(e, 0)[h] = e[h]
  <2>1. e \in Seq(Nat) /\ 0 \in Nat
    BY <1>1
  <2>2. /\ Append(e, 0) \in Seq(Nat) /\ Len(Append(e, 0)) = Len(e) + 1
        /\ Append(e, 0)[Len(e) + 1] = 0
        /\ \A h \in 1 .. Len(e) : Append(e, 0)[h] = e[h]
    BY <2>1, AppendFacts, Zenon
  <2>3. Len(e) = Len(f)
    BY <1>1
  <2> QED
    BY <2>2, <2>3, Zenon
<1>3. r = IF f[g] \notin C THEN f ELSE IF Len(f) = g THEN Append(e, 0) ELSE e
  BY DEF retireGeneration, newGen, e
<1> SUFFICES Retired(f, g, C, r)
  OBVIOUS
<1> HIDE DEF r
<1>4. CASE f[g] \notin C
  BY <1>3, <1>4 DEF Retired
<1>5. CASE f[g] \in C /\ Len(f) = g
  BY <1>1, <1>2, <1>3, <1>5 DEF Retired
<1>6. CASE f[g] \in C /\ Len(f) # g
  BY <1>1, <1>3, <1>6 DEF Retired
<1> QED
  BY <1>4, <1>5, <1>6

-----------------------------------------------------------------------------
(* A step of a thread that claims nothing, before or after, and leaves the *)
(* connections alone.                                                      *)
LEMMA QuietStep ==
  ASSUME Core, NEW t \in Threads,
         UNCHANGED <<conn, cgen, evicted, hard, judged>>,
         \A u \in Threads : u # t => pc'[u] = pc[u] /\ tg'[u] = tg[u] /\ tc'[u] = tc[u],
         ~Claims(t)', tg'[t] \in 1 .. Len(conn), tc'[t] \in 0 .. Len(cgen)
  PROVE  Core'
<1>2. \A u \in Threads : u # t => pc'[u] = pc[u] /\ tg'[u] = tg[u] /\ tc'[u] = tc[u]
  OBVIOUS
<1>3. \A u \in Threads : Claims(u)' => Claims(u) /\ u # t
  BY <1>2 DEF Claims
<1>4. RefInv'
  BY <1>2 DEF Core, RefInv
<1>5. IdInv'
  BY DEF Core, IdInv
<1>6. ClaimInv'
  BY <1>2, <1>3 DEF Core, ClaimInv, ClaimedOnce
<1>7. HardInv' /\ GenerationsSpent'
  BY DEF Core, HardInv, GenerationsSpent, gen, Conns
<1> QED
  BY <1>4, <1>5, <1>6, <1>7 DEF Core

(* A connection is claimed: takeConn wins.                                 *)
LEMMA ClaimStep ==
  ASSUME TypeOK, Core, NEW t \in Threads, ~Claims(t),
         NEW kept \in PCs, NEW missed \in PCs,
         missed \notin {"reset", "advance", "hardclose"}, kept \notin {"reset", "advance"},
         kept = "hardclose" => t \notin Sweepers,
         NEW g \in 1 .. Len(conn), NEW expect \in 0 .. Len(cgen),
         retireConn(t, g, expect, kept, missed),
         UNCHANGED <<cgen, evicted, hard>>, judged \subseteq judged',
         t \notin Sweepers => expect \in judged' \cup {0}
  PROVE  Core'
<1>1. /\ pc \in [Threads -> PCs] /\ tg \in [Threads -> Nat] /\ tc \in [Threads -> Nat]
      /\ conn \in Seq(Nat) /\ cgen \in Seq(Nat)
  BY DEF TypeOK
<1>2. \A u \in Threads : /\ u # t => pc'[u] = pc[u]
                         /\ tg'[u] = (IF u = t THEN g ELSE tg[u])
                         /\ tc'[u] = (IF u = t THEN expect ELSE tc[u])
  BY <1>1 DEF retireConn, Hold, Goto
<1>3. CASE expect # 0 /\ conn[g] = expect
  <2>1. /\ Len(conn') = Len(conn) /\ \A h \in 1 .. Len(conn) : conn'[h] = IF h = g THEN 0 ELSE conn[h]
    BY SMTT(30), <1>1, <1>3 DEF retireConn
  <2>2. pc'[t] = IF Len(conn) = g THEN "reset" ELSE kept
    BY <1>1, <1>3 DEF retireConn, Goto, gen
  <2>3. cgen[expect] = g /\ expect \in 1 .. Len(cgen) /\ expect \notin hard
        /\ \A h \in 1 .. Len(conn) : h # g => conn[h] # expect
    BY <1>3 DEF Core, IdInv
  <2>4. \A u \in Threads : Claims(u) => tc[u] # expect
    BY <1>3 DEF Core, ClaimInv
  <2>5. \A u \in Threads : Claims(u)' /\ u # t => Claims(u)
    BY <1>2 DEF Claims
  <2>6. RefInv'
    BY <1>2, <2>1 DEF Core, RefInv
  <2>7. IdInv'
    BY <2>1 DEF Core, IdInv
  <2>8. ClaimedOnce'
    BY <1>2, <2>4, <2>5 DEF Core, ClaimInv, ClaimedOnce
  <2>9. ASSUME NEW u \in Threads, Claims(u)'
        PROVE  /\ tc'[u] # 0 /\ cgen'[tc'[u]] = tg'[u] /\ tc'[u] \notin hard'
               /\ \A h \in 1 .. Len(conn') : conn'[h] # tc'[u]
               /\ u \notin Sweepers => tc'[u] \in judged'
               /\ pc'[u] = "hardclose" => tg'[u] < Len(conn') /\ u \notin Sweepers
    <3>1. CASE u = t
      BY <1>1, <1>2, <1>3, <2>1, <2>2, <2>3, <3>1
    <3>2. CASE u # t
      BY <1>2, <2>1, <2>5, <2>9, <3>2 DEF Core, ClaimInv
    <3> QED
      BY <3>1, <3>2
  <2>10. HardInv' /\ GenerationsSpent'
    BY <2>1 DEF Core, HardInv, GenerationsSpent, gen, Conns
  <2> QED
    BY <2>6, <2>7, <2>8, <2>9, <2>10 DEF Core, ClaimInv
<1>4. CASE ~(expect # 0 /\ conn[g] = expect)
  <2>1. UNCHANGED conn /\ pc'[t] = missed
    BY <1>1, <1>4 DEF retireConn, Goto
  <2>2. \A u \in Threads : Claims(u)' => Claims(u) /\ u # t
    BY <1>2, <2>1 DEF Claims
  <2>3. RefInv' /\ IdInv'
    BY <1>2, <2>1 DEF Core, RefInv, IdInv
  <2>4. ClaimInv'
    BY <1>2, <2>1, <2>2 DEF Core, ClaimInv, ClaimedOnce
  <2>5. HardInv' /\ GenerationsSpent'
    BY <2>1 DEF Core, HardInv, GenerationsSpent, gen, Conns
  <2> QED
    BY <2>3, <2>4, <2>5 DEF Core
<1> QED
  BY <1>3, <1>4

(* Connections C of generation g are closed by net/http.  No claim begins  *)
(* with that.                                                              *)
LEMMA EvictStep ==
  ASSUME TypeOK, Core, NEW g \in 1 .. Len(conn), NEW C \in SUBSET Conns,
         conn' = retireGeneration(conn, g, C), evicted' = evicted \cup C,
         \A c \in C : cgen[c] = g,
         UNCHANGED <<cgen, hard, judged, tg, tc>>,
         \A u \in Threads : Claims(u)' => Claims(u) /\ pc'[u] = pc[u]
  PROVE  Core'
<1>1. /\ conn \in Seq(Nat) /\ cgen \in Seq(Nat) /\ Len(conn) \in Nat /\ Len(cgen) \in Nat
      /\ Len(conn') \in {Len(conn), Len(conn) + 1}
      /\ \A h \in 1 .. Len(conn) : conn'[h] = IF h = g /\ conn[g] \in C THEN 0 ELSE conn[h]
      /\ Len(conn') = Len(conn) + 1 =>
           conn'[Len(conn) + 1] = 0 /\ g = Len(conn) /\ conn[g] \in C
  <2>1. conn \in Seq(Nat) /\ cgen \in Seq(Nat)
    BY DEF TypeOK
  <2>2. Retired(conn, g, C, conn')
    BY <2>1, RetireGenerationFacts, Zenon
  <2> QED
    BY <2>1, <2>2 DEF Retired
<1>2. \A h \in 1 .. Len(conn') : conn'[h] # 0 =>
        /\ h \in 1 .. Len(conn) /\ conn'[h] = conn[h] /\ ~(h = g /\ conn[g] \in C)
  BY <1>1
<1>3. RefInv'
  BY <1>1 DEF Core, RefInv
<1>4. IdInv'
  <2> SUFFICES ASSUME NEW h \in 1 .. Len(conn'), conn'[h] # 0
               PROVE  /\ conn'[h] \in 1 .. Len(cgen) /\ cgen[conn'[h]] = h
                      /\ conn'[h] \notin evicted' /\ conn'[h] \notin hard
    BY DEF IdInv
  <2>1. /\ h \in 1 .. Len(conn) /\ conn'[h] = conn[h] /\ ~(h = g /\ conn[g] \in C)
    BY <1>2
  <2>2. /\ conn[h] \in 1 .. Len(cgen) /\ cgen[conn[h]] = h
        /\ conn[h] \notin evicted /\ conn[h] \notin hard
    BY <2>1 DEF Core, IdInv
  <2> QED
    BY <2>1, <2>2
<1>5. ClaimInv'
  <2>1. ClaimedOnce'
    BY DEF Core, ClaimInv, ClaimedOnce
  <2>2. ASSUME NEW u \in Threads, Claims(u)'
        PROVE  /\ tc[u] # 0 /\ cgen[tc[u]] = tg[u] /\ tc[u] \notin hard
               /\ \A h \in 1 .. Len(conn') : conn'[h] # tc[u]
               /\ u \notin Sweepers => tc[u] \in judged
               /\ pc'[u] = "hardclose" => tg[u] < Len(conn') /\ u \notin Sweepers
    <3>1. Claims(u) /\ pc'[u] = pc[u] /\ tg[u] \in 1 .. Len(conn)
      BY <2>2 DEF Core, RefInv
    <3>2. /\ tc[u] # 0 /\ cgen[tc[u]] = tg[u] /\ tc[u] \notin hard
          /\ \A h \in 1 .. Len(conn) : conn[h] # tc[u]
          /\ u \notin Sweepers => tc[u] \in judged
          /\ pc[u] = "hardclose" => tg[u] < Len(conn) /\ u \notin Sweepers
      BY <3>1 DEF Core, ClaimInv
    <3>3. \A h \in 1 .. Len(conn') : conn'[h] # tc[u]
      BY <1>2, <3>2
    <3> QED
      BY SMTT(30), <1>1, <3>1, <3>2, <3>3
  <2> QED
    BY <2>1, <2>2 DEF ClaimInv
<1>6. HardInv'
  BY SMTT(30), <1>1 DEF Core, HardInv
<1>7. GenerationsSpent'
  <2>1. \A h \in 1 .. Len(conn) - 1 : \E c \in 1 .. Len(cgen) : cgen[c] = h
    BY DEF Core, GenerationsSpent, gen, Conns
  <2>2. Len(conn') = Len(conn) + 1 => conn[g] \in 1 .. Len(cgen) /\ cgen[conn[g]] = Len(conn)
    BY <1>1 DEF Conns
  <2>3. ASSUME NEW h \in 1 .. Len(conn') - 1 PROVE \E c \in 1 .. Len(cgen) : cgen[c] = h
    <3>1. CASE h < Len(conn)
      <4>1. h \in 1 .. Len(conn) - 1
        BY <1>1, <3>1
      <4> QED
        BY <2>1, <4>1, Zenon
    <3>2. CASE h = Len(conn)
      BY <1>1, <2>2, <3>2
    <3> QED
      BY <1>1, <3>1, <3>2
  <2> QED
    BY <2>3 DEF GenerationsSpent, gen, Conns
<1> QED
  BY <1>3, <1>4, <1>5, <1>6, <1>7 DEF Core

LEMMA ResetStep ==
  ASSUME TypeOK, Core, NEW t \in Threads, RetireReset(t) PROVE Core'
<1>1. /\ pc \in [Threads -> PCs] /\ pc[t] = "reset"
      /\ UNCHANGED <<conn, cgen, evicted, hard, judged, tg, tc>>
      /\ \A u \in Threads : pc'[u] = IF u = t THEN "advance" ELSE pc[u]
  BY DEF TypeOK, RetireReset, Goto, connVars, locals
<1>2. \A u \in Threads : Claims(u)' <=> Claims(u)
  BY <1>1 DEF Claims
<1>3. RefInv' /\ IdInv'
  BY <1>1 DEF Core, RefInv, IdInv
<1>4. ClaimInv'
  BY <1>1, <1>2 DEF Core, ClaimInv, ClaimedOnce
<1>5. HardInv' /\ GenerationsSpent'
  BY <1>1 DEF Core, HardInv, GenerationsSpent, gen, Conns
<1> QED
  BY <1>3, <1>4, <1>5 DEF Core

LEMMA HardCloseStep ==
  ASSUME TypeOK, Core, NEW t \in Threads, HardClose(t) PROVE Core'
<1>1. /\ pc \in [Threads -> PCs] /\ pc[t] = "hardclose"
      /\ UNCHANGED <<conn, cgen, evicted, judged, tg, tc>>
      /\ hard' = hard \cup {tc[t]}
      /\ \A u \in Threads : u # t => pc'[u] = pc[u]
      /\ pc'[t] \in {"unlock", "leave"}
  BY DEF TypeOK, HardClose, Goto, locals
<1>2. \A u \in Threads : Claims(u)' => Claims(u) /\ u # t
  BY <1>1 DEF Claims
<1>3. Claims(t)
  BY <1>1 DEF Claims
<1>4. RefInv'
  BY <1>1 DEF Core, RefInv
<1>5. IdInv'
  BY <1>1, <1>3 DEF Core, ClaimInv, IdInv
<1>6. ClaimInv'
  BY <1>1, <1>2, <1>3 DEF Core, ClaimInv, ClaimedOnce
<1>7. HardInv' /\ GenerationsSpent'
  BY <1>1, <1>3 DEF Core, RefInv, ClaimInv, HardInv, GenerationsSpent, gen, Conns
<1> QED
  BY <1>4, <1>5, <1>6, <1>7 DEF Core

(* The slot moves on for the connection t has claimed, or finds that it    *)
(* has been moved on already.                                              *)
LEMMA AdvanceStep ==
  ASSUME TypeOK, Core, NEW t \in Threads, RetireAdvance(t) PROVE Core'
<1>1. /\ pc \in [Threads -> PCs] /\ pc[t] = "advance"
      /\ UNCHANGED <<cgen, hard, judged, tg, tc>>
      /\ \A u \in Threads : u # t => pc'[u] = pc[u]
      /\ pc'[t] = IF t \in Sweepers THEN "arm" ELSE "hardclose"
  BY DEF TypeOK, RetireAdvance, Goto, locals
<1>2. /\ conn \in Seq(Nat) /\ cgen \in Seq(Nat) /\ Len(conn) \in Nat /\ Len(cgen) \in Nat
      /\ tg[t] \in 1 .. Len(conn) /\ tc[t] \in 0 .. Len(cgen)
  BY DEF TypeOK, Core, RefInv
<1>3. Claims(t) /\ \A u \in Threads : Claims(u)' => Claims(u)
  BY <1>1 DEF Claims
<1>4. /\ tc[t] \in 1 .. Len(cgen) /\ cgen[tc[t]] = tg[t]
  BY <1>2, <1>3 DEF Core, ClaimInv
<1>5. /\ Len(conn') = IF Len(conn) = tg[t] THEN Len(conn) + 1 ELSE Len(conn)
      /\ \A h \in 1 .. Len(conn') : conn'[h] # 0 =>
           h \in 1 .. Len(conn) /\ conn'[h] = conn[h] /\ conn[h] \notin evicted'
  <2>1. CASE Len(conn) = tg[t]
    <3> DEFINE f == newGen(conn)
               C == Usable(gen) \ Busy
    <3>1. /\ f \in Seq(Nat) /\ Len(f) = Len(conn) + 1 /\ f[Len(conn) + 1] = 0
          /\ \A h \in 1 .. Len(conn) : f[h] = conn[h]
      BY <1>2, AppendFacts DEF newGen
    <3>2. conn' = retireGeneration(f, Len(conn), C) /\ evicted' = evicted \cup C
      BY <2>1 DEF RetireAdvance, CloseIdleConnections, gen
    <3>3. \A c \in C : cgen[c] = Len(conn)
      BY DEF Usable, gen
    <3> HIDE DEF f, C
    <3>4. Len(conn) \in 1 .. Len(f)
      BY <1>2, <2>1, <3>1
    <3>5. Retired(f, Len(conn), C, conn')
      BY <3>1, <3>2, <3>4, RetireGenerationFacts, Zenon
    <3>6. /\ Len(conn') \in {Len(f), Len(f) + 1}
          /\ \A h \in 1 .. Len(f) : conn'[h] = IF h = Len(conn) /\ f[Len(conn)] \in C THEN 0 ELSE f[h]
          /\ Len(conn') = Len(f) + 1 => Len(conn) = Len(f)
      BY <3>5 DEF Retired
    <3>7. Len(conn') = Len(conn) + 1
      BY <1>2, <3>1, <3>6
    <3>8. ASSUME NEW h \in 1 .. Len(conn'), conn'[h] # 0
          PROVE  h \in 1 .. Len(conn) /\ conn'[h] = conn[h] /\ conn[h] \notin evicted'
      <4>1. h \in 1 .. Len(conn) /\ conn'[h] = conn[h] /\ ~(h = Len(conn) /\ conn[Len(conn)] \in C)
        BY SMTT(30), <1>2, <3>1, <3>4, <3>6, <3>7, <3>8
      <4>2. conn[h] \notin evicted /\ cgen[conn[h]] = h
        BY <3>8, <4>1 DEF Core, IdInv
      <4> QED
        BY <3>2, <3>3, <4>1, <4>2
    <3> QED
      BY <2>1, <3>7, <3>8
  <2>2. CASE Len(conn) # tg[t]
    BY SMTT(30), <1>2, <2>2 DEF RetireAdvance, gen, Core, IdInv
  <2> QED
    BY <2>1, <2>2
<1>6. Len(conn') \in Nat /\ Len(conn') >= Len(conn) /\ tg[t] < Len(conn')
  BY <1>2, <1>5
<1>7. RefInv'
  BY SMTT(30), <1>1, <1>2, <1>6 DEF Core, RefInv
<1>8. IdInv'
  BY <1>1, <1>5 DEF Core, IdInv
<1>9. ClaimInv'
  <2>1. ClaimedOnce'
    BY <1>1, <1>3 DEF Core, ClaimInv, ClaimedOnce
  <2>2. ASSUME NEW u \in Threads, Claims(u)'
        PROVE  /\ tc[u] # 0 /\ cgen[tc[u]] = tg[u] /\ tc[u] \notin hard
               /\ \A h \in 1 .. Len(conn') : conn'[h] # tc[u]
               /\ u \notin Sweepers => tc[u] \in judged
               /\ pc'[u] = "hardclose" => tg[u] < Len(conn') /\ u \notin Sweepers
    <3>1. /\ tc[u] # 0 /\ cgen[tc[u]] = tg[u] /\ tc[u] \notin hard
          /\ \A h \in 1 .. Len(conn) : conn[h] # tc[u]
          /\ u \notin Sweepers => tc[u] \in judged
          /\ pc[u] = "hardclose" => tg[u] < Len(conn) /\ u \notin Sweepers
          /\ tg[u] \in 1 .. Len(conn)
      BY <1>3, <2>2 DEF Core, ClaimInv, RefInv
    <3>2. \A h \in 1 .. Len(conn') : conn'[h] # tc[u]
      BY <1>5, <3>1
    <3>3. pc'[u] = "hardclose" => tg[u] < Len(conn') /\ u \notin Sweepers
      BY <1>1, <1>2, <1>6, <3>1
    <3> QED
      BY <3>1, <3>2, <3>3
  <2> QED
    BY <1>1, <2>1, <2>2 DEF ClaimInv
<1>10. HardInv'
  BY <1>1, <1>2, <1>6 DEF Core, HardInv, RefInv
<1>11. GenerationsSpent'
  <2>1. \A h \in 1 .. Len(conn) - 1 : \E c \in 1 .. Len(cgen) : cgen[c] = h
    BY DEF Core, GenerationsSpent, gen, Conns
  <2>2. ASSUME NEW h \in 1 .. Len(conn') - 1 PROVE \E c \in 1 .. Len(cgen) : cgen[c] = h
    <3> h \in Nat
      BY <1>6
    <3>1. CASE h < Len(conn)
      <4>1. h \in 1 .. Len(conn) - 1
        BY <1>2, <3>1
      <4> QED
        BY <2>1, <4>1, Zenon
    <3>2. CASE h >= Len(conn)
      <4>1. h = tg[t]
        BY <1>2, <1>5, <3>2
      <4> QED
        BY <1>4, <4>1
    <3> QED
      BY <1>2, <1>6, <3>1, <3>2
  <2> QED
    BY <1>1, <2>2 DEF GenerationsSpent, gen, Conns
<1> QED
  BY <1>7, <1>8, <1>9, <1>10, <1>11 DEF Core

(* A dial adds a connection to its generation, current or not.             *)
LEMMA SwapStep ==
  ASSUME TypeOK, Core, NEW d \in Threads, DialSwap(d) PROVE Core'
<1>1. /\ pc \in [Threads -> PCs] /\ tg \in [Threads -> Nat] /\ tc \in [Threads -> Nat]
      /\ conn \in Seq(Nat) /\ cgen \in Seq(Nat)
      /\ tg[d] \in 1 .. Len(conn)
  BY DEF TypeOK, Core, RefInv
<1>2. /\ UNCHANGED <<evicted, hard, judged>>
      /\ \A u \in Threads : u # d => pc'[u] = pc[u] /\ tg'[u] = tg[u] /\ tc'[u] = tc[u]
      /\ pc'[d] = "idle" /\ tg'[d] = 1 /\ tc'[d] = 0
  BY <1>1 DEF DialSwap, Hold, Goto
<1>3. /\ Len(conn') = Len(conn)
      /\ \A h \in 1 .. Len(conn) : conn'[h] = IF h = tg[d] THEN Len(cgen) + 1 ELSE conn[h]
  BY <1>1 DEF DialSwap
<1>4. /\ Len(cgen') = Len(cgen) + 1 /\ cgen'[Len(cgen) + 1] = tg[d]
      /\ \A c \in 1 .. Len(cgen) : cgen'[c] = cgen[c]
  BY <1>1, AppendFacts DEF DialSwap
<1>5. \A u \in Threads : Claims(u)' => Claims(u) /\ u # d
  BY <1>2 DEF Claims
<1>6. /\ Len(conn) \in Nat /\ Len(cgen) \in Nat /\ tg[d] \in 1 .. Len(conn)
      /\ evicted \subseteq 1 .. Len(cgen) /\ hard \subseteq 1 .. Len(cgen)
  BY <1>1 DEF TypeOK, Conns
<1>11. RefInv'
  <2>1. \A u \in Threads : tg'[u] \in 1 .. Len(conn') /\ tc'[u] \in 0 .. Len(cgen')
    BY <1>2, <1>3, <1>4, <1>6 DEF Core, RefInv
  <2>2. \A c \in 1 .. Len(cgen') : cgen'[c] \in 1 .. Len(conn')
    BY <1>3, <1>4, <1>6 DEF Core, RefInv
  <2> QED
    BY <2>1, <2>2 DEF RefInv
<1>7. IdInv'
  <2> SUFFICES ASSUME NEW h \in 1 .. Len(conn'), conn'[h] # 0
               PROVE  /\ conn'[h] \in 1 .. Len(cgen') /\ cgen'[conn'[h]] = h
                      /\ conn'[h] \notin evicted' /\ conn'[h] \notin hard'
    BY DEF IdInv
  <2>1. CASE h = tg[d]
    BY <1>2, <1>3, <1>4, <1>6, <2>1
  <2>2. CASE h # tg[d]
    <3>1. conn'[h] = conn[h] /\ h \in 1 .. Len(conn)
      BY <1>3, <2>2
    <3>2. /\ conn[h] \in 1 .. Len(cgen) /\ cgen[conn[h]] = h
          /\ conn[h] \notin evicted /\ conn[h] \notin hard
      BY <3>1 DEF Core, IdInv
    <3> QED
      BY <1>2, <1>4, <1>6, <3>1, <3>2
  <2> QED
    BY <2>1, <2>2
<1>8. ClaimInv'
  <2>1. ClaimedOnce'
    BY <1>2, <1>5 DEF Core, ClaimInv, ClaimedOnce
  <2>2. ASSUME NEW u \in Threads, Claims(u)'
        PROVE  /\ tc'[u] # 0 /\ cgen'[tc'[u]] = tg'[u] /\ tc'[u] \notin hard'
               /\ \A h \in 1 .. Len(conn') : conn'[h] # tc'[u]
               /\ u \notin Sweepers => tc'[u] \in judged'
               /\ pc'[u] = "hardclose" => tg'[u] < Len(conn') /\ u \notin Sweepers
    <3>1. /\ tc[u] \in 1 .. Len(cgen) /\ cgen[tc[u]] = tg[u] /\ tc[u] \notin hard
          /\ \A h \in 1 .. Len(conn) : conn[h] # tc[u]
          /\ u \notin Sweepers => tc[u] \in judged
          /\ pc[u] = "hardclose" => tg[u] < Len(conn) /\ u \notin Sweepers
          /\ u # d
      BY <1>5, <1>6, <2>2 DEF Core, ClaimInv, RefInv
    <3>2. /\ tc'[u] # 0 /\ cgen'[tc'[u]] = tg'[u] /\ tc'[u] \notin hard'
          /\ \A h \in 1 .. Len(conn') : conn'[h] # tc'[u]
          /\ u \notin Sweepers => tc'[u] \in judged'
          /\ pc'[u] = "hardclose" => tg'[u] < Len(conn') /\ u \notin Sweepers
      <4>1. \A h \in 1 .. Len(conn') : conn'[h] # tc[u]
        BY <1>3, <1>6, <3>1
      <4>2. cgen'[tc[u]] = tg[u]
        BY <1>4, <3>1
      <4> QED
        BY <1>2, <1>3, <3>1, <4>1, <4>2
    <3> QED
      BY <3>2
  <2> QED
    BY <2>1, <2>2 DEF ClaimInv
<1>9. HardInv'
  BY <1>2, <1>3, <1>4, <1>6 DEF Core, HardInv
<1>10. GenerationsSpent'
  <2> SUFFICES ASSUME NEW h \in 1 .. Len(conn) - 1
               PROVE  \E c \in 1 .. Len(cgen') : cgen'[c] = h
    BY <1>3 DEF GenerationsSpent, gen, Conns
  <2>1. PICK c \in 1 .. Len(cgen) : cgen[c] = h
    BY DEF Core, GenerationsSpent, gen, Conns
  <2> QED
    BY <1>4, <1>6, <2>1
<1> QED
  BY <1>11, <1>7, <1>8, <1>9, <1>10 DEF Core

(* A step that touches neither connections nor threads.                    *)
LEMMA StillStep ==
  ASSUME Core, UNCHANGED <<conn, cgen, evicted, hard, judged, pc, tg, tc>>
  PROVE  Core'
<1>1. RefInv' /\ IdInv'
  BY DEF Core, RefInv, IdInv
<1>2. ClaimInv'
  BY DEF Core, ClaimInv, ClaimedOnce, Claims
<1>3. HardInv' /\ GenerationsSpent'
  BY DEF Core, HardInv, GenerationsSpent, gen, Conns
<1> QED
  BY <1>1, <1>2, <1>3 DEF Core

(* A thread goes on to l, which is no claim, with or without a new         *)
(* generation and connection in hand.                                      *)
LEMMA QuietGoto ==
  ASSUME TypeOK, Core, NEW t \in Threads, NEW l \in PCs \ {"reset", "advance", "hardclose"},
         UNCHANGED <<conn, cgen, evicted, hard, judged, tg, tc>>, Goto(t, l)
  PROVE  Core'
<1>1. /\ \A u \in Threads : u # t => pc'[u] = pc[u] /\ tg'[u] = tg[u] /\ tc'[u] = tc[u]
      /\ pc'[t] = l
  BY DEF TypeOK, Goto
<1>2. ~Claims(t)'
  BY <1>1 DEF Claims
<1>3. tg'[t] \in 1 .. Len(conn) /\ tc'[t] \in 0 .. Len(cgen)
  BY DEF Core, RefInv
<1> QED
  BY <1>1, <1>2, <1>3, QuietStep

LEMMA QuietHold ==
  ASSUME TypeOK, Core, NEW t \in Threads, NEW l \in PCs \ {"reset", "advance", "hardclose"},
         NEW g \in 1 .. Len(conn), NEW c \in 0 .. Len(cgen),
         UNCHANGED <<conn, cgen, evicted, hard, judged>>, Goto(t, l), Hold(t, g, c)
  PROVE  Core'
<1>1. /\ \A u \in Threads : u # t => pc'[u] = pc[u] /\ tg'[u] = tg[u] /\ tc'[u] = tc[u]
      /\ pc'[t] = l /\ tg'[t] = g /\ tc'[t] = c
  BY DEF TypeOK, Goto, Hold
<1>2. ~Claims(t)'
  BY <1>1 DEF Claims
<1>3. tg'[t] \in 1 .. Len(conn) /\ tc'[t] \in 0 .. Len(cgen)
  BY <1>1
<1> QED
  BY <1>1, <1>2, <1>3, QuietStep

-----------------------------------------------------------------------------
(* Generations exist: there is always a current one.                       *)
LEMMA Bounds ==
  ASSUME TypeOK, Core, NEW t \in Threads
  PROVE  /\ Len(conn) \in Nat /\ Len(cgen) \in Nat
         /\ 1 \in 1 .. Len(conn) /\ gen \in 1 .. Len(conn) /\ 0 \in 0 .. Len(cgen)
         /\ tg[t] \in 1 .. Len(conn) /\ tc[t] \in 0 .. Len(cgen)
         /\ conn[gen] \in 0 .. Len(cgen) /\ conn[tg[t]] \in 0 .. Len(cgen)
<1>1. conn \in Seq(Nat) /\ cgen \in Seq(Nat)
  BY DEF TypeOK
<1>2. Len(conn) \in Nat /\ Len(cgen) \in Nat /\ tg[t] \in 1 .. Len(conn) /\ tc[t] \in 0 .. Len(cgen)
  BY <1>1 DEF Core, RefInv
<1>3. 1 \in 1 .. Len(conn) /\ gen \in 1 .. Len(conn) /\ 0 \in 0 .. Len(cgen)
  BY <1>2 DEF gen
<1>4. \A h \in 1 .. Len(conn) : conn[h] \in 0 .. Len(cgen)
  BY <1>2 DEF Core, IdInv
<1> QED
  BY <1>2, <1>3, <1>4

LEMMA CoreStream ==
  ASSUME TypeOK, Core, NEW s \in Streams, StreamStep(s) PROVE Core'
<1>0. s \in Threads /\ s \notin Sweepers
  BY ThreadsAssumption DEF Threads
<1> DEFINE L == PCs \ {"reset", "advance", "hardclose"}
<1>1. CASE Grow(s)
  <2>1. "grown" \in L
    BY DEF PCs
  <2> QED
    BY <1>0, <1>1, <2>1, QuietGoto DEF Grow, connVars, locals
<1>2. CASE Pick(s)
  <2>1. "gate" \in L
    BY DEF PCs
  <2> QED
    BY <1>0, <1>2, <2>1, QuietGoto DEF Pick, connVars, locals
<1>3. CASE Gate(s)
  <2>1. (IF reverify THEN "lock" ELSE "submit") \in L
    BY DEF PCs
  <2> QED
    BY <1>0, <1>3, <2>1, QuietGoto DEF Gate, connVars, locals
<1>4. CASE reverifySlot(s)
  <2>1. "submit" \in L /\ "leave" \in L /\ "probing" \in L
    BY DEF PCs
  <2>2. UNCHANGED <<conn, cgen, evicted, hard, judged>>
    BY <1>4 DEF reverifySlot, connVars
  <2>3. \/ Goto(s, "submit") /\ UNCHANGED <<tg, tc>>
        \/ Goto(s, "leave") /\ UNCHANGED <<tg, tc>>
        \/ Goto(s, "probing") /\ Hold(s, gen, conn[gen])
    BY <1>4 DEF reverifySlot, locals
  <2>4. gen \in 1 .. Len(conn) /\ conn[gen] \in 0 .. Len(cgen)
    BY <1>0, Bounds
  <2> HIDE DEF L
  <2>5. CASE Goto(s, "submit") /\ UNCHANGED <<tg, tc>>
    BY <1>0, <2>1, <2>2, <2>5, QuietGoto DEF L
  <2>6. CASE Goto(s, "leave") /\ UNCHANGED <<tg, tc>>
    BY <1>0, <2>1, <2>2, <2>6, QuietGoto DEF L
  <2>7. CASE Goto(s, "probing") /\ Hold(s, gen, conn[gen])
    BY <1>0, <2>1, <2>2, <2>4, <2>7, QuietHold DEF L
  <2> QED
    BY <2>3, <2>5, <2>6, <2>7
<1>5. CASE ProbeAlive(s)
  <2>1. "unlock" \in L
    BY DEF PCs
  <2> QED
    BY <1>0, <1>5, <2>1, QuietGoto DEF ProbeAlive, connVars, locals
<1>6. CASE ProbeDead(s) \/ InvalidateConn(s)
  <2>1. /\ ~Claims(s) /\ judged' = judged \cup ({tc[s]} \ {0})
        /\ UNCHANGED <<cgen, evicted, hard>>
        /\ retireConn(s, tg[s], tc[s], "hardclose", IF s \in holder THEN "unlock" ELSE "leave")
    BY <1>6 DEF ProbeDead, InvalidateConn, invalidateConnIf, Claims
  <2>2. tg[s] \in 1 .. Len(conn) /\ tc[s] \in 0 .. Len(cgen)
    BY <1>0, Bounds
  <2>3. judged \subseteq judged' /\ tc[s] \in judged' \cup {0}
    BY <2>1
  <2> DEFINE missed == IF s \in holder THEN "unlock" ELSE "leave"
  <2>4. /\ "hardclose" \in PCs /\ missed \in PCs
        /\ missed \notin {"reset", "advance", "hardclose"}
        /\ "hardclose" \notin {"reset", "advance"}
    BY DEF PCs
  <2>5. retireConn(s, tg[s], tc[s], "hardclose", missed)
    BY <2>1
  <2> HIDE DEF missed
  <2> QED
    BY <1>0, <2>1, <2>2, <2>3, <2>4, <2>5, ClaimStep
<1>7. CASE Unlock(s)
  <2>1. "submit" \in L
    BY DEF PCs
  <2> QED
    BY <1>0, <1>7, <2>1, QuietGoto DEF Unlock, connVars, locals
<1>8. CASE Submit(s)
  <2>1. "roundtrip" \in L
    BY DEF PCs
  <2>2. gen \in 1 .. Len(conn) /\ 0 \in 0 .. Len(cgen)
    BY <1>0, Bounds
  <2> QED
    BY <1>0, <1>8, <2>1, <2>2, QuietHold DEF Submit, connVars
<1>9. CASE noteConn(s)
  <2>1. PICK c \in Conns : tc' = [tc EXCEPT ![s] = c]
    BY Zenon, <1>9 DEF noteConn, Usable
  <2>2. /\ UNCHANGED <<conn, cgen, evicted, hard, judged, tg>>
        /\ \A u \in Threads : u # s => pc'[u] = pc[u] /\ tc'[u] = tc[u]
        /\ pc'[s] = "inflight" /\ tc'[s] = c
    BY <1>0, <1>9, <2>1 DEF noteConn, Goto, connVars, TypeOK
  <2>3. ~Claims(s)'
    BY <2>2 DEF Claims
  <2>4. tg'[s] \in 1 .. Len(conn) /\ tc'[s] \in 0 .. Len(cgen)
    BY <1>0, <2>2, Bounds DEF Conns
  <2> QED
    BY <1>0, <2>2, <2>3, <2>4, QuietStep
<1>10. CASE Transfer(s)
  BY <1>10, StillStep DEF Transfer, connVars, locals
<1>11. CASE CloseStream(s)
  <2>1. "idle" \in L
    BY DEF PCs
  <2>2. 1 \in 1 .. Len(conn) /\ 0 \in 0 .. Len(cgen)
    BY <1>0, Bounds
  <2> QED
    BY <1>0, <1>11, <2>1, <2>2, QuietHold DEF CloseStream, connVars
<1> QED
  BY <1>1, <1>2, <1>3, <1>4, <1>5, <1>6, <1>7, <1>8, <1>9, <1>10, <1>11 DEF StreamStep

LEMMA CoreDial ==
  ASSUME TypeOK, Core, NEW d \in Dialers, DialStep(d) PROVE Core'
<1>0. d \in Threads
  BY DEF Threads
<1> DEFINE L == PCs \ {"reset", "advance", "hardclose"}
<1>1. CASE StartDial(d)
  <2>1. "dialing" \in L
    BY DEF PCs
  <2>2. PICK s \in Streams : Hold(d, tg[s], 0)
    BY <1>1 DEF StartDial
  <2>3. tg[s] \in 1 .. Len(conn) /\ 0 \in 0 .. Len(cgen)
    BY <2>2, Bounds DEF Threads
  <2> QED
    BY <1>0, <1>1, <2>1, <2>2, <2>3, QuietHold DEF StartDial, connVars
<1>2. CASE DialFails(d)
  <2>1. "idle" \in L
    BY DEF PCs
  <2>2. 1 \in 1 .. Len(conn) /\ 0 \in 0 .. Len(cgen)
    BY <1>0, Bounds
  <2> QED
    BY <1>0, <1>2, <2>1, <2>2, QuietHold DEF DialFails, connVars
<1>3. CASE DialCheck(d)
  <2>1. (IF gen = tg[d] THEN "resetting" ELSE "swap") \in L
    BY SMTT(30) DEF PCs
  <2> QED
    BY <1>0, <1>3, <2>1, QuietGoto DEF DialCheck, connVars, locals
<1>4. CASE DialReset(d)
  <2>1. "swap" \in L
    BY DEF PCs
  <2> QED
    BY <1>0, <1>4, <2>1, QuietGoto DEF DialReset, connVars, locals
<1>5. CASE DialSwap(d)
  BY <1>0, <1>5, SwapStep
<1> QED
  BY <1>1, <1>2, <1>3, <1>4, <1>5 DEF DialStep

LEMMA CoreSweep ==
  ASSUME TypeOK, Core, NEW u \in Sweepers, SweepStep(u) PROVE Core'
<1>0. u \in Threads
  BY DEF Threads
<1> DEFINE L == PCs \ {"reset", "advance", "hardclose"}
<1>1. CASE SweepCheck(u)
  <2>1. "sweep" \in L /\ "arm" \in L
    BY DEF PCs
  <2>2. gen \in 1 .. Len(conn) /\ 0 \in 0 .. Len(cgen)
    BY <1>0, Bounds
  <2>3. UNCHANGED <<conn, cgen, evicted, hard, judged>>
    BY <1>1 DEF SweepCheck, connVars
  <2>4. CASE Hold(u, gen, 0) /\ Goto(u, "sweep")
    BY <1>0, <2>1, <2>2, <2>3, <2>4, QuietHold
  <2>5. CASE Goto(u, "arm") /\ UNCHANGED <<tg, tc>>
    BY <1>0, <2>1, <2>3, <2>5, QuietGoto
  <2> QED
    BY <1>1, <2>4, <2>5 DEF SweepCheck, locals
<1>2. CASE retireIdleConn(u)
  <2>1. /\ ~Claims(u) /\ UNCHANGED <<cgen, evicted, hard, judged>>
        /\ retireConn(u, tg[u], conn[tg[u]], "arm", "arm")
    BY <1>2 DEF retireIdleConn, Claims
  <2>2. tg[u] \in 1 .. Len(conn) /\ conn[tg[u]] \in 0 .. Len(cgen)
    BY <1>0, Bounds
  <2>3. "arm" \in PCs /\ "arm" \notin {"reset", "advance", "hardclose"}
    BY DEF PCs
  <2> QED
    BY <1>0, <2>1, <2>2, <2>3, ClaimStep
<1>3. CASE armSuspects(u)
  <2>1. "idle" \in L
    BY DEF PCs
  <2>2. 1 \in 1 .. Len(conn) /\ 0 \in 0 .. Len(cgen)
    BY <1>0, Bounds
  <2> QED
    BY <1>0, <1>3, <2>1, <2>2, QuietHold DEF armSuspects, connVars
<1> QED
  BY <1>1, <1>2, <1>3 DEF SweepStep

(* The health loop and CloseIdle close what is idle in the current pool.   *)
LEMMA ClosePoolStep ==
  ASSUME TypeOK, Core, NEW t \in Threads, NEW l \in PCs \ {"reset", "advance", "hardclose"},
         CloseIdleConnections(conn, gen), Goto(t, l),
         UNCHANGED <<cgen, hard, judged, tg, tc>>
  PROVE  Core'
<1> DEFINE C == Usable(gen) \ Busy
<1>1. gen \in 1 .. Len(conn)
  BY Bounds
<1>2. C \in SUBSET Conns /\ \A c \in C : cgen[c] = gen
  BY DEF Usable
<1>3. conn' = retireGeneration(conn, gen, C) /\ evicted' = evicted \cup C
  BY DEF CloseIdleConnections
<1>4. \A u \in Threads : Claims(u)' => Claims(u) /\ pc'[u] = pc[u]
  BY DEF TypeOK, Goto, Claims
<1> HIDE DEF C
<1> QED
  BY <1>1, <1>2, <1>3, <1>4, EvictStep

LEMMA CoreHealth ==
  ASSUME TypeOK, Core, NEW h \in Health, HealthStep(h) PROVE Core'
<1>0. h \in Threads
  BY DEF Threads
<1> DEFINE L == PCs \ {"reset", "advance", "hardclose"}
<1>1. CASE Evaluate(h)
  BY <1>1, StillStep DEF Evaluate, connVars, locals
<1>2. CASE RotateCheck(h)
  <2>1. "rotate" \in L
    BY DEF PCs
  <2> QED
    BY <1>0, <1>2, <2>1, QuietGoto DEF RotateCheck, connVars, locals
<1>3. CASE RotateClose(h)
  <2>1. "rotated" \in L
    BY DEF PCs
  <2> QED
    BY <1>0, <1>3, <2>1, ClosePoolStep DEF RotateClose, locals
<1>4. CASE RotateClear(h)
  <2>1. "idle" \in L
    BY DEF PCs
  <2> QED
    BY <1>0, <1>4, <2>1, QuietGoto DEF RotateClear, connVars, locals
<1>5. CASE RetireCheck(h)
  <2>1. "retire" \in L
    BY DEF PCs
  <2> QED
    BY <1>0, <1>5, <2>1, QuietGoto DEF RetireCheck, connVars, locals
<1> QED
  BY <1>1, <1>2, <1>3, <1>4, <1>5 DEF HealthStep

LEMMA CorePool ==
  ASSUME TypeOK, Core, NEW t \in Health \cup Closers, PoolStep(t) PROVE Core'
<1>0. t \in Threads
  BY DEF Threads
<1> DEFINE L == PCs \ {"reset", "advance", "hardclose"}
<1>1. CASE CloseIdlePool(t)
  <2>1. "remove" \in L
    BY DEF PCs
  <2> QED
    BY <1>0, <1>1, <2>1, ClosePoolStep DEF CloseIdlePool, locals
<1>2. CASE remove(t)
  <2>1. "idle" \in L
    BY DEF PCs
  <2> QED
    BY <1>0, <1>2, <2>1, QuietGoto DEF remove, connVars, locals
<1> QED
  BY <1>1, <1>2 DEF PoolStep

LEMMA RecycleStep ==
  ASSUME TypeOK, Core, Recycle PROVE Core'
<1>1. PICK c \in Conns : /\ evicted' = evicted \cup {c}
                         /\ conn' = retireGeneration(conn, cgen[c], {c})
  BY Zenon DEF Recycle
<1>2. UNCHANGED <<cgen, hard, judged, pc, tg, tc>>
  BY DEF Recycle, locals
<1>3. cgen[c] \in 1 .. Len(conn) /\ {c} \in SUBSET Conns /\ \A x \in {c} : cgen[x] = cgen[c]
  BY DEF Core, RefInv, Conns
<1>4. \A u \in Threads : Claims(u)' => Claims(u) /\ pc'[u] = pc[u]
  BY <1>2 DEF Claims
<1> QED
  BY <1>1, <1>2, <1>3, <1>4, EvictStep

(* Every step keeps the core of the invariant.                             *)
LEMMA CoreStep ==
  ASSUME TypeOK, Core, [Next]_vars PROVE Core'
<1>1. CASE \E t \in Streams \cup Sweepers : RetireStep(t)
  <2>1. PICK t \in Threads : RetireStep(t)
    BY <1>1 DEF Threads
  <2> QED
    BY <2>1, ResetStep, AdvanceStep, HardCloseStep DEF RetireStep
<1>2. CASE CloseConn
  BY <1>2, StillStep DEF CloseConn, locals
<1>3. CASE UNCHANGED vars
  BY <1>3, StillStep DEF vars, connVars, locals
<1> QED
  BY <1>1, <1>2, <1>3, CoreStream, CoreDial, CoreSweep, CoreHealth, CorePool, RecycleStep DEF Next

-----------------------------------------------------------------------------
(* Types: of the connections, of the flags, of the threads.                *)
ConnType ==
  /\ conn \in Seq(Nat) /\ cgen \in Seq(Nat)
  /\ evicted \subseteq Conns /\ closed \subseteq evicted
  /\ hard \subseteq Conns /\ judged \subseteq Conns
FlagType ==
  /\ deadline \in BOOLEAN /\ full \in BOOLEAN /\ expiring \in BOOLEAN
  /\ degraded \in BOOLEAN /\ reverify \in BOOLEAN /\ live \in BOOLEAN
  /\ holder \subseteq Streams
ThreadType ==
  /\ pc \in [Threads -> PCs]
  /\ tg \in [Threads -> Nat] /\ tc \in [Threads -> Nat]

LEMMA FlagStep ==
  ASSUME FlagType, [Next]_vars PROVE FlagType'
<1>1. ASSUME NEW t \in Streams \cup Sweepers, RetireStep(t) PROVE FlagType'
  BY Zenon, <1>1 DEF FlagType, RetireStep, RetireReset, RetireAdvance, HardClose, resetRotation,
     ClearFlags, slotVars
<1>2. ASSUME NEW s \in Streams, StreamStep(s) PROVE FlagType'
  <2>1. CASE Grow(s)
    BY Zenon, <2>1 DEF FlagType, Grow, resetRotation, ClearFlags, slotVars
  <2>2. CASE Pick(s) \/ Gate(s) \/ ProbeAlive(s) \/ Submit(s) \/ noteConn(s) \/ CloseStream(s)
    BY <2>2 DEF FlagType, Pick, Gate, ProbeAlive, Submit, noteConn, CloseStream, slotVars
  <2>3. CASE reverifySlot(s)
    BY Zenon, <2>3 DEF FlagType, reverifySlot
  <2>4. CASE ProbeDead(s) \/ InvalidateConn(s)
    BY <2>4 DEF FlagType, ProbeDead, InvalidateConn, invalidateConnIf, slotVars
  <2>5. CASE Unlock(s) \/ Transfer(s)
    BY Zenon, <2>5 DEF FlagType, Unlock, Transfer
  <2> QED
    BY <1>2, <2>1, <2>2, <2>3, <2>4, <2>5 DEF StreamStep
<1>3. ASSUME NEW d \in Dialers, DialStep(d) PROVE FlagType'
  BY Zenon, <1>3 DEF FlagType, DialStep, StartDial, DialFails, DialCheck, DialReset, DialSwap, resetConn,
     ClearFlags, slotVars
<1>4. ASSUME NEW u \in Sweepers, SweepStep(u) PROVE FlagType'
  BY Zenon, <1>4 DEF FlagType, SweepStep, SweepCheck, retireIdleConn, armSuspects, slotVars
<1>5. ASSUME NEW h \in Health, HealthStep(h) PROVE FlagType'
  BY Zenon, <1>5 DEF FlagType, HealthStep, Evaluate, RotateCheck, RotateClose, RotateClear, RetireCheck,
     slotVars
<1>6. ASSUME NEW t \in Health \cup Closers, PoolStep(t) PROVE FlagType'
  BY Zenon, <1>6 DEF FlagType, PoolStep, CloseIdlePool, remove, slotVars
<1>7. CASE Recycle \/ CloseConn \/ UNCHANGED vars
  BY Zenon, <1>7 DEF FlagType, Recycle, CloseConn, vars, slotVars
<1> QED
  BY <1>1, <1>2, <1>3, <1>4, <1>5, <1>6, <1>7 DEF Next

(* Where a step may leave its thread.                                      *)
LEMMA ThreadMove ==
  ASSUME ThreadType, NEW t \in Threads, NEW l \in PCs, Goto(t, l),
         \/ UNCHANGED <<tg, tc>>
         \/ \E g, c \in Nat : Hold(t, g, c)
  PROVE  ThreadType'
<1>1. pc' \in [Threads -> PCs]
  BY UpdateType DEF ThreadType, Goto
<1>2. tg' \in [Threads -> Nat] /\ tc' \in [Threads -> Nat]
  BY UpdateType DEF ThreadType, Hold
<1> QED
  BY <1>1, <1>2 DEF ThreadType

LEMMA ThreadStep ==
  ASSUME TypeOK, Core, [Next]_vars PROVE ThreadType'
<1>0. ThreadType /\ 1 \in Nat /\ 0 \in Nat
  BY DEF TypeOK, ThreadType
<1>p. \A l \in {"idle", "grown", "gate", "lock", "probing", "submit", "roundtrip", "inflight",
        "leave", "unlock", "reset", "advance", "hardclose",
        "dialing", "resetting", "swap", "sweep", "arm",
        "rotate", "rotated", "retire", "remove"} : l \in PCs
  BY DEF PCs
<1>n. ASSUME NEW t \in Threads
      PROVE  gen \in Nat /\ tg[t] \in Nat /\ tc[t] \in Nat /\ conn[gen] \in Nat /\ conn[tg[t]] \in Nat
  BY Bounds
<1>c. ASSUME NEW t \in Threads, NEW g \in Nat, NEW e \in Nat, NEW kept \in PCs, NEW missed \in PCs,
             retireConn(t, g, e, kept, missed)
      PROVE  ThreadType'
  <2>1. Hold(t, g, e)
    BY <1>c DEF retireConn
  <2>2. Goto(t, "reset") \/ Goto(t, kept) \/ Goto(t, missed)
    BY <1>c DEF retireConn
  <2> QED
    BY <1>0, <1>p, <2>1, <2>2, ThreadMove
<1>1. ASSUME NEW t \in Streams \cup Sweepers, RetireStep(t) PROVE ThreadType'
  <2>1. t \in Threads
    BY DEF Threads
  <2>2. /\ UNCHANGED <<tg, tc>>
        /\ \/ Goto(t, "advance") \/ Goto(t, "arm") \/ Goto(t, "hardclose")
           \/ Goto(t, "unlock") \/ Goto(t, "leave")
    BY <1>1 DEF RetireStep, RetireReset, RetireAdvance, HardClose, locals
  <2> QED
    BY <1>0, <1>p, <2>1, <2>2, ThreadMove
<1>2. ASSUME NEW s \in Streams, StreamStep(s) PROVE ThreadType'
  <2>0. s \in Threads
    BY DEF Threads
  <2>1. CASE Grow(s) \/ Pick(s) \/ Gate(s) \/ ProbeAlive(s) \/ Unlock(s)
    <3>1. /\ UNCHANGED <<tg, tc>>
          /\ \/ Goto(s, "grown") \/ Goto(s, "gate") \/ Goto(s, "lock") \/ Goto(s, "submit")
             \/ Goto(s, "unlock")
      BY <2>1 DEF Grow, Pick, Gate, ProbeAlive, Unlock, locals
    <3> QED
      BY <1>0, <1>p, <2>0, <3>1, ThreadMove
  <2>2. CASE reverifySlot(s)
    <3>1. \/ UNCHANGED <<tg, tc>> /\ (Goto(s, "submit") \/ Goto(s, "leave"))
          \/ Hold(s, gen, conn[gen]) /\ Goto(s, "probing")
      BY <2>2 DEF reverifySlot, locals
    <3>2. gen \in Nat /\ conn[gen] \in Nat
      BY <1>n, <2>0
    <3> QED
      BY <1>0, <1>p, <2>0, <3>1, <3>2, ThreadMove
  <2>3. CASE ProbeDead(s) \/ InvalidateConn(s)
    <3>1. \/ retireConn(s, tg[s], tc[s], "hardclose", "unlock")
          \/ retireConn(s, tg[s], tc[s], "hardclose", "leave")
      BY <2>3 DEF ProbeDead, InvalidateConn, invalidateConnIf
    <3> QED
      BY <1>c, <1>n, <1>p, <2>0, <3>1
  <2>4. CASE Submit(s) \/ CloseStream(s)
    <3>1. \/ Hold(s, gen, 0) /\ Goto(s, "roundtrip")
          \/ Hold(s, 1, 0) /\ Goto(s, "idle")
      BY <2>4 DEF Submit, CloseStream
    <3> QED
      BY <1>0, <1>n, <1>p, <2>0, <3>1, ThreadMove
  <2>5. CASE noteConn(s)
    <3>0. Conns \subseteq Nat
      BY <2>0, Bounds DEF Conns
    <3>1. PICK c \in Nat : tc' = [tc EXCEPT ![s] = c]
      BY Zenon, <2>5, <3>0 DEF noteConn, Usable
    <3>2. pc' \in [Threads -> PCs]
      BY <1>0, <1>p, <2>0, <2>5, UpdateType DEF ThreadType, noteConn, Goto
    <3>3. tc' \in [Threads -> Nat] /\ tg' \in [Threads -> Nat]
      BY <1>0, <2>0, <2>5, <3>1, UpdateType DEF ThreadType, noteConn
    <3> QED
      BY <3>2, <3>3 DEF ThreadType
  <2>6. CASE Transfer(s)
    BY <1>0, <2>6 DEF Transfer, ThreadType, locals
  <2> QED
    BY <1>2, <2>1, <2>2, <2>3, <2>4, <2>5, <2>6 DEF StreamStep
<1>3. ASSUME NEW d \in Dialers, DialStep(d) PROVE ThreadType'
  <2>0. d \in Threads
    BY DEF Threads
  <2>1. CASE StartDial(d)
    <3>1. PICK s \in Streams : Hold(d, tg[s], 0)
      BY <2>1 DEF StartDial
    <3>2. tg[s] \in Nat
      BY <1>n DEF Threads
    <3>3. Goto(d, "dialing")
      BY <2>1 DEF StartDial
    <3> QED
      BY <1>0, <1>p, <2>0, <3>1, <3>2, <3>3, ThreadMove
  <2>2. CASE DialFails(d) \/ DialSwap(d)
    <3>1. Hold(d, 1, 0) /\ Goto(d, "idle")
      BY <2>2 DEF DialFails, DialSwap
    <3> QED
      BY <1>0, <1>p, <2>0, <3>1, ThreadMove
  <2>3. CASE DialCheck(d) \/ DialReset(d)
    <3>1. UNCHANGED <<tg, tc>> /\ (Goto(d, "resetting") \/ Goto(d, "swap"))
      BY <2>3 DEF DialCheck, DialReset, locals
    <3> QED
      BY <1>0, <1>p, <2>0, <3>1, ThreadMove
  <2> QED
    BY <1>3, <2>1, <2>2, <2>3 DEF DialStep
<1>4. ASSUME NEW u \in Sweepers, SweepStep(u) PROVE ThreadType'
  <2>0. u \in Threads
    BY DEF Threads
  <2>1. CASE SweepCheck(u) \/ armSuspects(u)
    <3>1. \/ Hold(u, gen, 0) /\ Goto(u, "sweep")
          \/ UNCHANGED <<tg, tc>> /\ Goto(u, "arm")
          \/ Hold(u, 1, 0) /\ Goto(u, "idle")
      BY <2>1 DEF SweepCheck, armSuspects, locals
    <3> QED
      BY <1>0, <1>n, <1>p, <2>0, <3>1, ThreadMove
  <2>2. CASE retireIdleConn(u)
    <3>1. retireConn(u, tg[u], conn[tg[u]], "arm", "arm")
      BY <2>2 DEF retireIdleConn
    <3> QED
      BY <1>c, <1>n, <1>p, <2>0, <3>1
  <2> QED
    BY <1>4, <2>1, <2>2 DEF SweepStep
<1>5. ASSUME NEW h \in Health, HealthStep(h) PROVE ThreadType'
  <2>1. h \in Threads
    BY DEF Threads
  <2>2. /\ UNCHANGED <<tg, tc>>
        /\ \/ UNCHANGED pc \/ Goto(h, "rotate") \/ Goto(h, "rotated") \/ Goto(h, "idle")
           \/ Goto(h, "retire")
    BY <1>5 DEF HealthStep, Evaluate, RotateCheck, RotateClose, RotateClear, RetireCheck, locals
  <2>3. CASE UNCHANGED pc
    BY <1>0, <2>2, <2>3 DEF ThreadType
  <2> QED
    BY <1>0, <1>p, <2>1, <2>2, <2>3, ThreadMove
<1>6. ASSUME NEW t \in Health \cup Closers, PoolStep(t) PROVE ThreadType'
  <2>1. t \in Threads
    BY DEF Threads
  <2>2. UNCHANGED <<tg, tc>> /\ (Goto(t, "remove") \/ Goto(t, "idle"))
    BY <1>6 DEF PoolStep, CloseIdlePool, remove, locals
  <2> QED
    BY <1>0, <1>p, <2>1, <2>2, ThreadMove
<1>7. CASE Recycle \/ CloseConn \/ UNCHANGED vars
  BY Zenon, <1>0, <1>7 DEF ThreadType, Recycle, CloseConn, vars, locals
<1> QED
  BY <1>1, <1>2, <1>3, <1>4, <1>5, <1>6, <1>7 DEF Next

LEMMA ConnStep ==
  ASSUME TypeOK, Core, [Next]_vars PROVE ConnType'
<1>0. ConnType /\ Len(conn) \in Nat /\ Len(cgen) \in Nat
  BY DEF TypeOK, ConnType
<1>s. ASSUME UNCHANGED connVars PROVE ConnType'
  BY <1>0, <1>s DEF ConnType, connVars, Conns
<1>e. ASSUME NEW f \in Seq(Nat), NEW g \in 1 .. Len(f), NEW C \in SUBSET Conns,
             evicted' = evicted \cup C, conn' = retireGeneration(f, g, C),
             UNCHANGED <<cgen, closed, hard, judged>>
      PROVE  ConnType'
  <2>1. Retired(f, g, C, conn')
    BY <1>e, RetireGenerationFacts, Zenon
  <2>2. conn' \in Seq(Nat)
    BY <2>1 DEF Retired
  <2> QED
    BY <1>0, <1>e, <2>2 DEF ConnType, Conns
<1>p. ASSUME NEW t \in Threads, CloseIdleConnections(conn, gen),
             UNCHANGED <<cgen, closed, hard, judged>>
      PROVE  ConnType'
  <2> DEFINE C == Usable(gen) \ Busy
  <2>1. conn \in Seq(Nat) /\ gen \in 1 .. Len(conn)
    BY <1>0, Bounds DEF ConnType
  <2>2. C \in SUBSET Conns
    BY DEF Usable
  <2>3. evicted' = evicted \cup C /\ conn' = retireGeneration(conn, gen, C)
    BY <1>p DEF CloseIdleConnections
  <2> HIDE DEF C
  <2> QED
    BY <1>e, <1>p, <2>1, <2>2, <2>3
<1>c. ASSUME NEW t \in Threads, NEW g \in 1 .. Len(conn), NEW e \in Nat, NEW kept, NEW missed,
             retireConn(t, g, e, kept, missed), UNCHANGED <<cgen, evicted, closed, hard>>,
             judged' \subseteq Conns
      PROVE  ConnType'
  <2>1. conn' \in Seq(Nat)
    <3>1. conn' = conn \/ conn' = [conn EXCEPT ![g] = 0]
      BY <1>c DEF retireConn
    <3>2. [conn EXCEPT ![g] = 0] \in Seq(Nat)
      BY <1>0, UpdateSeq DEF ConnType
    <3> QED
      BY Zenon, <1>0, <3>1, <3>2 DEF ConnType
  <2> QED
    BY <1>0, <1>c, <2>1 DEF ConnType, Conns
<1>1. ASSUME NEW t \in Streams \cup Sweepers, RetireStep(t) PROVE ConnType'
  <2>0. t \in Threads
    BY DEF Threads
  <2>1. CASE RetireReset(t)
    BY <1>s, <2>1 DEF RetireReset
  <2>2. CASE RetireAdvance(t) /\ gen = tg[t]
    <3> DEFINE C == Usable(gen) \ Busy
    <3>1. newGen(conn) \in Seq(Nat) /\ gen \in 1 .. Len(newGen(conn))
      <4>1. conn \in Seq(Nat) /\ gen \in 1 .. Len(conn)
        BY <1>0, <2>0, Bounds DEF ConnType
      <4> QED
        BY <1>0, <4>1, AppendFacts DEF newGen
    <3>2. C \in SUBSET Conns
      BY DEF Usable
    <3>3. /\ evicted' = evicted \cup C /\ conn' = retireGeneration(newGen(conn), gen, C)
          /\ UNCHANGED <<cgen, closed, hard, judged>>
      BY SMTT(30), <2>2 DEF RetireAdvance, CloseIdleConnections
    <3> HIDE DEF C
    <3> QED
      BY <1>e, <3>1, <3>2, <3>3
  <2>3. CASE RetireAdvance(t) /\ gen # tg[t]
    BY <1>s, <2>3 DEF RetireAdvance, connVars
  <2>4. CASE HardClose(t)
    <3>1. tc[t] \in Conns
      BY <1>0, <2>0, <2>4 DEF HardClose, Core, ClaimInv, Claims, RefInv, Conns
    <3> QED
      BY <1>0, <2>4, <3>1 DEF HardClose, ConnType, Conns
  <2> QED
    BY <1>1, <2>1, <2>2, <2>3, <2>4 DEF RetireStep
<1>2. ASSUME NEW s \in Streams, StreamStep(s) PROVE ConnType'
  <2>1. CASE ProbeDead(s) \/ InvalidateConn(s)
    <3>0. s \in Threads
      BY DEF Threads
    <3>1. tg[s] \in 1 .. Len(conn) /\ tc[s] \in Nat /\ {tc[s]} \ {0} \subseteq Conns
      BY SMTT(30), <3>0, Bounds DEF Conns
    <3>2. /\ UNCHANGED <<cgen, evicted, closed, hard>> /\ judged' = judged \cup ({tc[s]} \ {0})
          /\ retireConn(s, tg[s], tc[s], "hardclose", IF s \in holder THEN "unlock" ELSE "leave")
      BY <2>1 DEF ProbeDead, InvalidateConn, invalidateConnIf
    <3>3. judged' \subseteq Conns
      BY SMTT(30), <1>0, <3>1, <3>2 DEF ConnType
    <3> QED
      BY <1>c, <3>0, <3>1, <3>2, <3>3
  <2>2. CASE ~(ProbeDead(s) \/ InvalidateConn(s))
    BY <1>2, <1>s, <2>2 DEF StreamStep, Grow, Pick, Gate, reverifySlot, ProbeAlive, Unlock, Submit,
       noteConn, Transfer, CloseStream
  <2> QED
    BY <2>1, <2>2
<1>3. ASSUME NEW d \in Dialers, DialStep(d) PROVE ConnType'
  <2>1. CASE DialSwap(d)
    <3>1. tg[d] \in Nat /\ tg[d] \in 1 .. Len(conn)
      BY SMTT(30), Bounds DEF Threads
    <3>2. cgen' \in Seq(Nat) /\ Len(cgen') = Len(cgen) + 1
      BY <1>0, <2>1, <3>1, AppendFacts DEF DialSwap, ConnType
    <3>3. conn' \in Seq(Nat)
      <4>1. Len(cgen) + 1 \in Nat
        BY <1>0
      <4> QED
        BY <1>0, <2>1, <3>1, <4>1, UpdateSeq DEF DialSwap, ConnType
    <3>4. Conns \subseteq Conns'
      BY SMTT(30), <1>0, <3>2 DEF Conns
    <3> QED
      BY <1>0, <2>1, <3>2, <3>3, <3>4 DEF DialSwap, ConnType
  <2>2. CASE ~DialSwap(d)
    BY <1>3, <1>s, <2>2 DEF DialStep, StartDial, DialFails, DialCheck, DialReset
  <2> QED
    BY <2>1, <2>2
<1>4. ASSUME NEW u \in Sweepers, SweepStep(u) PROVE ConnType'
  <2>1. CASE retireIdleConn(u)
    <3>0. u \in Threads
      BY DEF Threads
    <3>1. tg[u] \in 1 .. Len(conn) /\ conn[tg[u]] \in Nat
      BY SMTT(30), <3>0, Bounds
    <3>2. /\ UNCHANGED <<cgen, evicted, closed, hard>> /\ judged' = judged
          /\ retireConn(u, tg[u], conn[tg[u]], "arm", "arm")
      BY <2>1 DEF retireIdleConn
    <3>3. judged' \subseteq Conns
      BY <1>0, <3>2 DEF ConnType
    <3> QED
      BY <1>c, <3>0, <3>1, <3>2, <3>3
  <2>2. CASE ~retireIdleConn(u)
    BY <1>4, <1>s, <2>2 DEF SweepStep, SweepCheck, armSuspects
  <2> QED
    BY <2>1, <2>2
<1>5. ASSUME NEW h \in Health, HealthStep(h) PROVE ConnType'
  <2>1. CASE RotateClose(h)
    BY <1>p, <2>1 DEF RotateClose, Threads
  <2>2. CASE ~RotateClose(h)
    BY <1>5, <1>s, <2>2 DEF HealthStep, Evaluate, RotateCheck, RotateClear, RetireCheck
  <2> QED
    BY <2>1, <2>2
<1>6. ASSUME NEW t \in Health \cup Closers, PoolStep(t) PROVE ConnType'
  <2>1. CASE CloseIdlePool(t)
    BY <1>p, <2>1 DEF CloseIdlePool, Threads
  <2>2. CASE remove(t)
    BY <1>s, <2>2 DEF remove
  <2> QED
    BY <1>6, <2>1, <2>2 DEF PoolStep
<1>7. CASE Recycle
  <2>1. PICK c \in Conns : /\ evicted' = evicted \cup {c}
                           /\ conn' = retireGeneration(conn, cgen[c], {c})
    BY <1>7 DEF Recycle
  <2>2. UNCHANGED <<cgen, closed, hard, judged>>
    BY <1>7 DEF Recycle
  <2>3. cgen[c] \in 1 .. Len(conn) /\ {c} \in SUBSET Conns /\ conn \in Seq(Nat)
    BY <1>0 DEF Core, RefInv, Conns, ConnType
  <2> QED
    BY <1>e, <2>1, <2>2, <2>3
<1>8. CASE CloseConn
  BY <1>0, <1>8 DEF CloseConn, ConnType, Conns
<1>9. CASE UNCHANGED vars
  BY <1>9, <1>s DEF vars
<1> QED
  BY <1>1, <1>2, <1>3, <1>4, <1>5, <1>6, <1>7, <1>8, <1>9 DEF Next

-----------------------------------------------------------------------------
LEMMA Start == Init => IInv
<1> SUFFICES ASSUME Init PROVE IInv
  OBVIOUS
<1>1. /\ conn = <<0>> /\ cgen = << >> /\ Len(conn) = 1 /\ Len(cgen) = 0 /\ conn[1] = 0
      /\ conn \in Seq(Nat) /\ cgen \in Seq(Nat)
  BY DEF Init
<1>2. TypeOK
  BY Zenon, <1>1 DEF Init, TypeOK, PCs, Conns
<1>3. \A t \in Threads : ~Claims(t) /\ tg[t] = 1 /\ tc[t] = 0
  BY DEF Init, Claims
<1>4. hard = {}
  BY DEF Init
<1>5. Core
  BY <1>1, <1>3, <1>4 DEF Core, RefInv, IdInv, ClaimInv, ClaimedOnce, HardInv, GenerationsSpent, gen, Conns
<1> QED
  BY <1>2, <1>5 DEF IInv

LEMMA Step == IInv /\ [Next]_vars => IInv'
<1> SUFFICES ASSUME TypeOK, Core, [Next]_vars PROVE TypeOK' /\ Core'
  BY DEF IInv
<1>1. FlagType
  BY DEF TypeOK, FlagType
<1>2. ConnType' /\ FlagType' /\ ThreadType'
  BY <1>1, ConnStep, FlagStep, ThreadStep
<1> QED
  BY <1>2, CoreStep DEF TypeOK, ConnType, FlagType, ThreadType

LEMMA Inductive == Spec => []IInv
  BY Start, Step, PTL DEF Spec

(* The fields of a slot keep their types whoever interleaves.              *)
THEOREM TypeCorrect == Spec => []TypeOK
<1>1. IInv => TypeOK
  BY DEF IInv
<1> QED
  BY <1>1, Inductive, PTL

(* However dials, verdicts, sweeps, rotations and pool closes interleave,  *)
(* a generation never holds a connection somebody claimed or closed.       *)
THEOREM IdentityOpenHolds == Spec => []IdentityOpen
<1>1. IInv => IdentityOpen
  <2> SUFFICES ASSUME IInv, NEW g \in DOMAIN conn, conn[g] # 0 PROVE conn[g] \in Usable(g) \ hard
    BY DEF IdentityOpen
  <2>1. g \in 1 .. Len(conn)
    BY DEF IInv, TypeOK
  <2> QED
    BY <2>1 DEF IInv, Core, IdInv, Usable, Conns
<1> QED
  BY <1>1, Inductive, PTL

(* A connection is retired and closed for at most one verdict, however     *)
(* many streams, probes and sweeps judge it at once.                       *)
THEOREM ClaimedOnceHolds == Spec => []ClaimedOnce
<1>1. IInv => ClaimedOnce
  BY DEF IInv, Core, ClaimInv
<1> QED
  BY <1>1, Inductive, PTL

(* invalidateConnIf closes only a connection somebody found dead, and only *)
(* after the slot has left its generation.                                 *)
THEOREM HardClosedRetiredHolds == Spec => []HardClosedRetired
<1>1. IInv => HardClosedRetired
  BY DEF IInv, Core, HardInv, HardClosedRetired, gen
<1> QED
  BY <1>1, Inductive, PTL

(* Every generation the slot has left had a connection of its own.         *)
THEOREM GenerationsSpentHolds == Spec => []GenerationsSpent
<1>1. IInv => GenerationsSpent
  BY DEF IInv, Core
<1> QED
  BY <1>1, Inductive, PTL

=============================================================================
