----------------------------- MODULE MCStreams -----------------------------
(***************************************************************************)
(* What client/proxy keeps open for its clients, for TLC: the three      *)
(* things done with an open stream, relaying TCP over it (StreamRelay),    *)
(* exchanging datagrams over it (UDPExchange) and sending a ping over it   *)
(* (ICMPEcho, with the server's side), and the associations of SOCKS5      *)
(* (SocksUDP).  They share no state: one of them moves, the others stay as *)
(* they began.                                                             *)
(***************************************************************************)
EXTENDS StreamRelay, Integers, FiniteSets, TLAPS

(* The inductive invariant of the relay.  While the writer runs, every     *)
(* data frame that was read is written, in the queue or in somebody's      *)
(* hands; what ends the queue comes after all of them, and the normal ends *)
(* only after the server has sent everything.                              *)
One(b) == IF b THEN 1 ELSE 0
Ended == queue # <<>> /\ queue[Len(queue)] # "DATA"
DataQueued == Len(queue) - One(Ended)

QueueInv ==
  /\ \A i \in 1 .. Len(queue) : queue[i] = "DATA" \/ (i = Len(queue) /\ ppc = "end")
  /\ ppc = "last" => connsClosed \/ (read = Down /\ End # "EOF")
  /\ wpc # "end" =>
       /\ read = written + DataQueued + One(wpc = "write") + One(ppc = "put")
       /\ ppc = "end" /\ ~Ended => read = Down
       /\ Ended /\ queue[Len(queue)] = "FIN" => read = Down

(* Each direction reports once, and a writer that has not written          *)
(* everything reports an error.  A chunk to push is one of the Up.         *)
ResultInv ==
  /\ upc = "push" => sentUp < Up
  /\ Len(errCh) + received = One(wpc = "end") + One(upc = "end")
  /\ wpc = "end" /\ written # Down => firstErr \/ \E i \in 1 .. Len(errCh) : errCh[i] = "error"
  /\ out = "ok" => received = 2 /\ ~firstErr

RelayInv == TypeOK /\ QueueInv /\ ResultInv

-----------------------------------------------------------------------------
(* TypeOK, in the two parts the provers take it in.                        *)
Places ==
  /\ End \in {"FIN", "RST", "EOF", "error"}
  /\ ppc \in {"loop", "read", "put", "last", "end"} /\ wpc \in {"take", "write", "end"}
  /\ upc \in {"read", "push", "fin", "end"} /\ out \in {"none", "ok", "error", "drained", "timeout"}
  /\ activity \in BOOLEAN /\ draining \in BOOLEAN /\ firstErr \in BOOLEAN
Counts ==
  /\ read \in 0 .. Down /\ written \in 0 .. Down /\ sentUp \in 0 .. Up
  /\ queue \in Seq(Frame) /\ Len(queue) <= remotePrefetchFrames
  /\ errCh \in Seq({"nil", "error"}) /\ Len(errCh) <= 2
  /\ since \in 0 .. idleTimeout /\ received \in 0 .. 2

(* Time limits for the leaves below.                                       *)
USE SMTT(30), ZenonT(30)

LEMMA TypeParts == (TypeOK <=> Places /\ Counts) /\ (TypeOK' <=> Places' /\ Counts')
  BY DEF TypeOK, Places, Counts

LEMMA RelayInit == Init => RelayInv
<1> SUFFICES ASSUME Init PROVE RelayInv
  OBVIOUS
<1>1. TypeOK
  <2>1. Places
    BY Zenon DEF Init, Places
  <2>2. queue = <<>> /\ errCh = <<>> /\ read = 0 /\ written = 0 /\ sentUp = 0 /\ since = 0 /\ received = 0
    BY DEF Init
  <2>4. queue \in Seq(Frame) /\ errCh \in Seq({"nil", "error"}) /\ Len(queue) = 0 /\ Len(errCh) = 0
    BY <2>2
  <2>3. Counts
    BY <2>2, <2>4, RelayAssumption DEF Counts
  <2> QED
    BY <2>1, <2>3, TypeParts
<1>2. queue = <<>> /\ Len(queue) = 0 /\ ~Ended /\ Len(errCh) = 0
  BY DEF Init, Ended
<1>3. QueueInv
  <2>1. DataQueued = 0
    BY <1>2 DEF DataQueued, One
  <2>2. ppc = "loop" /\ wpc = "take" /\ read = 0 /\ written = 0
    BY DEF Init
  <2>3. read = written + DataQueued + One(wpc = "write") + One(ppc = "put")
    BY <2>1, <2>2 DEF One
  <2>4. \A i \in 1 .. Len(queue) : FALSE
    BY <1>2
  <2> QED
    BY <1>2, <2>2, <2>3, <2>4 DEF QueueInv
<1>4. ResultInv
  BY <1>2, RelayAssumption DEF Init, ResultInv, One
<1> QED
  BY <1>1, <1>3, <1>4 DEF RelayInv

(* The reader ahead, up to what it puts into the queue.                    *)
LEMMA ReadAhead ==
  ASSUME RelayInv, PrefetchLoop \/ ReadFrame
  PROVE  RelayInv'
<1>1. /\ UNCHANGED <<End, queue, wpc, written, up, errCh, since, draining, loop>>
      /\ Ended' = Ended /\ DataQueued' = DataQueued /\ connsClosed' = connsClosed
  BY DEF PrefetchLoop, ReadFrame, writer, loop, Ended, DataQueued, connsClosed, One
<1>2. /\ ppc \in {"loop", "read"} /\ ppc' \in {"read", "put", "last", "end"}
      /\ read \in 0 .. Down /\ written \in 0 .. Down /\ DataQueued \in Int /\ activity' \in BOOLEAN
  <2>1. Places /\ Counts
    BY TypeParts DEF RelayInv
  <2>2. ppc \in {"loop", "read"} /\ ppc' \in {"read", "put", "last", "end"}
    BY DEF PrefetchLoop, ReadFrame
  <2>3. activity' \in BOOLEAN
    BY Zenon, <2>1 DEF PrefetchLoop, ReadFrame, Places
  <2>4. Len(queue) \in Nat
    BY <2>1 DEF Counts
  <2> QED
    BY <2>1, <2>2, <2>3, <2>4 DEF Counts, DataQueued, One
<1>3. \/ read' = read /\ ppc' = "read"
      \/ read' = read /\ ppc' = "end" /\ (wpc = "end" \/ read = Down)
      \/ read' = read + 1 /\ read < Down /\ ppc' = "put"
      \/ read' = read /\ ppc' = "last" /\ (connsClosed \/ (read = Down /\ End # "EOF"))
  BY DEF PrefetchLoop, ReadFrame, done
<1>4. read' \in 0 .. Down
  BY <1>2, <1>3, RelayAssumption
<1>5. TypeOK'
  <2>1. Places'
    BY <1>1, <1>2, TypeParts DEF RelayInv, Places, up, loop
  <2>2. Counts'
    BY <1>1, <1>4, TypeParts DEF RelayInv, Counts, up, loop
  <2> QED
    BY <2>1, <2>2, TypeParts
<1>6. ResultInv'
  BY <1>1 DEF RelayInv, ResultInv, up, loop
<1>7. \A i \in 1 .. Len(queue') : queue'[i] = "DATA"
  BY <1>1, <1>2 DEF RelayInv, QueueInv
<1>8. ppc' = "last" => connsClosed' \/ (read' = Down /\ End' # "EOF")
  BY <1>1, <1>3
<1>9. ASSUME wpc' # "end"
      PROVE  /\ read' = written' + DataQueued' + One(wpc' = "write") + One(ppc' = "put")
             /\ ppc' = "end" /\ ~Ended' => read' = Down
  <2>1. read = written + DataQueued + One(wpc = "write")
    BY <1>1, <1>2, <1>9 DEF RelayInv, QueueInv, One
  <2> QED
    BY <1>1, <1>2, <1>3, <1>9, <2>1 DEF One
<1>10. ~Ended'
  <2>1. queue' \in Seq(Frame)
    BY <1>5, TypeParts DEF Counts
  <2> QED
    BY <1>7, <2>1 DEF Ended
<1> QED
  BY <1>5, <1>6, <1>7, <1>8, <1>9, <1>10 DEF RelayInv, QueueInv

LEMMA PutStep ==
  ASSUME RelayInv, Put
  PROVE  RelayInv'
<1>1. /\ UNCHANGED <<End, read, wpc, written, up, errCh, activity, since, draining, loop>>
      /\ connsClosed' = connsClosed /\ ppc \in {"put", "last"} /\ ppc' \in {"loop", "end"}
  BY DEF Put, writer, loop, connsClosed
<1>2. ResultInv'
  BY <1>1 DEF RelayInv, ResultInv, up, loop
<1>3. queue \in Seq(Frame) /\ \A i \in 1 .. Len(queue) : queue[i] = "DATA"
  BY <1>1 DEF RelayInv, QueueInv, TypeOK
<1>4. ~Ended /\ DataQueued = Len(queue)
  BY <1>3 DEF Ended, DataQueued, One
<1>5. read \in 0 .. Down /\ written \in 0 .. Down /\ Len(queue) \in Nat
  BY <1>3, TypeParts DEF RelayInv, Counts
<1>6. CASE done /\ UNCHANGED queue /\ ppc' = "end"
  <2>1. TypeOK'
    <3>1. Places'
      BY <1>1, TypeParts DEF RelayInv, Places, up, loop
    <3>2. Counts'
      BY <1>1, <1>6, TypeParts DEF RelayInv, Counts, up, loop
    <3> QED
      BY <3>1, <3>2, TypeParts
  <2>2. QueueInv'
    BY <1>1, <1>3, <1>6 DEF QueueInv, done
  <2> QED
    BY <1>2, <2>1, <2>2 DEF RelayInv
<1>7. CASE ppc = "put" /\ Len(queue) < remotePrefetchFrames /\ queue' = Append(queue, "DATA") /\ ppc' = "loop"
  <2>1. "DATA" \in Frame
    BY DEF Frame
  <2>2. queue' \in Seq(Frame) /\ Len(queue') = Len(queue) + 1 /\ \A i \in 1 .. Len(queue') : queue'[i] = "DATA"
    BY <1>3, <1>7, <2>1
  <2>3. Len(queue') <= remotePrefetchFrames
    BY <1>5, <1>7, <2>2, RelayAssumption
  <2>4. TypeOK'
    <3>1. Places'
      BY <1>1, TypeParts DEF RelayInv, Places, up, loop
    <3>2. Counts'
      BY <1>1, <2>2, <2>3, TypeParts DEF RelayInv, Counts, up, loop
    <3> QED
      BY <3>1, <3>2, TypeParts
  <2>5. ~Ended' /\ DataQueued' = Len(queue) + 1
    BY <2>2 DEF Ended, DataQueued, One
  <2>6. ASSUME wpc' # "end" PROVE read' = written' + DataQueued' + One(wpc' = "write") + One(ppc' = "put")
    <3>1. read = written + Len(queue) + One(wpc = "write") + 1
      BY <1>1, <1>4, <1>7, <2>6 DEF RelayInv, QueueInv, One
    <3> QED
      BY <1>1, <1>5, <1>7, <2>5, <3>1 DEF One
  <2>7. QueueInv'
    BY <1>7, <2>2, <2>5, <2>6 DEF QueueInv
  <2> QED
    BY <1>2, <2>4, <2>7 DEF RelayInv
<1>8. CASE /\ ppc = "last" /\ Len(queue) < remotePrefetchFrames /\ ppc' = "end"
           /\ queue' = Append(queue, IF connsClosed THEN "error" ELSE End)
  <2> DEFINE f == IF connsClosed THEN "error" ELSE End
  <2>1. f \in Frame /\ f # "DATA" /\ (f = "FIN" => read = Down)
    BY <1>8 DEF RelayInv, QueueInv, TypeOK, Frame
  <2> HIDE DEF f
  <2>2. queue' = Append(queue, f)
    BY <1>8 DEF f
  <2>3. /\ queue' \in Seq(Frame) /\ Len(queue') = Len(queue) + 1 /\ queue'[Len(queue) + 1] = f
        /\ \A i \in 1 .. Len(queue) : queue'[i] = "DATA"
    BY <1>3, <2>1, <2>2
  <2>4. Len(queue') <= remotePrefetchFrames
    BY <1>5, <1>8, <2>3, RelayAssumption
  <2>5. TypeOK'
    <3>1. Places'
      BY <1>1, TypeParts DEF RelayInv, Places, up, loop
    <3>2. Counts'
      BY <1>1, <2>3, <2>4, TypeParts DEF RelayInv, Counts, up, loop
    <3> QED
      BY <3>1, <3>2, TypeParts
  <2>6. Ended' /\ DataQueued' = Len(queue)
    BY <1>5, <2>1, <2>3 DEF Ended, DataQueued, One
  <2>7. ASSUME wpc' # "end" PROVE read' = written' + DataQueued' + One(wpc' = "write") + One(ppc' = "put")
    <3>1. read = written + Len(queue) + One(wpc = "write")
      BY <1>1, <1>4, <1>5, <1>8, <2>7 DEF RelayInv, QueueInv, One
    <3> QED
      BY <1>1, <1>5, <1>8, <2>6, <3>1 DEF One
  <2>8. \A i \in 1 .. Len(queue') : queue'[i] = "DATA" \/ (i = Len(queue') /\ ppc' = "end")
    BY <1>5, <1>8, <2>3
  <2>9. queue'[Len(queue')] = "FIN" => read' = Down
    BY <1>1, <2>1, <2>3
  <2>10. QueueInv'
    BY <1>8, <2>6, <2>7, <2>8, <2>9 DEF QueueInv
  <2> QED
    BY <1>2, <2>5, <2>10 DEF RelayInv
<1> QED
  BY <1>1, <1>6, <1>7, <1>8 DEF Put

(* What a result does: it is counted, and an error among the results stays *)
(* there.                                                                  *)
LEMMA Reported ==
  ASSUME RelayInv, NEW r \in {"nil", "error"}, errCh' = Append(errCh, r), UNCHANGED <<loop, written, sentUp>>,
         \/ wpc # "end" /\ wpc' = "end" /\ UNCHANGED upc /\ (written = Down \/ r = "error")
         \/ upc # "end" /\ upc' = "end" /\ UNCHANGED wpc
  PROVE  ResultInv' /\ errCh' \in Seq({"nil", "error"}) /\ Len(errCh') <= 2
<1>1. errCh \in Seq({"nil", "error"}) /\ received \in 0 .. 2
  BY DEF RelayInv, TypeOK
<1>2. /\ Len(errCh') = Len(errCh) + 1 /\ errCh'[Len(errCh) + 1] = r /\ Len(errCh) \in Nat
      /\ \A i \in 1 .. Len(errCh) : errCh'[i] = errCh[i] /\ i \in 1 .. Len(errCh')
      /\ Len(errCh) + 1 \in 1 .. Len(errCh')
  BY <1>1
<1>3. Len(errCh') + received = One(wpc' = "end") + One(upc' = "end")
  BY <1>1, <1>2 DEF RelayInv, ResultInv, One
<1>4. Len(errCh') <= 2
  BY <1>1, <1>2, <1>3 DEF One
<1>5. wpc' = "end" /\ written # Down => firstErr \/ \E i \in 1 .. Len(errCh') : errCh'[i] = "error"
  BY <1>2 DEF RelayInv, ResultInv
<1>6. out = "ok" => received = 2 /\ ~firstErr
  BY DEF RelayInv, ResultInv
<1>7. errCh' \in Seq({"nil", "error"})
  BY <1>1
<1> QED
  <2>1. upc' = "push" => sentUp' < Up
    BY DEF RelayInv, ResultInv
  <2> QED
    BY <1>3, <1>4, <1>5, <1>6, <1>7, <2>1 DEF ResultInv, loop

LEMMA TakeStep ==
  ASSUME RelayInv, Take
  PROVE  RelayInv'
<1>1. /\ UNCHANGED <<End, ppc, read, written, up, activity, since, draining, loop>>
      /\ connsClosed' = connsClosed /\ wpc = "take" /\ queue \in Seq(Frame) /\ errCh \in Seq({"nil", "error"})
      /\ Len(queue) <= remotePrefetchFrames /\ Len(queue) \in Nat
  <2>1. queue \in Seq(Frame) /\ errCh \in Seq({"nil", "error"}) /\ Len(queue) <= remotePrefetchFrames
    BY TypeParts DEF RelayInv, Counts
  <2>2. Len(queue) \in Nat
    BY <2>1
  <2> QED
    BY <2>1, <2>2 DEF Take, loop, connsClosed
<1>2. /\ \A i \in 1 .. Len(queue) : queue[i] = "DATA" \/ (i = Len(queue) /\ ppc = "end")
      /\ ppc = "last" => connsClosed \/ (read = Down /\ End # "EOF")
      /\ read = written + DataQueued + One(ppc = "put")
      /\ ppc = "end" /\ ~Ended => read = Down
      /\ Ended /\ queue[Len(queue)] = "FIN" => read = Down
  <2>1. DataQueued \in Int /\ read \in Int /\ written \in Int
    BY <1>1, TypeParts DEF RelayInv, Counts, DataQueued, One
  <2>2. read = written + DataQueued + One(wpc = "write") + One(ppc = "put")
    BY <1>1 DEF RelayInv, QueueInv
  <2>3. read = written + DataQueued + One(ppc = "put")
    BY <1>1, <2>1, <2>2 DEF One
  <2> QED
    BY <1>1, <2>3 DEF RelayInv, QueueInv
<1>3. read \in 0 .. Down /\ written \in 0 .. Down
  BY TypeParts DEF RelayInv, Counts
<1>4. CASE queue # <<>> /\ queue' = Tail(queue) /\ Head(queue) = "DATA" /\ wpc' = "write" /\ UNCHANGED errCh
  <2>1. /\ queue' \in Seq(Frame) /\ Len(queue') = Len(queue) - 1 /\ Len(queue) >= 1 /\ queue[1] = "DATA"
        /\ \A i \in 1 .. Len(queue') : queue'[i] = queue[i + 1]
    BY <1>1, <1>4
  <2>2. TypeOK'
    <3>1. Places'
      BY <1>1, <1>4, TypeParts DEF RelayInv, Places, up, loop
    <3>2. Counts'
      BY <1>1, <1>4, <2>1, RelayAssumption, TypeParts DEF RelayInv, Counts, up, loop
    <3> QED
      BY <3>1, <3>2, TypeParts
  <2>3. ResultInv'
    BY <1>1, <1>4 DEF RelayInv, ResultInv, up, loop
  <2>4. CASE Len(queue) = 1
    <3>1. ~Ended /\ ~Ended' /\ queue' = <<>> /\ Len(queue') = 0
      BY <1>1, <2>1, <2>4 DEF Ended
    <3>2. DataQueued = 1 /\ DataQueued' = 0
      BY <2>4, <3>1 DEF DataQueued, One
    <3> QED
      BY <1>1, <1>2, <1>3, <1>4, <2>2, <2>3, <3>1, <3>2 DEF RelayInv, QueueInv, One
  <2>5. CASE Len(queue) > 1
    <3>1. queue' # <<>> /\ queue # <<>> /\ queue'[Len(queue')] = queue[Len(queue)]
      BY <1>1, <2>1, <2>5
    <3>2. Ended' = Ended /\ DataQueued' = DataQueued - 1
      BY <1>1, <2>1, <3>1 DEF Ended, DataQueued, One
    <3>3. \A i \in 1 .. Len(queue') : queue'[i] = "DATA" \/ (i = Len(queue') /\ ppc = "end")
      BY <1>1, <1>2, <2>1
    <3>4. read = written + DataQueued' + 1 + One(ppc = "put") /\ DataQueued \in Int
      BY <1>1, <1>2, <1>3, <3>2 DEF DataQueued, One
    <3>5. read' = written' + DataQueued' + One(wpc' = "write") + One(ppc' = "put")
      BY <1>1, <1>4, <3>4 DEF One
    <3> QED
      BY <1>1, <1>2, <1>4, <2>2, <2>3, <3>1, <3>2, <3>3, <3>5 DEF RelayInv, QueueInv
  <2> QED
    BY <1>1, <2>1, <2>4, <2>5
<1>5. CASE queue # <<>> /\ queue' = Tail(queue) /\ Head(queue) # "DATA"
           /\ Return(IF Head(queue) = "FIN" THEN "nil" ELSE "error")
  <2>0. Len(queue) >= 1 /\ queue[1] = Head(queue) /\ 1 \in 1 .. Len(queue) /\ queue' \in Seq(Frame)
        /\ Len(queue') = Len(queue) - 1
    BY <1>1, <1>5
  <2>1. /\ Len(queue) = 1 /\ queue[1] # "DATA" /\ ppc = "end" /\ queue[1] = Head(queue) /\ queue' = <<>>
        /\ Len(queue') = 0
    <3>1. 1 = Len(queue) /\ ppc = "end"
      BY Zenon, <1>2, <1>5, <2>0
    <3> DEFINE n == Len(queue)  m == Len(queue')
    <3>3. n = 1 /\ m = n - 1
      BY Zenon, <2>0, <3>1
    <3>4. m = 0
      <4> HIDE DEF n, m
      <4> QED
        BY <3>3
    <3>2. Len(queue') = 0
      BY <3>4
    <3> QED
      BY <1>5, <2>0, <3>1, <3>2
  <2>2. Ended /\ DataQueued = 0
    BY <1>1, <1>5, <2>1 DEF Ended, DataQueued, One
  <2>3. Head(queue) = "FIN" => written = Down
    BY <1>2, <1>3, <2>1, <2>2 DEF One
  <2> DEFINE r == IF Head(queue) = "FIN" THEN "nil" ELSE "error"
  <2>4. r \in {"nil", "error"} /\ (written = Down \/ r = "error")
    BY <2>3
  <2> HIDE DEF r
  <2>5. wpc' = "end" /\ errCh' = Append(errCh, r)
    BY <1>5 DEF Return, r
  <2>6. ResultInv' /\ errCh' \in Seq({"nil", "error"}) /\ Len(errCh') <= 2
    BY <1>1, <2>4, <2>5, Reported DEF up
  <2>9. queue' \in Seq(Frame) /\ Len(queue') <= remotePrefetchFrames
    BY <2>1, RelayAssumption
  <2>7. TypeOK'
    <3>1. Places'
      BY <1>1, <2>5, TypeParts DEF RelayInv, Places, up, loop
    <3>2. Counts'
      BY <1>1, <2>6, <2>9, TypeParts DEF RelayInv, Counts, up, loop
    <3> QED
      BY <3>1, <3>2, TypeParts
  <2>8. QueueInv'
    BY <1>1, <1>2, <2>1, <2>5 DEF QueueInv
  <2> QED
    BY <2>6, <2>7, <2>8 DEF RelayInv
<1>6. CASE queue = <<>> /\ ppc = "end" /\ Return("nil") /\ UNCHANGED queue
  <2>1. ~Ended /\ DataQueued = 0 /\ Len(queue') = 0
    BY <1>6 DEF Ended, DataQueued, One
  <2>2. written = Down
    BY <1>2, <1>3, <1>6, <2>1 DEF One
  <2>3. wpc' = "end" /\ errCh' = Append(errCh, "nil")
    BY <1>6 DEF Return
  <2>4. ResultInv' /\ errCh' \in Seq({"nil", "error"}) /\ Len(errCh') <= 2
    BY <1>1, <2>2, <2>3, Reported DEF up
  <2>5. TypeOK'
    <3>1. Places'
      BY <1>1, <2>3, TypeParts DEF RelayInv, Places, up, loop
    <3>2. Counts'
      BY <1>1, <1>6, <2>4, TypeParts DEF RelayInv, Counts, up, loop
    <3> QED
      BY <3>1, <3>2, TypeParts
  <2>6. QueueInv'
    BY <1>1, <1>2, <2>1, <2>3 DEF QueueInv
  <2> QED
    BY <2>4, <2>5, <2>6 DEF RelayInv
<1> QED
  BY <1>4, <1>5, <1>6 DEF Take

(* What the queue holds is no more than what was read.                     *)
LEMMA QueuedData == RelayInv => DataQueued \in Nat
<1> SUFFICES ASSUME RelayInv PROVE DataQueued \in Nat
  OBVIOUS
<1>1. queue \in Seq(Frame) /\ Len(queue) \in Nat
  BY TypeParts DEF RelayInv, Counts
<1>2. queue # <<>> => Len(queue) >= 1
  BY <1>1
<1> QED
  BY <1>1, <1>2 DEF DataQueued, Ended, One

LEMMA WriteStep ==
  ASSUME RelayInv, WriteLocal
  PROVE  RelayInv'
<1>1. /\ UNCHANGED <<End, ppc, read, queue, up, activity, since, draining, loop>> /\ wpc = "write"
      /\ Ended' = Ended /\ DataQueued' = DataQueued /\ connsClosed' = connsClosed
  BY DEF WriteLocal, down, loop, Ended, DataQueued, connsClosed, One
<1>2. read \in 0 .. Down /\ written \in 0 .. Down /\ DataQueued \in Nat
  BY QueuedData, TypeParts DEF RelayInv, Counts
<1>3. read = written + DataQueued + 1 + One(ppc = "put")
  BY <1>1 DEF RelayInv, QueueInv, One
<1>4. CASE written' = written + 1 /\ wpc' = "take" /\ UNCHANGED errCh
  <2>1. written' \in 0 .. Down
    BY <1>2, <1>3, <1>4, RelayAssumption DEF One
  <2>2. TypeOK'
    <3>1. Places'
      BY <1>1, <1>4, TypeParts DEF RelayInv, Places, up, loop
    <3>2. Counts'
      BY <1>1, <1>4, <2>1, TypeParts DEF RelayInv, Counts, up, loop
    <3> QED
      BY <3>1, <3>2, TypeParts
  <2>3. ResultInv'
    BY <1>1, <1>4 DEF RelayInv, ResultInv, up, loop, One
  <2>4. read' = written' + DataQueued' + One(wpc' = "write") + One(ppc' = "put")
    BY <1>1, <1>2, <1>3, <1>4 DEF One
  <2>5. QueueInv'
    BY <1>1, <1>4, <2>4 DEF RelayInv, QueueInv
  <2> QED
    BY <2>2, <2>3, <2>5 DEF RelayInv
<1>5. CASE Return("error") /\ UNCHANGED written
  <2>1. wpc' = "end" /\ errCh' = Append(errCh, "error")
    BY <1>5 DEF Return
  <2>2. ResultInv' /\ errCh' \in Seq({"nil", "error"}) /\ Len(errCh') <= 2
    BY <1>1, <1>5, <2>1, Reported DEF up
  <2>3. TypeOK'
    <3>1. Places'
      BY <1>1, <2>1, TypeParts DEF RelayInv, Places, up, loop
    <3>2. Counts'
      BY <1>1, <1>5, <2>2, TypeParts DEF RelayInv, Counts, up, loop
    <3> QED
      BY <3>1, <3>2, TypeParts
  <2>4. QueueInv'
    BY <1>1, <2>1 DEF RelayInv, QueueInv
  <2> QED
    BY <2>2, <2>3, <2>4 DEF RelayInv
<1> QED
  BY <1>4, <1>5 DEF WriteLocal

(* The steps of the other direction, the relay and the environment leave   *)
(* the queue alone.                                                        *)
LEMMA QueueStays ==
  ASSUME RelayInv, UNCHANGED <<End, ppc, read, queue, wpc, written>>, connsClosed => connsClosed'
  PROVE  QueueInv'
<1>1. Ended' = Ended /\ DataQueued' = DataQueued
  BY DEF Ended, DataQueued, One
<1> QED
  BY <1>1 DEF RelayInv, QueueInv

LEMMA UpStep ==
  ASSUME RelayInv, UploadStep
  PROVE  RelayInv'
<1>1. /\ UNCHANGED <<End, ppc, read, queue, wpc, written, since, draining, loop>>
      /\ connsClosed' = connsClosed /\ upc # "end"
  BY DEF UploadStep, ReadLocal, PushData, PushFin, down, writer, loop, connsClosed
<1>2. QueueInv'
  BY <1>1, QueueStays
<1>3. activity' \in BOOLEAN /\ upc' \in {"read", "push", "fin", "end"}
  BY Zenon, TypeParts DEF RelayInv, Places, UploadStep, ReadLocal, PushData, PushFin
<1>4. Places'
  BY <1>1, <1>3, TypeParts DEF RelayInv, Places, loop
<1>5. sentUp' \in 0 .. Up
  <2>1. sentUp \in 0 .. Up
    BY TypeParts DEF RelayInv, Counts
  <2>2. sentUp' = sentUp \/ (sentUp' = sentUp + 1 /\ sentUp < Up)
    BY DEF UploadStep, ReadLocal, PushData, PushFin, RelayInv, ResultInv
  <2> QED
    BY <2>1, <2>2, RelayAssumption
<1>6. CASE UNCHANGED errCh /\ upc' # "end" /\ (upc' = "push" => sentUp' < Up)
  <2>1. ResultInv'
    BY <1>1, <1>6 DEF RelayInv, ResultInv, loop, One
  <2>2. Counts'
    BY <1>1, <1>5, <1>6, TypeParts DEF RelayInv, Counts, loop
  <2> QED
    BY <1>2, <1>4, <2>1, <2>2, TypeParts DEF RelayInv
<1>7. CASE upc' = "end" /\ UNCHANGED sentUp /\ \E r \in {"nil", "error"} : errCh' = Append(errCh, r)
  <2>1. ResultInv' /\ errCh' \in Seq({"nil", "error"}) /\ Len(errCh') <= 2
    BY <1>1, <1>7, Reported
  <2>2. Counts'
    BY <1>1, <1>5, <2>1, TypeParts DEF RelayInv, Counts, loop
  <2> QED
    BY <1>2, <1>4, <2>1, <2>2, TypeParts DEF RelayInv
<1> QED
  BY <1>6, <1>7 DEF UploadStep, ReadLocal, PushData, PushFin

(* Taking the first of a queue.                                            *)
LEMMA FirstTaken ==
  ASSUME NEW S, NEW q \in Seq(S), q # <<>>
  PROVE  /\ Len(q) \in Nat /\ Len(q) >= 1 /\ Head(q) = q[1] /\ Tail(q) \in Seq(S)
         /\ Len(Tail(q)) = Len(q) - 1 /\ \A i \in 1 .. Len(Tail(q)) : Tail(q)[i] = q[i + 1]
  OBVIOUS

LEMMA ResultStep ==
  ASSUME RelayInv, TakeResult
  PROVE  RelayInv'
<1>1. /\ UNCHANGED <<End, ppc, read, queue, wpc, written, upc, sentUp>>
      /\ out = "none" /\ errCh # <<>> /\ errCh' = Tail(errCh) /\ received' = received + 1
      /\ since' \in {since, 0} /\ out' \in {"none", "ok", "error"}
  BY DEF TakeResult, down, writer, up
<1>0. UNCHANGED <<activity, draining>> /\ (out' = "ok" => received' = 2 /\ ~firstErr')
  BY DEF TakeResult
<1>2. firstErr' \in BOOLEAN /\ (firstErr \/ errCh[1] = "error" => firstErr')
  <2>1. firstErr \in BOOLEAN /\ firstErr' = (firstErr \/ Head(errCh) = "error") /\ errCh \in Seq({"nil", "error"})
    BY TypeParts DEF RelayInv, Places, Counts, TakeResult
  <2>2. Head(errCh) = errCh[1]
    BY <1>1, <2>1, FirstTaken, Zenon
  <2> QED
    BY <2>1, <2>2, Zenon
<1>3. /\ errCh \in Seq({"nil", "error"}) /\ received \in 0 .. 2 /\ since \in 0 .. idleTimeout
      /\ Len(errCh) \in Nat
  BY TypeParts DEF RelayInv, Counts
<1>4. /\ errCh' \in Seq({"nil", "error"}) /\ Len(errCh) >= 1 /\ Len(errCh') = Len(errCh) - 1
      /\ \A i \in 1 .. Len(errCh') : errCh'[i] = errCh[i + 1]
  BY <1>1, <1>3, FirstTaken, Zenon
<1>5. Len(errCh) + received = One(wpc = "end") + One(upc = "end")
  BY DEF RelayInv, ResultInv
<1>6. Len(errCh') + received' = One(wpc' = "end") + One(upc' = "end") /\ received' \in 0 .. 2 /\ Len(errCh') <= 2
  <2> DEFINE n == Len(errCh)  m == Len(errCh')
  <2>1. n \in Nat /\ n >= 1 /\ m = n - 1 /\ received \in 0 .. 2 /\ received' = received + 1
    BY <1>1, <1>3, <1>4
  <2>2. n + received = One(wpc' = "end") + One(upc' = "end")
    BY <1>1, <1>5
  <2> HIDE DEF n, m
  <2>3. m + received' = One(wpc' = "end") + One(upc' = "end") /\ received' \in 0 .. 2 /\ m <= 2
    BY <2>1, <2>2 DEF One
  <2> QED
    BY <2>3 DEF m
<1>7. wpc' = "end" /\ written' # Down => firstErr' \/ \E i \in 1 .. Len(errCh') : errCh'[i] = "error"
  <2> SUFFICES ASSUME wpc' = "end", written' # Down, ~firstErr'
               PROVE  \E i \in 1 .. Len(errCh') : errCh'[i] = "error"
    OBVIOUS
  <2>1. PICK i \in 1 .. Len(errCh) : errCh[i] = "error"
    BY <1>1, <1>2 DEF RelayInv, ResultInv
  <2>2. i # 1
    BY <1>2, <2>1
  <2>3. i - 1 \in 1 .. Len(errCh') /\ errCh'[i - 1] = "error"
    BY <1>3, <1>4, <2>1, <2>2
  <2> QED
    BY <2>3
<1>8. ResultInv'
  BY <1>0, <1>1, <1>6, <1>7 DEF RelayInv, ResultInv
<1>9. QueueInv'
  BY <1>1, QueueStays DEF connsClosed
<1>10. Places'
  BY <1>0, <1>1, <1>2, TypeParts DEF RelayInv, Places
<1>11. Counts'
  <2>3. since' = since \/ since' = 0
    BY DEF TakeResult
  <2>4. since \in 0 .. idleTimeout /\ 0 \in 0 .. idleTimeout
    BY <1>3, RelayAssumption
  <2>1. since' \in 0 .. idleTimeout
    BY <2>3, <2>4, Zenon
  <2>2. Counts
    BY TypeParts DEF RelayInv
  <2> QED
    BY <1>1, <1>4, <1>6, <2>1, <2>2, Zenon DEF Counts
<1> QED
  BY <1>8, <1>9, <1>10, <1>11, TypeParts DEF RelayInv

LEMMA QuietStep ==
  ASSUME RelayInv, TakeActivity \/ Drain \/ IdleTimeout \/ Tick \/ MarkSlot
  PROVE  RelayInv'
<1>1. /\ UNCHANGED <<End, ppc, read, queue, wpc, written, up, errCh, firstErr, received>>
      /\ out = "none" /\ out' \in {"none", "drained", "timeout"}
  BY DEF TakeActivity, Drain, IdleTimeout, Tick, MarkSlot, down, writer, loop
<1>2. QueueInv'
  BY <1>1, QueueStays DEF connsClosed
<1>3. ResultInv'
  BY <1>1 DEF RelayInv, ResultInv, up
<1>4. Places'
  <2>1. activity' \in BOOLEAN /\ draining' \in BOOLEAN
    BY Zenon, TypeParts DEF RelayInv, Places, TakeActivity, Drain, IdleTimeout, Tick, MarkSlot
  <2> QED
    BY <1>1, <2>1, TypeParts DEF RelayInv, Places, up
<1>5. Counts'
  <2>1. since \in 0 .. idleTimeout
    BY TypeParts DEF RelayInv, Counts
  <2>2. since' \in {since, 0} \/ (since' = since + 1 /\ since < idleTimeout)
    BY DEF TakeActivity, Drain, IdleTimeout, Tick, MarkSlot
  <2>3. since' \in 0 .. idleTimeout
    BY <2>1, <2>2, RelayAssumption
  <2> QED
    BY <1>1, <2>3, TypeParts DEF RelayInv, Counts, up
<1> QED
  BY <1>2, <1>3, <1>4, <1>5, TypeParts DEF RelayInv

LEMMA RelayNext == RelayInv /\ Next => RelayInv'
  BY ReadAhead, PutStep, TakeStep, WriteStep, UpStep, ResultStep, QuietStep
  DEF Next, PrefetchStep, RelayStep

LEMMA RelaySound == RelayInv => TypeOK /\ NormalEndComplete
<1> SUFFICES ASSUME RelayInv, out = "ok" PROVE written = Down
  BY DEF RelayInv, NormalEndComplete
<1>1. errCh \in Seq({"nil", "error"}) /\ Len(errCh) \in Nat
  BY TypeParts DEF RelayInv, Counts
<1>2. Len(errCh) + 2 = One(wpc = "end") + One(upc = "end") /\ ~firstErr
  BY DEF RelayInv, ResultInv
<1>3. wpc = "end" /\ Len(errCh) = 0
  BY <1>1, <1>2 DEF One
<1> QED
  BY <1>2, <1>3 DEF RelayInv, ResultInv

-----------------------------------------------------------------------------
CONSTANTS Senders, Closers, None, Finisher

\* The names for nobody and for the goroutine of Close are no sender's.
ASSUME ExchangeAssumption == None \notin Senders /\ Finisher \notin Senders /\ None # Finisher

VARIABLES mu, closed, once, pushed, cut, pc, cpc, fpc, lpc

xvars == <<mu, closed, once, pushed, cut, pc, cpc, fpc, lpc>>

X == INSTANCE UDPExchange

(* The inductive invariant of the exchange.  The finisher holds the mutex  *)
(* from before its FIN until after it, and who takes it later finds closed *)
(* set.                                                                    *)
ExchangeInv ==
  /\ X!TypeOK
  /\ mu = Finisher <=> fpc \in {"fin", "flush", "unlock"}
  /\ fpc = "none" <=> once = "free"
  /\ once = "free" => \A c \in Closers : cpc[c] # "select"
  /\ fpc # "none" => closed
  /\ fpc \notin {"none", "lock"} => \A s \in Senders : pc[s] # "push"
  /\ fpc \in {"none", "lock", "fin"} => \A i \in 1 .. Len(pushed) : pushed[i] # "FIN"
  /\ X!FinLast

LEMMA ExchangeInit == X!Init => ExchangeInv
<1> SUFFICES ASSUME X!Init PROVE ExchangeInv
  OBVIOUS
<1>1. X!TypeOK
  <2>1. pushed \in Seq({"DATAGRAM", "FIN"})
    BY DEF X!Init
  <2>2. pc \in [Senders -> {"idle", "lock", "check", "push", "end"}]
        /\ cpc \in [Closers -> {"idle", "wait", "select", "end"}]
    BY DEF X!Init
  <2>3. \A s \in Senders : mu = s <=> pc[s] \in {"check", "push"}
    BY ExchangeAssumption DEF X!Init
  <2> QED
    BY Zenon, <2>1, <2>2, <2>3 DEF X!Init, X!TypeOK
<1>2. X!FinLast
  BY DEF X!Init, X!FinLast
<1>3. pushed = <<>> /\ Len(pushed) = 0
  BY DEF X!Init
<1>4. /\ \A s \in Senders : pc[s] = "idle"
      /\ \A c \in Closers : cpc[c] = "idle"
  BY DEF X!Init
<1> QED
  BY <1>1, <1>2, <1>3, <1>4, ExchangeAssumption DEF X!Init, ExchangeInv

(* A step of a sender, before it pushes.                                   *)
LEMMA SenderStep ==
  ASSUME ExchangeInv, NEW s \in Senders, X!Start(s) \/ X!Lock(s) \/ X!Check(s)
  PROVE  ExchangeInv'
<1>1. /\ UNCHANGED <<closed, once, pushed, cut, cpc, fpc, lpc>>
      /\ mu \in Senders \cup {None, Finisher} /\ pc \in [Senders -> {"idle", "lock", "check", "push", "end"}]
      /\ \A t \in Senders : mu = t <=> pc[t] \in {"check", "push"}
      /\ mu = Finisher <=> fpc \in {"fin", "flush", "unlock"}
  BY DEF ExchangeInv, X!TypeOK, X!Start, X!Lock, X!Check
<1>2. PICK l \in {"lock", "check", "push", "end"} : pc' = [pc EXCEPT ![s] = l] /\
        \/ l = "lock" /\ pc[s] = "idle" /\ mu' = mu
        \/ l = "check" /\ mu = None /\ mu' = s
        \/ l = "push" /\ pc[s] = "check" /\ ~closed /\ mu' = mu
        \/ l = "end" /\ pc[s] = "check" /\ mu' = None
  BY DEF X!Start, X!Lock, X!Check, X!Goto
<1>3. pc' \in [Senders -> {"idle", "lock", "check", "push", "end"}] /\ mu' \in Senders \cup {None, Finisher}
  BY <1>1, <1>2
<1>4. pc'[s] = l /\ \A t \in Senders : t # s => pc'[t] = pc[t]
  BY <1>1, <1>2
<1>5. \A t \in Senders : mu' = t <=> pc'[t] \in {"check", "push"}
  BY <1>1, <1>2, <1>4, ExchangeAssumption
<1>6. mu' = Finisher <=> fpc' \in {"fin", "flush", "unlock"}
  BY <1>1, <1>2, ExchangeAssumption
<1>7. X!TypeOK'
  BY <1>1, <1>3, <1>5 DEF ExchangeInv, X!TypeOK
<1>8. fpc' \notin {"none", "lock"} => \A t \in Senders : pc'[t] # "push"
  BY <1>1, <1>2, <1>4 DEF ExchangeInv
<1>9. X!FinLast'
  BY <1>1 DEF ExchangeInv, X!FinLast
<1> QED
  BY <1>1, <1>6, <1>7, <1>8, <1>9 DEF ExchangeInv

(* A frame is appended behind frames none of which is a FIN.               *)
LEMMA PushedLast ==
  ASSUME pushed \in Seq({"DATAGRAM", "FIN"}), \A i \in 1 .. Len(pushed) : pushed[i] # "FIN",
         NEW f \in {"DATAGRAM", "FIN"}, pushed' = Append(pushed, f) \/ pushed' = pushed
  PROVE  /\ pushed' \in Seq({"DATAGRAM", "FIN"}) /\ X!FinLast'
         /\ f # "FIN" => \A i \in 1 .. Len(pushed') : pushed'[i] # "FIN"
  BY DEF X!FinLast

LEMMA SenderPush ==
  ASSUME ExchangeInv, NEW s \in Senders, X!Push(s)
  PROVE  ExchangeInv'
<1>1. /\ UNCHANGED <<closed, once, cut, cpc, fpc, lpc>> /\ pc[s] = "push" /\ mu' = None
      /\ pc' = [pc EXCEPT ![s] = "end"] /\ pc \in [Senders -> {"idle", "lock", "check", "push", "end"}]
      /\ \A t \in Senders : mu = t <=> pc[t] \in {"check", "push"}
      /\ mu = Finisher <=> fpc \in {"fin", "flush", "unlock"}
  BY DEF ExchangeInv, X!TypeOK, X!Push, X!Goto
<1>2. fpc \in {"none", "lock"}
  BY <1>1 DEF ExchangeInv
<1>3. /\ pushed' \in Seq({"DATAGRAM", "FIN"}) /\ X!FinLast'
      /\ \A i \in 1 .. Len(pushed') : pushed'[i] # "FIN"
  BY <1>2, PushedLast DEF ExchangeInv, X!TypeOK, X!Push
<1>4. pc' \in [Senders -> {"idle", "lock", "check", "push", "end"}] /\ pc'[s] = "end"
      /\ \A t \in Senders : t # s => pc'[t] = pc[t]
  BY <1>1
<1>5. \A t \in Senders : mu' = t <=> pc'[t] \in {"check", "push"}
  BY <1>1, <1>4, ExchangeAssumption
<1>6. X!TypeOK'
  BY <1>1, <1>3, <1>4, <1>5 DEF ExchangeInv, X!TypeOK
<1> QED
  BY <1>1, <1>2, <1>3, <1>6, ExchangeAssumption DEF ExchangeInv

LEMMA CloserStep ==
  ASSUME ExchangeInv, NEW c \in Closers, X!Close(c) \/ X!Wait(c) \/ X!Select(c)
  PROVE  ExchangeInv'
<1>1. UNCHANGED <<mu, pushed, cut, pc>> /\ cpc' \in [Closers -> {"idle", "wait", "select", "end"}]
  BY DEF ExchangeInv, X!TypeOK, X!Close, X!Wait, X!Select
<1>2. CASE X!Close(c) /\ once = "free"
  <2>1. once' = "running" /\ closed' = TRUE /\ fpc' = "lock" /\ lpc' = lpc /\ fpc = "none"
    BY <1>2 DEF X!Close, ExchangeInv
  <2>2. X!TypeOK'
    BY <1>1, <2>1 DEF ExchangeInv, X!TypeOK
  <2>3. X!FinLast'
    BY <1>1 DEF ExchangeInv, X!FinLast
  <2> QED
    BY <1>1, <2>1, <2>2, <2>3 DEF ExchangeInv
<1>3. CASE ~(X!Close(c) /\ once = "free")
  <2>1. /\ UNCHANGED <<closed, fpc>> /\ once # "free" /\ lpc' \in {lpc, "stream"}
        /\ once' = once \/ once' = "done"
    BY <1>3 DEF X!Close, X!Wait, X!Select, ExchangeInv
  <2>2. X!TypeOK'
    BY <1>1, <2>1 DEF ExchangeInv, X!TypeOK
  <2>3. X!FinLast'
    BY <1>1 DEF ExchangeInv, X!FinLast
  <2>4. once' # "free" /\ fpc' # "none"
    BY <2>1 DEF ExchangeInv
  <2> QED
    BY <1>1, <2>1, <2>2, <2>3, <2>4 DEF ExchangeInv
<1> QED
  BY <1>2, <1>3

LEMMA FinisherStep ==
  ASSUME ExchangeInv, X!FinQuick \/ X!FinSlow \/ X!FinEnd \/ X!LateClose
  PROVE  ExchangeInv'
<1>1. UNCHANGED <<closed, once, pc, cpc>> /\ pushed \in Seq({"DATAGRAM", "FIN"})
      /\ cut' \in BOOLEAN /\ lpc' \in {"none", "stream", "end"}
  BY Zenon DEF ExchangeInv, X!TypeOK, X!FinQuick, X!FinSlow, X!FinEnd, X!LateClose, X!FinLock, X!FinCut,
         X!FinPush, X!FinFlush, X!FinTxClose
<1>2. CASE X!FinLock
  <2>1. mu' = Finisher /\ fpc = "lock" /\ fpc' = "fin" /\ mu = None /\ pushed' = pushed
    BY <1>2 DEF X!FinLock
  <2>2. \A s \in Senders : pc[s] \notin {"check", "push"} /\ mu' # s
    BY <2>1, ExchangeAssumption DEF ExchangeInv, X!TypeOK
  <2>3. X!TypeOK'
    BY <1>1, <2>1, <2>2 DEF ExchangeInv, X!TypeOK
  <2>4. X!FinLast'
    BY <2>1 DEF ExchangeInv, X!FinLast
  <2> QED
    BY <1>1, <2>1, <2>2, <2>3, <2>4 DEF ExchangeInv
<1>3. CASE X!FinPush
  <2>1. mu' = mu /\ fpc = "fin" /\ fpc' = "flush" /\ cut' = cut /\ lpc' = lpc
    BY <1>3 DEF X!FinPush
  <2>2. pushed' \in Seq({"DATAGRAM", "FIN"}) /\ X!FinLast'
    BY <1>1, <1>3, <2>1, PushedLast DEF ExchangeInv, X!FinPush
  <2>3. X!TypeOK'
    BY <1>1, <2>1, <2>2 DEF ExchangeInv, X!TypeOK
  <2> QED
    BY <1>1, <2>1, <2>2, <2>3 DEF ExchangeInv
<1>4. CASE X!FinTxClose
  <2>1. mu' = None /\ fpc = "unlock" /\ fpc' = "stream" /\ mu = Finisher /\ pushed' = pushed
    BY <1>4 DEF X!FinTxClose, ExchangeInv
  <2>2. \A s \in Senders : pc[s] \notin {"check", "push"} /\ mu' # s
    BY <2>1, ExchangeAssumption DEF ExchangeInv, X!TypeOK
  <2>3. X!TypeOK'
    BY <1>1, <2>1, <2>2 DEF ExchangeInv, X!TypeOK
  <2>4. X!FinLast'
    BY <2>1 DEF ExchangeInv, X!FinLast
  <2> QED
    BY <1>1, <2>1, <2>2, <2>3, <2>4, ExchangeAssumption DEF ExchangeInv
<1>5. CASE X!FinFlush \/ X!FinCut \/ X!FinEnd \/ X!LateClose
  <2>1. /\ UNCHANGED <<mu, pushed>>
        /\ \/ fpc' = fpc
           \/ fpc = "flush" /\ fpc' = "unlock"
           \/ fpc = "stream" /\ fpc' = "closing"
           \/ fpc = "closing" /\ fpc' = "end"
    BY <1>5 DEF X!FinFlush, X!FinCut, X!FinEnd, X!LateClose
  <2>2. X!TypeOK'
    BY <1>1, <2>1 DEF ExchangeInv, X!TypeOK
  <2>3. X!FinLast'
    BY <2>1 DEF ExchangeInv, X!FinLast
  <2> QED
    BY <1>1, <2>1, <2>2, <2>3 DEF ExchangeInv
<1> QED
  BY <1>2, <1>3, <1>4, <1>5 DEF X!FinQuick, X!FinSlow

LEMMA ExchangeNext == ExchangeInv /\ X!Next => ExchangeInv'
  BY SenderStep, SenderPush, CloserStep, FinisherStep DEF X!Next, X!SendStep

-----------------------------------------------------------------------------
(***************************************************************************)
(* AssociationsOwned for any number of associations and client ports.      *)
(*                                                                         *)
(* It speaks of Close before it and after it; what is inductive is what    *)
(* happens to an association in between: from addUDPRelay on it is in the  *)
(* table, or Close has taken it, and then it is on Close's list until its  *)
(* socket is closed.                                                       *)
(***************************************************************************)

CONSTANTS Relays, Ports

\* The name for a source with another IP is none of the client's ports.
ASSUME AssociationAssumption == "stranger" \notin Ports

VARIABLES handler, watcher, control, socket, udpRelays, udpRelaysClosed, closing, toClose, peer, reply

avars == <<handler, watcher, control, socket, udpRelays, udpRelaysClosed, closing, toClose, peer, reply>>

A == INSTANCE SocksUDP

Serving == {"replying", "loop", "leaving"}

(* The table is shut exactly from Close on, and empty then. *)
TableShut ==
  /\ udpRelaysClosed = (closing # "no")
  /\ udpRelaysClosed => udpRelays = {}
  /\ closing = "closed" => toClose = {}

(* Somebody will close, or has closed, the socket of a serving request. *)
Held(r) ==
  handler[r] \in Serving =>
    r \in udpRelays \/ (closing # "no" /\ (r \in toClose \/ socket[r] = "closed"))

(* A request that has not begun or has ended holds no socket. *)
Released(r) == handler[r] \in {"none", "returned"} => socket[r] # "open"

Owned == \A r \in Relays : Held(r) /\ Released(r) /\ peer[r] # A!Stranger

AssociationInv == A!UDPTypeOK /\ TableShut /\ Owned

-----------------------------------------------------------------------------
LEMMA InitOwned == A!UDPInit => AssociationInv
<1> SUFFICES ASSUME A!UDPInit PROVE AssociationInv
  OBVIOUS
<1>1. A!UDPTypeOK
  BY Zenon DEF A!UDPInit, A!UDPTypeOK
<1>2. TableShut
  BY Zenon DEF A!UDPInit, TableShut
<1>3. Owned
  BY DEF A!UDPInit, Owned, Held, Released, Serving, A!NoPeer, A!Stranger
<1> QED  BY <1>1, <1>2, <1>3 DEF AssociationInv

(* A request that a step leaves alone keeps what it has. *)
LEMMA OthersOwned ==
  ASSUME AssociationInv, NEW q \in Relays,
         handler'[q] = handler[q], socket'[q] = socket[q], peer'[q] = peer[q],
         closing' = closing, toClose' = toClose, q \in udpRelays' <=> q \in udpRelays
  PROVE  (Held(q) /\ Released(q) /\ peer[q] # A!Stranger)'
<1>1. Held(q) /\ Released(q) /\ peer[q] # A!Stranger
  BY DEF AssociationInv, Owned
<1> QED  BY <1>1 DEF Held, Released, A!Stranger

(* The steps of one request, whatever the other requests do. *)
LEMMA RequestOwned ==
  ASSUME AssociationInv, NEW r \in Relays,
         A!udpAssociate(r) \/ A!addUDPRelay(r) \/ A!Reply(r) \/ A!LoopEnds(r) \/ A!LeaveHandler(r)
  PROVE  AssociationInv'
<1> USE DEF AssociationInv, A!At, A!Go, A!CloseSocket, A!table, A!server
<1>1. CASE A!udpAssociate(r)
  <2>1. A!UDPTypeOK'
    BY <1>1 DEF A!udpAssociate, A!UDPTypeOK
  <2>2. TableShut'
    BY <1>1 DEF A!udpAssociate, TableShut
  <2>3. Owned'
    <3> SUFFICES ASSUME NEW q \in Relays PROVE (Held(q) /\ Released(q) /\ peer[q] # A!Stranger)'
      BY Zenon DEF Owned
    <3>1. CASE q = r
      <4>1. Held(r) /\ Released(r) /\ peer[r] # A!Stranger
        BY DEF Owned
      <4>2. peer' = peer /\ handler[r] = "none" /\ r \in DOMAIN handler
        BY <1>1 DEF A!udpAssociate, A!UDPTypeOK
      <4>3. handler'[r] = "listening" \/ (handler'[r] = "returned" /\ socket'[r] = socket[r])
        BY <1>1, <4>2 DEF A!udpAssociate
      <4> QED  BY Zenon, <3>1, <4>1, <4>2, <4>3 DEF Held, Released, Serving, A!Stranger
    <3>2. CASE q # r
      <4>1. /\ handler'[q] = handler[q] /\ socket'[q] = socket[q] /\ peer'[q] = peer[q]
            /\ closing' = closing /\ toClose' = toClose /\ (q \in udpRelays' <=> q \in udpRelays)
        BY <1>1, <3>2 DEF A!udpAssociate, A!UDPTypeOK
      <4> QED  BY <4>1, OthersOwned
    <3> QED  BY <3>1, <3>2
  <2> QED  BY <2>1, <2>2, <2>3
<1>2. CASE A!addUDPRelay(r)
  <2>1. \/ /\ handler' = [handler EXCEPT ![r] = "returned"]
           /\ socket' = [socket EXCEPT ![r] = "closed"] /\ udpRelays' = udpRelays
           /\ reply' = [reply EXCEPT ![r] = "failure"]
        \/ /\ handler' = [handler EXCEPT ![r] = "replying"]
           /\ socket' = socket /\ udpRelays' = udpRelays \cup {r} /\ reply' = reply
    BY <1>2 DEF A!addUDPRelay
  <2>2. /\ closing' = closing /\ toClose' = toClose /\ peer' = peer
        /\ udpRelaysClosed' = udpRelaysClosed /\ watcher' = watcher /\ control' = control
    BY <1>2 DEF A!addUDPRelay
  <2>3. A!UDPTypeOK'
    <3>1. /\ handler' \in [Relays -> {"none", "listening", "replying", "loop", "leaving", "returned"}]
          /\ socket' \in [Relays -> {"none", "open", "closed"}]
      BY <2>1 DEF A!UDPTypeOK
    <3>2. reply' \in [Relays -> {"none", "success", "failure"}] /\ udpRelays' \subseteq Relays
      BY <2>1 DEF A!UDPTypeOK
    <3> QED  BY <2>2, <3>1, <3>2 DEF A!UDPTypeOK
  <2>4. TableShut'
    BY <1>2 DEF A!addUDPRelay, TableShut, A!UDPTypeOK
  <2>5. Owned'
    <3> SUFFICES ASSUME NEW q \in Relays PROVE (Held(q) /\ Released(q) /\ peer[q] # A!Stranger)'
      BY DEF Owned
    <3>1. CASE q = r
      <4>1. peer[r] # A!Stranger
        BY DEF Owned
      <4>2. \/ handler'[r] = "returned" /\ socket'[r] = "closed"
            \/ handler'[r] = "replying" /\ r \in udpRelays'
        <5>1. r \in DOMAIN handler /\ r \in DOMAIN socket
          BY DEF A!UDPTypeOK
        <5> QED  BY <2>1, <5>1
      <4> QED  BY Zenon, <2>2, <3>1, <4>1, <4>2 DEF Held, Released, Serving, A!Stranger
    <3>2. CASE q # r
      <4>1. handler'[q] = handler[q] /\ socket'[q] = socket[q] /\ (q \in udpRelays' <=> q \in udpRelays)
        BY <2>1, <3>2 DEF A!UDPTypeOK
      <4> QED  BY <2>2, <4>1, OthersOwned
    <3> QED  BY <3>1, <3>2
  <2> QED  BY <2>3, <2>4, <2>5
<1>3. CASE A!Reply(r)
  <2>1. A!UDPTypeOK'
    BY <1>3 DEF A!Reply, A!removeUDPRelay, A!UDPTypeOK
  <2>2. TableShut'
    BY <1>3 DEF A!Reply, A!removeUDPRelay, TableShut
  <2>3. Owned'
    <3> SUFFICES ASSUME NEW q \in Relays PROVE (Held(q) /\ Released(q) /\ peer[q] # A!Stranger)'
      BY DEF Owned
    <3>1. CASE q = r
      <4>1. Held(r) /\ Released(r) /\ peer[r] # A!Stranger
        BY DEF Owned
      <4>2. /\ peer' = peer /\ closing' = closing /\ toClose' = toClose
            /\ handler[r] = "replying" /\ r \in DOMAIN handler /\ r \in DOMAIN socket
        BY <1>3 DEF A!Reply, A!UDPTypeOK
      <4>3. \/ handler'[r] = "loop" /\ socket' = socket /\ udpRelays' = udpRelays
            \/ handler'[r] = "returned" /\ socket'[r] = "closed"
        BY <1>3, <4>2 DEF A!Reply, A!removeUDPRelay
      <4> QED  BY Zenon, <3>1, <4>1, <4>2, <4>3 DEF Held, Released, Serving, A!Stranger
    <3>2. CASE q # r
      <4>1. /\ handler'[q] = handler[q] /\ socket'[q] = socket[q] /\ peer'[q] = peer[q]
            /\ closing' = closing /\ toClose' = toClose /\ (q \in udpRelays' <=> q \in udpRelays)
        BY <1>3, <3>2 DEF A!Reply, A!removeUDPRelay, A!UDPTypeOK
      <4> QED  BY <4>1, OthersOwned
    <3> QED  BY <3>1, <3>2
  <2> QED  BY <2>1, <2>2, <2>3
<1>4. CASE A!LoopEnds(r)
  <2>1. A!UDPTypeOK' /\ TableShut'
    BY <1>4 DEF A!LoopEnds, A!UDPTypeOK, TableShut
  <2>2. Owned'
    BY <1>4 DEF A!LoopEnds, A!UDPTypeOK, Owned, Held, Released, Serving
  <2> QED  BY <2>1, <2>2
<1>5. CASE A!LeaveHandler(r)
  <2>1. A!UDPTypeOK'
    BY <1>5 DEF A!LeaveHandler, A!removeUDPRelay, A!UDPTypeOK
  <2>2. TableShut'
    BY <1>5 DEF A!LeaveHandler, A!removeUDPRelay, TableShut
  <2>3. Owned'
    BY <1>5 DEF A!LeaveHandler, A!removeUDPRelay, A!UDPTypeOK, Owned, Held, Released, Serving
  <2> QED  BY <2>1, <2>2, <2>3
<1> QED  BY <1>1, <1>2, <1>3, <1>4, <1>5

(* The datagrams, the watcher of the control connection and the client. *)
LEMMA ConnectionOwned ==
  ASSUME AssociationInv, NEW r \in Relays, A!udpRelayLoop(r) \/ A!Watch(r) \/ A!Leave(r)
  PROVE  AssociationInv'
<1> USE DEF AssociationInv, A!At, A!CloseSocket, A!table, A!server
<1>1. CASE A!udpRelayLoop(r)
  <2>1. A!UDPTypeOK' /\ TableShut'
    BY <1>1 DEF A!udpRelayLoop, A!UDPTypeOK, TableShut
  <2>2. Owned'
    <3> SUFFICES ASSUME NEW q \in Relays PROVE (Held(q) /\ Released(q) /\ peer[q] # A!Stranger)'
      BY DEF Owned
    <3>1. CASE q = r
      <4>1. Held(r) /\ Released(r) /\ peer[r] # A!Stranger
        BY DEF Owned
      <4>2. peer'[r] \in Ports
        BY <1>1 DEF A!udpRelayLoop, A!UDPTypeOK
      <4>3. handler' = handler /\ socket' = socket /\ udpRelays' = udpRelays /\ closing' = closing /\ toClose' = toClose
        BY <1>1 DEF A!udpRelayLoop
      <4>4. peer'[r] # A!Stranger
        BY <4>2, AssociationAssumption DEF A!Stranger
      <4> QED  BY <3>1, <4>1, <4>3, <4>4 DEF Held, Released, A!Stranger
    <3>2. CASE q # r
      <4>1. /\ handler'[q] = handler[q] /\ socket'[q] = socket[q] /\ peer'[q] = peer[q]
            /\ closing' = closing /\ toClose' = toClose /\ (q \in udpRelays' <=> q \in udpRelays)
        BY <1>1, <3>2 DEF A!udpRelayLoop, A!UDPTypeOK
      <4> QED  BY <4>1, OthersOwned
    <3> QED  BY <3>1, <3>2
  <2> QED  BY <2>1, <2>2
<1>2. CASE A!Watch(r)
  <2>1. A!UDPTypeOK' /\ TableShut'
    BY <1>2 DEF A!Watch, A!UDPTypeOK, TableShut
  <2>2. Owned'
    BY <1>2 DEF A!Watch, A!UDPTypeOK, Owned, Held, Released
  <2> QED  BY <2>1, <2>2
<1>3. CASE A!Leave(r)
  BY <1>3 DEF A!Leave, A!UDPTypeOK, TableShut, Owned, Held, Released
<1> QED  BY <1>1, <1>2, <1>3

(* Close: what it takes from the table it has on its list. *)
LEMMA CloseOwned ==
  ASSUME AssociationInv, A!closeUDPRelays \/ A!CloseRelays
  PROVE  AssociationInv'
<1> USE DEF AssociationInv, A!CloseSocket, A!table
<1>1. CASE A!closeUDPRelays
  BY Zenon, <1>1 DEF A!closeUDPRelays, A!UDPTypeOK, TableShut, Owned, Held, Released
<1>2. CASE A!CloseRelays /\ toClose = {}
  BY <1>2 DEF A!CloseRelays, A!UDPTypeOK, TableShut, Owned, Held, Released
<1>3. CASE A!CloseRelays /\ toClose # {}
  <2>1. PICK r \in toClose :
          /\ closing = "closing" /\ closing' = closing
          /\ socket' = [socket EXCEPT ![r] = "closed"]
          /\ toClose' = toClose \ {r}
          /\ UNCHANGED <<handler, watcher, control, udpRelays, udpRelaysClosed, peer, reply>>
    BY <1>3 DEF A!CloseRelays
  <2>2. A!UDPTypeOK' /\ TableShut'
    BY <2>1 DEF A!UDPTypeOK, TableShut
  <2>3. Owned'
    BY <2>1 DEF A!UDPTypeOK, Owned, Held, Released
  <2> QED  BY <2>2, <2>3
<1> QED  BY <1>1, <1>2, <1>3

LEMMA StepOwned == AssociationInv /\ [A!UDPNext]_A!udpVars => AssociationInv'
<1>1. AssociationInv /\ A!UDPNext => AssociationInv'
  BY RequestOwned, ConnectionOwned, CloseOwned DEF A!UDPNext, A!HandlerStep
<1>2. AssociationInv /\ UNCHANGED A!udpVars => AssociationInv'
  <2> SUFFICES ASSUME AssociationInv, UNCHANGED A!udpVars PROVE AssociationInv'
    OBVIOUS
  <2>1. A!UDPTypeOK' /\ TableShut'
    BY DEF AssociationInv, A!UDPTypeOK, TableShut, A!udpVars
  <2>2. Owned'
    BY OthersOwned DEF Owned, A!udpVars
  <2> QED  BY <2>1, <2>2 DEF AssociationInv
<1> QED  BY <1>1, <1>2

-----------------------------------------------------------------------------
(***************************************************************************)
(* ICMPEcho for any number of pings, targets and numbers.                  *)
(***************************************************************************)
CONSTANTS Pings, Targets, Numbers, Blocked, Direct, IDWidth

VARIABLES pkt, pinger, server, echoID, sentAs, wire, icmpConn, grown, echoed, pong

evars == <<pkt, pinger, server, echoID, sentAs, wire, icmpConn, grown, echoed, pong>>

E == INSTANCE ICMPEcho WITH client <- pinger, answer <- echoed, socket <- icmpConn, reply <- pong

(* No identifier of the server is used twice in a lifetime of pings.       *)
ASSUME PingAssumption == IsFiniteSet(Pings) /\ IDWidth \in Nat \ {0} /\ Cardinality(Pings) < IDWidth

Answered(p) == [id |-> pkt[p].id, seq |-> pkt[p].seq, data |-> p]

EchoTypes ==
  /\ pkt \in [Pings -> E!Packets] /\ echoID \in 0..(IDWidth - 1) /\ sentAs \in [Pings -> 0..(IDWidth - 1)]
  /\ server \in [Pings -> {"none", "dial", "send", "read", "answered", "failed"}]
  /\ icmpConn \in [Pings -> SUBSET E!Replies] /\ wire \subseteq E!Replies
  /\ echoed \in [Pings -> E!Answers \cup {E!NoAnswer}] /\ pong \in [Pings -> E!Answers \cup {E!NoAnswer}]

(* The pings that were sent.                                               *)
Sent == {p \in Pings : sentAs[p] # 0}

(* Each is sent with an identifier of its own.                             *)
IDsOwn ==
  /\ \A p \in Pings : sentAs[p] <= echoID
  /\ \A p, q \in Sent : sentAs[p] = sentAs[q] => p = q
  /\ \A p \in Pings : server[p] \in {"none", "dial", "send"} => p \notin Sent
  /\ \A p \in Pings : server[p] = "read" => p \in Sent

(* A reply carries the identifier its ping was sent with.                  *)
Genuine(r) == r.data \in Sent /\ r.id = sentAs[r.data]
RepliesRight ==
  /\ \A r \in wire : Genuine(r)
  /\ \A p \in Pings : \A r \in icmpConn[p] : Genuine(r)

(* An exchange returns the reply to its own ping.                          *)
OwnAnswer ==
  \A p \in Pings : echoed[p] \in {E!NoAnswer, Answered(p)} /\ pong[p] \in {E!NoAnswer, Answered(p)}

EchoInv == EchoTypes /\ IDsOwn /\ RepliesRight /\ OwnAnswer

(* The server hears of a ping once, when its stream is opened.             *)
Unasked ==
  /\ pinger \in [Pings -> {"idle", "open", "waiting", "replied", "dropped", "failed"}]
  /\ grown \in [Pings -> BOOLEAN]
  /\ \A p \in Pings : pinger[p] \in {"idle", "open"} => server[p] = "none"

LEMMA UnaskedInit == E!ICMPInit => Unasked
BY DEF E!ICMPInit, Unasked

LEMMA UnaskedStep == EchoTypes /\ Unasked /\ E!ICMPNext => Unasked'
<1> SUFFICES ASSUME EchoTypes, Unasked, E!ICMPNext PROVE Unasked'
  OBVIOUS
<1>9. grown' \in [Pings -> BOOLEAN]
  <2>1. grown' = grown \/ \E p \in Pings : grown' = [grown EXCEPT ![p] = TRUE]
    BY Zenon DEF E!ICMPNext, E!HandlePacket, E!icmpStream, E!ClientTimeout, E!SendReply, E!Rejected, E!DialTarget,
           E!SendEcho, E!ExchangeFails, E!ReadEcho, E!Deliver
  <2> QED  BY Zenon, <2>1 DEF Unasked
<1>0. server \in [Pings -> {"none", "dial", "send", "read", "answered", "failed"}]
  BY DEF EchoTypes
<1>1. ASSUME NEW p \in Pings, E!HandlePacket(p) PROVE Unasked'
  <2>1. PICK c \in {"dropped", "open"} : pinger' = [pinger EXCEPT ![p] = c]
    BY Zenon, <1>1 DEF E!HandlePacket
  <2> QED  BY <1>9, <1>1, <2>1 DEF E!HandlePacket, Unasked
<1>2. ASSUME NEW p \in Pings, E!icmpStream(p) PROVE Unasked'
  BY <1>9, <1>0, <1>2 DEF E!icmpStream, Unasked
<1>3. ASSUME NEW p \in Pings, E!ClientTimeout(p) \/ E!SendReply(p) \/ E!Rejected(p) PROVE Unasked'
  <2>1. server' = server /\ \E c \in {"failed", "replied"} : pinger' = [pinger EXCEPT ![p] = c]
    BY <1>3 DEF E!ClientTimeout, E!SendReply, E!Rejected
  <2> QED  BY <1>9, <2>1 DEF Unasked
<1>4. ASSUME NEW p \in Pings, E!DialTarget(p) \/ E!SendEcho(p) \/ E!ExchangeFails(p) \/ \E r \in icmpConn[p] : E!ReadEcho(p, r)
      PROVE  Unasked'
  <2>1. pinger' = pinger /\ server[p] # "none"
    BY Zenon, <1>4 DEF E!DialTarget, E!SendEcho, E!ExchangeFails, E!ReadEcho
  <2>2. server' = server \/ \E c : server' = [server EXCEPT ![p] = c]
    BY Zenon, <1>4 DEF E!DialTarget, E!SendEcho, E!ExchangeFails, E!ReadEcho
  <2> QED  BY <1>9, <1>0, <2>1, <2>2 DEF Unasked
<1>5. ASSUME NEW r \in wire, E!Deliver(r) PROVE Unasked'
  BY Zenon, <1>9, <1>5 DEF E!Deliver, Unasked
<1> QED  BY Zenon, <1>1, <1>2, <1>3, <1>4, <1>5 DEF E!ICMPNext

LEMMA EchoInit == E!ICMPInit => EchoInv
<1> SUFFICES ASSUME E!ICMPInit PROVE EchoInv
  OBVIOUS
<1>1. EchoTypes
  BY PingAssumption DEF E!ICMPInit, EchoTypes
<1>2. \A p \in Pings : sentAs[p] = 0 /\ server[p] = "none" /\ icmpConn[p] = {} /\ echoed[p] = E!NoAnswer /\ pong[p] = E!NoAnswer
  BY DEF E!ICMPInit
<1>3. IDsOwn /\ RepliesRight
  BY <1>1, <1>2 DEF IDsOwn, RepliesRight, Sent, EchoTypes, E!ICMPInit
<1>4. OwnAnswer
  BY Zenon, <1>2 DEF OwnAnswer
<1> QED  BY <1>1, <1>3, <1>4 DEF EchoInv

(* A step that sends nothing and lets the exchanges go on.                 *)
LEMMA SilentStep ==
  ASSUME EchoInv, pkt' = pkt, echoID' = echoID, sentAs' = sentAs, wire' \subseteq wire,
         server' \in [Pings -> {"none", "dial", "send", "read", "answered", "failed"}],
         \A p \in Pings : /\ server'[p] \in {"none", "dial", "send"} => server[p] \in {"none", "dial", "send"}
                          /\ server'[p] = "read" => server[p] = "read",
         icmpConn' \in [Pings -> SUBSET E!Replies],
         \A p \in Pings : icmpConn'[p] \subseteq icmpConn[p] \cup wire,
         echoed' \in [Pings -> E!Answers \cup {E!NoAnswer}], pong' \in [Pings -> E!Answers \cup {E!NoAnswer}],
         \A p \in Pings : echoed'[p] \in {E!NoAnswer, Answered(p)} /\ pong'[p] \in {E!NoAnswer, Answered(p)}
  PROVE  EchoInv'
<1>0. EchoTypes /\ IDsOwn /\ RepliesRight
  BY DEF EchoInv
<1>1. EchoTypes'
  BY Zenon, <1>0 DEF EchoTypes, E!Packets, E!Replies, E!Answers, E!NoAnswer
<1>2. Sent' = Sent
  BY DEF Sent
<1>3. IDsOwn'
  BY Zenon, <1>0, <1>2 DEF IDsOwn
<1>4. \A r : Genuine(r)' <=> Genuine(r)
  BY <1>2 DEF Genuine
<1>5. RepliesRight'
  BY Zenon, <1>0, <1>4 DEF RepliesRight
<1>6. OwnAnswer'
  BY Zenon DEF OwnAnswer, Answered, E!NoAnswer
<1> QED  BY <1>1, <1>3, <1>5, <1>6 DEF EchoInv

LEMMA ExchangeStep ==
  ASSUME EchoInv, Unasked, NEW p \in Pings,
         \/ E!HandlePacket(p) \/ E!icmpStream(p) \/ E!ClientTimeout(p) \/ E!SendReply(p)
         \/ E!Rejected(p) \/ E!DialTarget(p) \/ E!ExchangeFails(p)
  PROVE  EchoInv'
<1>0. EchoTypes /\ OwnAnswer
  BY DEF EchoInv
<1>1. pkt' = pkt /\ echoID' = echoID /\ sentAs' = sentAs /\ wire' = wire /\ echoed' = echoed
  BY Zenon DEF E!HandlePacket, E!icmpStream, E!ClientTimeout, E!SendReply, E!Rejected, E!DialTarget, E!ExchangeFails
<1>2. PICK s \in {"none", "dial", "send", "read", "answered", "failed"} :
        /\ server' = [server EXCEPT ![p] = s]
        /\ s \in {"none", "dial", "send"} => server[p] \in {"none", "dial", "send"}
        /\ s = "read" => server[p] = "read"
  <2>0. server = [server EXCEPT ![p] = server[p]] /\ server[p] \in {"none", "dial", "send", "read", "answered", "failed"}
    BY <1>0 DEF EchoTypes
  <2>1. CASE server' = server
    BY <2>0, <2>1
  <2>2. CASE E!icmpStream(p) /\ server' # server
    <3>1. server' = [server EXCEPT ![p] = "dial"] /\ server[p] = "none"
      BY <2>2 DEF E!icmpStream, Unasked
    <3> QED  BY <3>1
  <2>3. CASE E!DialTarget(p)
    <3>1. server' = [server EXCEPT ![p] = "send"] /\ server[p] = "dial"
      BY <2>3 DEF E!DialTarget
    <3> QED  BY <3>1
  <2>4. CASE E!ExchangeFails(p)
    <3>1. server' = [server EXCEPT ![p] = "failed"]
      BY <2>4 DEF E!ExchangeFails
    <3> QED  BY <3>1
  <2>5. E!HandlePacket(p) \/ E!ClientTimeout(p) \/ E!SendReply(p) \/ E!Rejected(p) => server' = server
    BY Zenon DEF E!HandlePacket, E!ClientTimeout, E!SendReply, E!Rejected
  <2> QED  BY <2>1, <2>2, <2>3, <2>4, <2>5
<1>3. icmpConn' = icmpConn \/ icmpConn' = [icmpConn EXCEPT ![p] = {}]
  BY Zenon DEF E!HandlePacket, E!icmpStream, E!ClientTimeout, E!SendReply, E!Rejected, E!DialTarget, E!ExchangeFails
<1>4. pong' = pong \/ pong' = [pong EXCEPT ![p] = echoed[p]]
  BY Zenon DEF E!HandlePacket, E!icmpStream, E!ClientTimeout, E!SendReply, E!Rejected, E!DialTarget, E!ExchangeFails
<1>5. /\ server' \in [Pings -> {"none", "dial", "send", "read", "answered", "failed"}]
      /\ \A q \in Pings : /\ server'[q] \in {"none", "dial", "send"} => server[q] \in {"none", "dial", "send"}
                          /\ server'[q] = "read" => server[q] = "read"
  BY <1>0, <1>2 DEF EchoTypes
<1>6. icmpConn' \in [Pings -> SUBSET E!Replies] /\ \A q \in Pings : icmpConn'[q] \subseteq icmpConn[q]
  BY <1>0, <1>3 DEF EchoTypes
<1>7. /\ pong' \in [Pings -> E!Answers \cup {E!NoAnswer}]
      /\ \A q \in Pings : pong'[q] \in {E!NoAnswer, Answered(q)}
  BY <1>0, <1>4 DEF EchoTypes, OwnAnswer
<1>8. /\ echoed' \in [Pings -> E!Answers \cup {E!NoAnswer}]
      /\ \A q \in Pings : echoed'[q] \in {E!NoAnswer, Answered(q)}
  BY <1>0, <1>1 DEF EchoTypes, OwnAnswer
<1> QED  BY Zenon, <1>1, <1>5, <1>6, <1>7, <1>8, SilentStep

LEMMA DeliverStep ==
  ASSUME EchoInv, NEW r \in wire, E!Deliver(r)
  PROVE  EchoInv'
<1>0. EchoTypes /\ OwnAnswer
  BY DEF EchoInv
<1>1. /\ pkt' = pkt /\ echoID' = echoID /\ sentAs' = sentAs /\ wire' \subseteq wire /\ echoed' = echoed
      /\ server' = server /\ pong' = pong
  BY Zenon DEF E!Deliver
<1>2. icmpConn' \in [Pings -> SUBSET E!Replies] /\ \A q \in Pings : icmpConn'[q] \subseteq icmpConn[q] \cup wire
  BY Zenon, <1>0 DEF E!Deliver, EchoTypes
<1> QED  BY <1>0, <1>1, <1>2, SilentStep DEF EchoTypes, OwnAnswer

(* A reply that matches is that of this exchange.                          *)
LEMMA OwnMatch ==
  ASSUME IDsOwn, RepliesRight, NEW p \in Pings, NEW r \in icmpConn[p], server[p] = "read", E!matches(p, r)
  PROVE  r.data = p
<1>1. p \in Sent
  BY Zenon DEF IDsOwn
<1>2. r.data \in Sent /\ r.id = sentAs[r.data]
  BY DEF RepliesRight, Genuine
<1>3. sentAs[r.data] = sentAs[p]
  BY <1>2 DEF E!matches
<1> QED  BY Zenon, <1>1, <1>2, <1>3 DEF IDsOwn

LEMMA ReadEchoStep ==
  ASSUME EchoInv, NEW p \in Pings, NEW r \in icmpConn[p], E!ReadEcho(p, r)
  PROVE  EchoInv'
<1>0. EchoTypes /\ OwnAnswer /\ IDsOwn /\ RepliesRight
  BY DEF EchoInv
<1>1. /\ pkt' = pkt /\ echoID' = echoID /\ sentAs' = sentAs /\ wire' = wire /\ pong' = pong
      /\ server[p] = "read"
  BY Zenon DEF E!ReadEcho
<1>2. E!matches(p, r) => r.data = p
  BY Zenon, <1>0, <1>1, OwnMatch
<1>3. \/ /\ server' = [server EXCEPT ![p] = "answered"] /\ icmpConn' = [icmpConn EXCEPT ![p] = {}]
         /\ echoed' = [echoed EXCEPT ![p] = Answered(p)]
      \/ server' = server /\ echoed' = echoed /\ icmpConn' = [icmpConn EXCEPT ![p] = @ \ {r}]
  BY Zenon, <1>2 DEF E!ReadEcho, Answered
<1>4. Answered(p) \in E!Answers
  BY <1>0 DEF Answered, EchoTypes, E!Packets, E!Answers
<1>5. /\ server' \in [Pings -> {"none", "dial", "send", "read", "answered", "failed"}]
      /\ \A q \in Pings : server'[q] \in {server[q], "answered"}
  BY <1>0, <1>3 DEF EchoTypes
<1>6. icmpConn' \in [Pings -> SUBSET E!Replies] /\ \A q \in Pings : icmpConn'[q] \subseteq icmpConn[q]
  BY <1>0, <1>3 DEF EchoTypes
<1>7. /\ echoed' \in [Pings -> E!Answers \cup {E!NoAnswer}]
      /\ \A q \in Pings : echoed'[q] \in {E!NoAnswer, Answered(q)}
  BY <1>0, <1>3, <1>4 DEF EchoTypes, OwnAnswer
<1>8. /\ pong' \in [Pings -> E!Answers \cup {E!NoAnswer}]
      /\ \A q \in Pings : pong'[q] \in {E!NoAnswer, Answered(q)}
  BY <1>0, <1>1 DEF EchoTypes, OwnAnswer
<1> QED  BY Zenon, <1>1, <1>5, <1>6, <1>7, <1>8, SilentStep

(* SendEcho: while identifiers are left, the next one is new.              *)
LEMMA SendEchoStep ==
  ASSUME EchoInv, NEW p \in Pings, E!SendEcho(p), echoID + 1 < IDWidth
  PROVE  EchoInv' /\ echoID' = echoID + 1 /\ Sent' = Sent \cup {p} /\ p \notin Sent
<1>0. EchoTypes /\ OwnAnswer /\ IDsOwn /\ RepliesRight /\ echoID \in Nat /\ IDWidth \in Nat
  BY PingAssumption DEF EchoInv, EchoTypes
<1> DEFINE id == echoID + 1
           echo == [dst |-> pkt[p].dst, id |-> id, seq |-> pkt[p].seq, data |-> p]
<1>1. E!nextICMPEchoID(p) = id
  <2>1. \A n, w \in Nat : n < w => n % w = n
    OBVIOUS
  <2> QED  BY <1>0, <2>1 DEF E!nextICMPEchoID
<1>2. /\ pkt' = pkt /\ echoID' = id /\ icmpConn' = icmpConn /\ echoed' = echoed /\ pong' = pong
      /\ sentAs' = [sentAs EXCEPT ![p] = id] /\ wire' \subseteq wire \cup {echo}
      /\ server[p] = "send" /\ server' = [server EXCEPT ![p] = "read"]
  BY <1>1 DEF E!SendEcho
<1>3. p \notin Sent /\ id # 0 /\ id \in 0 .. (IDWidth - 1)
  BY <1>0, <1>2 DEF IDsOwn
<1>4. sentAs'[p] = id /\ \A q \in Pings : q # p => sentAs'[q] = sentAs[q]
  BY <1>0, <1>2 DEF EchoTypes
<1>5. Sent' = Sent \cup {p}
  BY <1>3, <1>4 DEF Sent
<1>6. echo \in E!Replies
  BY <1>0, <1>3 DEF EchoTypes, E!Packets, E!Replies
<1>7. EchoTypes'
  <2>1. sentAs' \in [Pings -> 0..(IDWidth - 1)] /\ echoID' \in 0..(IDWidth - 1)
    BY <1>0, <1>2, <1>3 DEF EchoTypes
  <2>2. server' \in [Pings -> {"none", "dial", "send", "read", "answered", "failed"}] /\ wire' \subseteq E!Replies
    BY <1>0, <1>2, <1>6 DEF EchoTypes
  <2> HIDE DEF id, echo
  <2> QED  BY Zenon, <1>0, <1>2, <2>1, <2>2 DEF EchoTypes, E!Packets, E!Replies, E!Answers, E!NoAnswer
<1>8. IDsOwn'
  <2>1. \A q \in Pings : sentAs[q] \in Nat /\ sentAs[q] < id
    BY <1>0 DEF EchoTypes, IDsOwn
  <2>2. ASSUME NEW q \in Pings PROVE sentAs'[q] <= id
    <3>1. id \in Nat
      BY <1>0
    <3> HIDE DEF id
    <3>2. CASE q = p
      BY <1>4, <3>1, <3>2
    <3>3. CASE q # p
      BY <1>4, <2>1, <3>1, <3>3
    <3> QED  BY <3>2, <3>3
  <2>3. \A q, s \in Sent' : sentAs'[q] = sentAs'[s] => q = s
    BY <1>0, <1>4, <1>5, <2>1 DEF IDsOwn, Sent
  <2>4. \A q \in Pings : server'[q] \in {"none", "dial", "send"} => q \notin Sent'
    BY <1>0, <1>2, <1>5 DEF EchoTypes, IDsOwn
  <2>5. \A q \in Pings : server'[q] = "read" => q \in Sent'
    BY <1>0, <1>2, <1>5 DEF EchoTypes, IDsOwn
  <2> QED  BY <1>2, <2>2, <2>3, <2>4, <2>5 DEF IDsOwn
<1>9. RepliesRight'
  <2>1. ASSUME NEW r, Genuine(r) PROVE r.data \in Sent' /\ r.id = sentAs'[r.data]
    <3>1. r.data \in Sent /\ r.id = sentAs[r.data] /\ r.data \in Pings /\ r.data # p
      BY <1>3, <2>1 DEF Genuine, Sent
    <3> QED  BY Zenon, <1>4, <1>5, <3>1
  <2>2. echo.data \in Sent' /\ echo.id = sentAs'[echo.data]
    BY Zenon, <1>4, <1>5
  <2> HIDE DEF id, echo
  <2> QED  BY <1>0, <1>2, <2>1, <2>2 DEF RepliesRight, Genuine
<1>10. OwnAnswer'
  BY Zenon, <1>0, <1>2 DEF OwnAnswer, Answered, E!NoAnswer
<1> QED  BY <1>2, <1>3, <1>5, <1>7, <1>8, <1>9, <1>10 DEF EchoInv

LEMMA EchoStays == EchoInv /\ Unasked /\ UNCHANGED evars => EchoInv' /\ Unasked' /\ Sent' = Sent /\ echoID' = echoID
<1> SUFFICES ASSUME EchoInv, Unasked, UNCHANGED evars PROVE EchoInv' /\ Unasked' /\ Sent' = Sent /\ echoID' = echoID
  OBVIOUS
<1>1. UNCHANGED <<pkt, pinger, server, echoID, sentAs, wire, icmpConn, grown, echoed, pong>>
  BY DEF evars
<1>2. EchoTypes'
  BY Zenon, <1>1 DEF EchoInv, EchoTypes, E!Packets, E!Replies, E!Answers, E!NoAnswer
<1>3. Sent' = Sent
  BY <1>1 DEF Sent
<1>4. IDsOwn'
  BY Zenon, <1>1, <1>3 DEF EchoInv, IDsOwn
<1>5. RepliesRight'
  BY <1>1, <1>3 DEF EchoInv, RepliesRight, Genuine
<1>6. OwnAnswer'
  BY Zenon, <1>1 DEF EchoInv, OwnAnswer, Answered, E!NoAnswer
<1>7. Unasked'
  BY <1>1 DEF Unasked
<1> QED  BY <1>1, <1>2, <1>3, <1>4, <1>5, <1>6, <1>7 DEF EchoInv

LEMMA EchoProper == EchoInv /\ Unasked => E!ICMPTypeOK /\ E!OwnReply
<1>1. EchoInv => E!OwnReply
  BY Zenon DEF EchoInv, OwnAnswer, Answered, E!OwnReply
<1> QED  BY <1>1 DEF EchoInv, EchoTypes, Unasked, E!ICMPTypeOK

-----------------------------------------------------------------------------
INSTANCE FiniteSetTheorems
(* The identifiers used are counted by icmpEchoID.                         *)
Counted == IsFiniteSet(Sent) /\ echoID = Cardinality(Sent)

LEMMA CountedInit == E!ICMPInit => Counted
<1> SUFFICES ASSUME E!ICMPInit PROVE Counted
  OBVIOUS
<1>1. Sent = {} /\ echoID = 0
  BY DEF E!ICMPInit, Sent
<1> QED  BY <1>1, FS_EmptySet DEF Counted

LEMMA EchoNext == EchoInv /\ Unasked /\ Counted /\ E!ICMPNext => EchoInv' /\ Counted'
<1> SUFFICES ASSUME EchoInv, Unasked, Counted, E!ICMPNext PROVE EchoInv' /\ Counted'
  OBVIOUS
<1>1. ASSUME NEW p \in Pings, E!SendEcho(p)
      PROVE  EchoInv' /\ Counted'
  <2>1. p \notin Sent /\ Sent \cup {p} \in SUBSET Pings
    BY Zenon, <1>1 DEF EchoInv, IDsOwn, Sent, E!SendEcho
  <2>2. IsFiniteSet(Sent \cup {p}) /\ Cardinality(Sent \cup {p}) = Cardinality(Sent) + 1
    BY <2>1, FS_AddElement DEF Counted
  <2>3. Cardinality(Sent \cup {p}) <= Cardinality(Pings) /\ Cardinality(Pings) \in Nat
    BY <2>1, PingAssumption, FS_Subset, FS_CardinalityType
  <2>4. echoID \in Nat
    BY DEF EchoInv, EchoTypes
  <2>5. echoID + 1 < IDWidth
    BY <2>2, <2>3, <2>4, PingAssumption DEF Counted
  <2>6. EchoInv' /\ echoID' = echoID + 1 /\ Sent' = Sent \cup {p}
    BY <1>1, <2>5, SendEchoStep
  <2> QED  BY <2>2, <2>6 DEF Counted
<1>2. ASSUME NEW p \in Pings,
             \/ E!HandlePacket(p) \/ E!icmpStream(p) \/ E!ClientTimeout(p) \/ E!SendReply(p)
             \/ E!Rejected(p) \/ E!DialTarget(p) \/ E!ExchangeFails(p) \/ \E r \in icmpConn[p] : E!ReadEcho(p, r)
      PROVE  EchoInv' /\ Counted'
  <2>1. sentAs' = sentAs /\ echoID' = echoID
    BY Zenon, <1>2 DEF E!HandlePacket, E!icmpStream, E!ClientTimeout, E!SendReply, E!Rejected, E!DialTarget, E!ExchangeFails, E!ReadEcho
  <2>2. EchoInv'
    BY Zenon, <1>2, ExchangeStep, ReadEchoStep
  <2> QED  BY <2>1, <2>2 DEF Counted, Sent
<1>3. ASSUME NEW r \in wire, E!Deliver(r)
      PROVE  EchoInv' /\ Counted'
  <2>1. sentAs' = sentAs /\ echoID' = echoID
    BY <1>3 DEF E!Deliver
  <2>2. EchoInv'
    BY <1>3, DeliverStep
  <2> QED  BY <2>1, <2>2 DEF Counted, Sent
<1> QED  BY Zenon, <1>1, <1>2, <1>3 DEF E!ICMPNext

-----------------------------------------------------------------------------
VARIABLE part  \* which of them moves

(* Where a part that does not move could begin in several ways, one is     *)
(* enough.                                                                 *)
MCInit ==
  /\ part \in {"relay", "exchange", "ping", "associate"}
  /\ Init /\ (part # "relay" => End = "FIN") /\ X!Init /\ A!UDPInit
  /\ pkt \in IF part = "ping" THEN [Pings -> E!Packets]
             ELSE {[p \in Pings |-> CHOOSE k \in E!Packets : TRUE]}
  /\ E!ICMPInit
MCNext ==
  /\ \/ part = "relay" /\ Next /\ UNCHANGED <<xvars, evars, avars>>
     \/ part = "exchange" /\ X!Next /\ UNCHANGED <<vars, evars, avars>>
     \/ part = "associate" /\ A!UDPNext /\ UNCHANGED <<vars, xvars, evars>>
     \/ part = "ping" /\ E!ICMPNext /\ UNCHANGED <<vars, xvars, avars>>
  /\ UNCHANGED part
mcVars == <<vars, xvars, evars, avars, part>>

\* The Fairness of each, while it is the one that moves.
RelayFair ==
  LET shut == part = "relay" /\ connsClosed IN
  /\ WF_vars(part = "relay" /\ PrefetchLoop) /\ WF_vars(shut /\ ReadFrame)
  /\ WF_vars(part = "relay" /\ Put) /\ WF_vars(part = "relay" /\ Take)
  /\ WF_vars(shut /\ WriteLocal) /\ WF_vars(shut /\ UploadStep)
  /\ WF_vars(part = "relay" /\ TakeResult) /\ WF_vars(part = "relay" /\ TakeActivity)
  /\ WF_vars(part = "relay" /\ IdleTimeout) /\ WF_vars(part = "relay" /\ Tick)
ExchangeFair ==
  /\ \A s \in Senders : /\ SF_xvars(part = "exchange" /\ X!Lock(s))
                        /\ WF_xvars(part = "exchange" /\ X!Check(s))
                        /\ WF_xvars(part = "exchange" /\ cut /\ X!Push(s))
  /\ \A c \in Closers : /\ WF_xvars(part = "exchange" /\ X!Wait(c))
                        /\ WF_xvars(part = "exchange" /\ X!Select(c))
  /\ SF_xvars(part = "exchange" /\ X!FinLock) /\ WF_xvars(part = "exchange" /\ X!FinCut)
  /\ WF_xvars(part = "exchange" /\ cut /\ X!FinSlow) /\ WF_xvars(part = "exchange" /\ X!LateClose)

AssociationFair ==
  /\ WF_avars(part = "associate" /\ A!CloseRelays)
  /\ \A r \in Relays : /\ WF_avars(part = "associate" /\ A!HandlerStep(r))
                       /\ WF_avars(part = "associate" /\ A!Watch(r))

MCSpec == MCInit /\ [][MCNext]_mcVars /\ RelayFair /\ ExchangeFair /\ AssociationFair

(* StreamRelay: a relay that ends cleanly has written everything that the  *)
(* server sent, also what was only read ahead (NormalEndComplete).         *)
(* UDPExchange: no datagram is written after the FIN.  ICMPEcho: a pinger  *)
(* gets the reply to its own echo.  They keep their types.                 *)
StreamsSound ==
  /\ TypeOK /\ X!TypeOK /\ E!ICMPTypeOK /\ A!UDPTypeOK
  /\ NormalEndComplete /\ X!FinLast /\ E!OwnReply

(* StreamRelay: a relay ends with its three goroutines, whatever blocks.   *)
(* UDPExchange: Close comes back to each of its callers, and nobody stays  *)
(* blocked in a Send after it.  SocksUDP: an association whose control     *)
(* connection or server is closed ends with both its goroutines.           *)
EverythingEnds ==
  (part = "relay" => RelayEnds) /\ X!CloseReturns /\ X!SendersEnd /\ A!AssociationEnds

(* SocksUDP: Close leaves no association with a socket, unless its request *)
(* is at the step that will be refused; an association the client was told *)
(* of is in the table while it relays; replies go only to the client.      *)
AssociationsOwned == A!AssociationsOwned

-----------------------------------------------------------------------------
(* Each of them keeps its invariant, and so does a step of another.        *)
StreamsInv == RelayInv /\ ExchangeInv /\ EchoInv /\ Unasked /\ Counted /\ AssociationInv

LEMMA RelayStays == ASSUME RelayInv, UNCHANGED vars PROVE RelayInv'
<1>1. UNCHANGED <<End, ppc, read, queue, wpc, written, upc, sentUp, errCh, activity, since, draining,
                  firstErr, received, out>>
  BY DEF vars, down, writer, up, loop
<1>2. QueueInv' /\ ResultInv'
  BY <1>1, QueueStays DEF RelayInv, ResultInv, connsClosed
<1>3. Places'
  BY <1>1, TypeParts DEF RelayInv, Places
<1>4. Counts'
  BY <1>1, TypeParts DEF RelayInv, Counts
<1> QED
  BY <1>2, <1>3, <1>4, TypeParts DEF RelayInv

LEMMA ExchangeStays == ASSUME ExchangeInv, UNCHANGED xvars PROVE ExchangeInv'
  BY DEF xvars, ExchangeInv, X!TypeOK, X!FinLast

LEMMA StreamsInit == MCInit => StreamsInv
  BY RelayInit, ExchangeInit, EchoInit, UnaskedInit, CountedInit, InitOwned DEF MCInit, StreamsInv

LEMMA StreamsNext == StreamsInv /\ [MCNext]_mcVars => StreamsInv'
<1> SUFFICES ASSUME StreamsInv, [MCNext]_mcVars PROVE StreamsInv'
  OBVIOUS
<1>1. RelayInv'
  <2>1. UNCHANGED vars \/ Next
    BY DEF MCNext, mcVars
  <2> QED
    BY <2>1, RelayNext, RelayStays DEF StreamsInv
<1>2. ExchangeInv'
  <2>1. UNCHANGED xvars \/ X!Next
    BY DEF MCNext, mcVars
  <2> QED
    BY <2>1, ExchangeNext, ExchangeStays DEF StreamsInv
<1>3. EchoInv' /\ Unasked' /\ Counted'
  <2>1. CASE E!ICMPNext
    BY <2>1, EchoNext, UnaskedStep DEF StreamsInv, EchoInv
  <2>2. CASE UNCHANGED evars
    BY <2>2, EchoStays DEF StreamsInv, Counted
  <2>3. UNCHANGED evars \/ E!ICMPNext
    BY DEF MCNext, mcVars
  <2> QED
    BY <2>1, <2>2, <2>3
<1>4. AssociationInv'
  <2>1. UNCHANGED A!udpVars \/ A!UDPNext
    BY DEF MCNext, mcVars, avars, A!udpVars
  <2> QED
    BY <2>1, StepOwned DEF StreamsInv
<1> QED
  BY <1>1, <1>2, <1>3, <1>4 DEF StreamsInv

(* For every number of frames, chunks, ticks and queue places, and for any *)
(* senders and closers: a relay that bidirectional ends without an error   *)
(* has written every data frame of the server to the local connection, and *)
(* nothing is pushed on a UDP exchange after its FIN.  For any targets and *)
(* fewer pings than identifiers: icmpExchange returns the reply to its own *)
(* echo, with the numbers the pinger chose.                                *)
THEOREM StreamsSoundHolds == MCSpec => []StreamsSound
<1>1. StreamsInv => StreamsSound
  BY RelaySound, EchoProper DEF StreamsInv, StreamsSound, ExchangeInv, AssociationInv
<1> QED
  BY <1>1, StreamsInit, StreamsNext, PTL DEF MCSpec

(* Close leaves no association with a socket, except a request that        *)
(* addUDPRelay will refuse; one that udpRelayLoop serves is in the table   *)
(* until Close; a returned request holds no socket; and replies go only to *)
(* the client's own address.                                               *)
THEOREM AssociationsOwnedHolds == MCSpec => []AssociationsOwned
<1>1. AssociationInv => A!AssociationsOwned
  <2> SUFFICES ASSUME AssociationInv PROVE A!AssociationsOwned
    OBVIOUS
  <2>1. ASSUME closing = "closed", NEW r \in Relays, socket[r] = "open"
        PROVE  handler[r] = "listening"
    BY Zenon, <2>1 DEF AssociationInv, A!UDPTypeOK, TableShut, Owned, Held, Released, Serving
  <2>2. ASSUME NEW r \in Relays, handler[r] = "loop", closing = "no"
        PROVE  r \in udpRelays
    BY Zenon, <2>2 DEF AssociationInv, Owned, Held, Serving
  <2>3. \A r \in Relays : peer[r] # A!Stranger /\ (handler[r] = "returned" => socket[r] # "open")
    BY Zenon DEF AssociationInv, Owned, Released
  <2> QED
    BY Zenon, <2>1, <2>2, <2>3 DEF A!AssociationsOwned
<1>2. StreamsInv => AssociationsOwned
  BY <1>1 DEF StreamsInv, AssociationsOwned
<1> QED
  BY <1>2, StreamsInit, StreamsNext, PTL DEF MCSpec
=============================================================================
