-------------------------- MODULE UartReceiveProofs --------------------------
(***************************************************************************)
(* Proofs about UartReceive, for every size of ring and queue, every       *)
(* checksum with values of a byte and whatever the computer sends: the     *)
(* type invariant; that a received packet that waits for main_task is      *)
(* intact unless more packets than the ring has to spare have met a full   *)
(* queue since; that a packet sent into silence puts the reader in step;   *)
(* and that packets are accepted in the order in which they were sent.     *)
(* For a checksum that tells the packets of the computer from what may be  *)
(* read of them: that what is accepted in time is what was sent, and that  *)
(* what is completed from leftovers is a packet that was sent before.      *)
(*                                                                         *)
(* What must be known for the second: which packet is in which buffer of   *)
(* the ring (RingInv), and that the packets handed over since a queued one *)
(* are queued behind it or have met a full queue (QueueInv).  For the      *)
(* third: that what is still to be read is just what was sent, from the    *)
(* next packet on or from behind its header (Ahead).  For the others: that *)
(* what is still to be read, wherever the reader is, are bytes of packets  *)
(* in their order, of which no more are missing than were lost             *)
(* (ReadingInv, FewMissing), behind all that was accepted (PassedInv) and  *)
(* all that is left in the buffer (LeftInv).                               *)
(***************************************************************************)
EXTENDS UartReceive, FiniteSetTheorems, SequenceTheorems, TLAPS

\* The packets the ring has been left for, and those that are handed over.
Started == IF pc = "head" THEN Len(accepted) - 1 ELSE Len(accepted)
Completed == IF pc \in {"header", "payload"} THEN Len(accepted) ELSE Len(accepted) - 1

IsSeq(s) == \E S : s \in Seq(S)

Types ==
    /\ pc \in {"header", "payload", "head", "data", "send"}
    /\ IsSeq(accepted)
    /\ pc \in {"head", "data", "send"} => Len(accepted) > 0
    /\ uart_recv_buffer_num \in Buffers
    /\ task_packet \in Buffers
    /\ global_uart_receive_buffers \in [Buffers -> [head : Nat, data : Nat]]
    /\ main_queue \in Seq(Events) /\ Len(main_queue) <= QueueLen
    /\ late \subseteq 1 .. Len(accepted)

\* The last packet whose turn buffer b was.
Turn(b) == Started - (uart_recv_buffer_num - 1 - b)
             - (IF b < uart_recv_buffer_num THEN 0 ELSE BuffersNum)

RingInv ==
    /\ \A b \in Buffers :
        LET packet == global_uart_receive_buffers[b]
        IN  /\ packet.head # 0 => packet.head = Turn(b)
            /\ packet.data # packet.head => pc = "data" /\ b = task_packet
    /\ pc \in {"data", "send"} => global_uart_receive_buffers[task_packet].head = Len(accepted)

\* The elements of S after t, and those of them up to n.
After(S, t) == {x \in S : x > t}
Between(S, t, n) == {x \in S : x > t /\ x <= n}

\* The packets after s that have met a full queue, up to the n-th.
LateUpTo(s, n) == Between(late, s, n)

QueueInv ==
    \A i \in 1 .. Len(main_queue) :
        LET event == main_queue[i]
        IN  IsPacket(event) =>
                /\ event.seq <= Completed
                /\ Completed - event.seq
                        <= Len(main_queue) - i + Cardinality(LateUpTo(event.seq, Completed))
                /\ \/ global_uart_receive_buffers[event.buffer].head = event.seq
                   \/ Overrun(event) > BuffersNum - QueueLen

IInv == Types /\ RingInv /\ QueueInv

----------------------------------------------------------------------------
(* Sequences and sets *)

LEMMA AppendToSeq ==
    ASSUME NEW s, IsSeq(s), NEW x
    PROVE  IsSeq(Append(s, x)) /\ Len(s) \in Nat /\ Len(Append(s, x)) = Len(s) + 1
<1>1. PICK S : s \in Seq(S)
  BY DEF IsSeq
<1>2. PICK T : T = S \union {x}
  OBVIOUS
<1>3. s \in Seq(T) /\ x \in T
  BY <1>1, <1>2
<1>4. Append(s, x) \in Seq(T) /\ Len(Append(s, x)) = Len(s) + 1 /\ Len(s) \in Nat
  BY <1>3
<1> QED BY <1>4 DEF IsSeq

LEMMA QueueAppend ==
    ASSUME NEW S, NEW s \in Seq(S), NEW e \in S
    PROVE  /\ Append(s, e) \in Seq(S)
           /\ Len(Append(s, e)) = Len(s) + 1
           /\ \A k \in 1 .. Len(s) : Append(s, e)[k] = s[k]
           /\ Append(s, e)[Len(s) + 1] = e
OBVIOUS

LEMMA QueueTail ==
    ASSUME NEW S, NEW s \in Seq(S), s # <<>>
    PROVE  /\ Tail(s) \in Seq(S)
           /\ Len(Tail(s)) = Len(s) - 1 /\ Len(s) \in Nat \ {0}
           /\ \A k \in 1 .. Len(s) - 1 : Tail(s)[k] = s[k + 1]
OBVIOUS

LEMMA FiniteLate ==
    ASSUME NEW m \in Nat, NEW L, L \subseteq 1 .. m
    PROVE  IsFiniteSet(L)
<1>1. IsFiniteSet(1 .. m)
  BY FS_Interval
<1> QED BY <1>1, FS_Subset

\* More elements, no smaller a set; one that is new, a larger one.
LEMMA MoreLate ==
    ASSUME NEW m \in Nat, NEW L, L \subseteq 1 .. m, NEW K, K \subseteq L
    PROVE  /\ Cardinality(K) \in Nat /\ Cardinality(L) \in Nat
           /\ Cardinality(K) <= Cardinality(L)
           /\ \A x \in L \ K : Cardinality(L) >= Cardinality(K) + 1
<1>1. IsFiniteSet(L) /\ IsFiniteSet(K)
  BY FiniteLate, FS_Subset
<1>2. /\ Cardinality(K) \in Nat /\ Cardinality(L) \in Nat
      /\ Cardinality(K) <= Cardinality(L)
  BY <1>1, FS_CardinalityType, FS_Subset
<1>3. ASSUME NEW x \in L \ K PROVE Cardinality(L) >= Cardinality(K) + 1
  <2>1. PICK Kx : Kx = K \union {x}
    OBVIOUS
  <2>2. Cardinality(Kx) = Cardinality(K) + 1 /\ Kx \subseteq L
    BY <1>1, <1>3, <2>1, FS_AddElement
  <2>3. Cardinality(Kx) <= Cardinality(L)
    BY <1>1, <2>2, FS_Subset
  <2> QED BY <1>2, <2>2, <2>3
<1> QED BY <1>2, <1>3

----------------------------------------------------------------------------
(* The invariant *)

LEMMA Initially == Init => IInv
<1> SUFFICES ASSUME Init PROVE IInv
  OBVIOUS
<1>1. IsSeq(accepted) /\ Len(accepted) = 0
  <2>1. accepted \in Seq({})
    BY DEF Init
  <2> QED BY <2>1 DEF IsSeq, Init
<1>2. Types
  <2>1. main_queue \in Seq(Events) /\ Len(main_queue) <= QueueLen
    BY QueueLenAssumption DEF Init
  <2>2. 0 \in Buffers
    BY BuffersNumAssumption DEF Buffers
  <2> QED BY <1>1, <2>1, <2>2 DEF Init, Types
<1>3. RingInv
  BY DEF Init, RingInv
<1>4. QueueInv
  BY DEF Init, QueueInv
<1> QED BY <1>2, <1>3, <1>4 DEF IInv

\* Steps that neither hand over nor take anything.
LEMMA SameNumbers ==
    ASSUME IInv, UNCHANGED <<ringVars, main_queue, late>>, Types',
           Started' = Started, Completed' = Completed,
           pc' \in {"data", "send"} => pc' = pc /\ accepted' = accepted,
           pc = "data" => pc' = "data"
    PROVE  IInv'
<1> USE DEF IInv
<1>1. RingInv'
  BY DEF RingInv, Turn, ringVars
<1>2. QueueInv'
  <2>1. \A s : LateUpTo(s, Completed)' = LateUpTo(s, Completed)
    BY DEF LateUpTo, Between
  <2>2. \A e : Overrun(e)' = Overrun(e)
    BY DEF Overrun
  <2> QED BY <2>1, <2>2 DEF QueueInv, ringVars
<1> QED BY <1>1, <1>2

\* Reading a packet, and everything before it.
LEMMA ReadingStep ==
    ASSUME IInv, UNCHANGED <<ringVars, queueVars>>, pc \in {"header", "payload"} \/ pc' = pc,
           \/ accepted' = accepted /\ (pc' = pc \/ pc' \in {"header", "payload"})
           \/ /\ pc \in {"header", "payload"} /\ pc' = "head"
              /\ \E x : accepted' = Append(accepted, x)
    PROVE  IInv'
<1>1. CASE accepted' = accepted /\ (pc' = pc \/ pc' \in {"header", "payload"})
  <2>1. Types'
    BY <1>1 DEF IInv, Types, ringVars, queueVars
  <2>2. Started' = Started /\ Completed' = Completed
    BY <1>1 DEF Started, Completed
  <2> QED BY <1>1, <2>1, <2>2, SameNumbers DEF queueVars
<1>2. CASE /\ pc \in {"header", "payload"} /\ pc' = "head"
           /\ \E x : accepted' = Append(accepted, x)
  <2>1. IsSeq(accepted') /\ Len(accepted) \in Nat /\ Len(accepted') = Len(accepted) + 1
    BY <1>2, AppendToSeq DEF IInv, Types
  <2>2. Types'
    BY <1>2, <2>1 DEF IInv, Types, ringVars, queueVars
  <2>3. Started' = Started /\ Completed' = Completed
    BY <1>2, <2>1 DEF Started, Completed
  <2> QED BY <1>2, <2>2, <2>3, SameNumbers DEF queueVars
<1> QED BY <1>1, <1>2

\* The next buffer of the ring is the one whose turn is longest ago.
LEMMA NextTurn ==
    ASSUME IInv, pc = "head", pc' = "data", accepted' = accepted,
           uart_recv_buffer_num' = NextBuffer(uart_recv_buffer_num)
    PROVE  /\ Turn(uart_recv_buffer_num) = Len(accepted) - BuffersNum
           /\ \A b \in Buffers :
                Turn(b)' = IF b = uart_recv_buffer_num THEN Len(accepted) ELSE Turn(b)
<1>1. PICK n, u : n = Len(accepted) /\ u = uart_recv_buffer_num
  OBVIOUS
<1>2. n \in Nat /\ u \in 0 .. BuffersNum - 1 /\ BuffersNum \in Nat \ {0}
  BY <1>1, AppendToSeq, BuffersNumAssumption DEF IInv, Types, Buffers
<1>3. Started = n - 1 /\ Started' = n
  BY <1>1 DEF Started
<1>4. Turn(u) = n - BuffersNum
  BY <1>1, <1>2, <1>3 DEF Turn
<1>5. uart_recv_buffer_num' = IF u >= BuffersNum - 1 THEN 0 ELSE u + 1
  BY <1>1 DEF NextBuffer
<1>6. ASSUME NEW b \in Buffers PROVE Turn(b)' = IF b = u THEN n ELSE Turn(b)
  <2>1. b \in 0 .. BuffersNum - 1
    BY DEF Buffers
  <2>2. Turn(b)' = n - (uart_recv_buffer_num' - 1 - b)
                     - (IF b < uart_recv_buffer_num' THEN 0 ELSE BuffersNum)
    BY <1>3 DEF Turn
  <2>3. Turn(b) = n - 1 - (u - 1 - b) - (IF b < u THEN 0 ELSE BuffersNum)
    BY <1>1, <1>3 DEF Turn
  <2>4. CASE u = BuffersNum - 1
    <3>1. uart_recv_buffer_num' = 0
      BY <1>2, <1>5, <2>4
    <3> QED BY <1>2, <2>1, <2>2, <2>3, <2>4, <3>1
  <2>5. CASE u # BuffersNum - 1
    <3>1. uart_recv_buffer_num' = u + 1
      BY <1>2, <1>5, <2>5
    <3> QED BY <1>2, <2>1, <2>2, <2>3, <2>5, <3>1
  <2> QED BY <2>4, <2>5
<1> QED BY <1>1, <1>4, <1>6

LEMMA FillDataStep == IInv /\ FillData => IInv'
<1> SUFFICES ASSUME IInv, FillData PROVE IInv'
  OBVIOUS
<1>1. PICK n, b : n = Len(accepted) /\ b = task_packet
  OBVIOUS
<1>2. n \in Nat /\ b \in Buffers
  BY <1>1, AppendToSeq DEF IInv, Types
<1>3. /\ pc = "data" /\ pc' = "send" /\ accepted' = accepted
      /\ uart_recv_buffer_num' = uart_recv_buffer_num /\ task_packet' = task_packet
      /\ main_queue' = main_queue /\ late' = late
      /\ global_uart_receive_buffers' = [global_uart_receive_buffers EXCEPT ![b].data = n]
  BY <1>1 DEF FillData, readVars, queueVars, Current
<1>4. Types'
  BY <1>2, <1>3 DEF IInv, Types
<1>5. Started' = Started /\ Completed' = Completed
  BY <1>3 DEF Started, Completed
<1>6. ASSUME NEW c \in Buffers
      PROVE  /\ global_uart_receive_buffers'[c].head = global_uart_receive_buffers[c].head
             /\ global_uart_receive_buffers'[c].data
                    = IF c = b THEN n ELSE global_uart_receive_buffers[c].data
  BY <1>2, <1>3 DEF IInv, Types
<1>7. global_uart_receive_buffers[b].head = n
  BY <1>1, <1>3 DEF IInv, RingInv
<1>8. RingInv'
  <2>1. \A c \in Buffers : Turn(c)' = Turn(c)
    BY <1>3, <1>5 DEF Turn
  <2>2. ASSUME NEW c \in Buffers
        PROVE  /\ global_uart_receive_buffers'[c].head # 0
                    => global_uart_receive_buffers'[c].head = Turn(c)
               /\ global_uart_receive_buffers'[c].data = global_uart_receive_buffers'[c].head
    BY <1>1, <1>6, <1>7, <2>2 DEF IInv, RingInv
  <2>3. global_uart_receive_buffers'[b].head = n
    BY <1>2, <1>6, <1>7
  <2> QED BY <1>1, <1>3, <2>1, <2>2, <2>3 DEF RingInv
<1>9. QueueInv'
  <2>1. \A e : Overrun(e)' = Overrun(e)
    BY <1>3 DEF Overrun
  <2>2. \A t : LateUpTo(t, Completed)' = LateUpTo(t, Completed)
    BY <1>3, <1>5 DEF LateUpTo
  <2>3. \A i \in 1 .. Len(main_queue) :
            IsPacket(main_queue[i]) => main_queue[i].buffer \in Buffers
    BY DEF IInv, Types, Events, IsPacket, OtherEvent
  <2> QED BY <1>3, <1>5, <1>6, <2>1, <2>2, <2>3 DEF IInv, QueueInv
<1> QED BY <1>4, <1>8, <1>9 DEF IInv

\* What is recorded of the packets after t only becomes more, and one more if it is
\* the packet being handed over.
LEMMA LateGrows ==
    ASSUME NEW n \in Nat \ {0}, NEW K, K \subseteq 1 .. n, NEW L, L = K \/ L = K \union {n},
           NEW t \in Nat, t < n
    PROVE  /\ Between(L, t, n - 1) = Between(K, t, n - 1)
           /\ Cardinality(Between(K, t, n - 1)) \in Nat
           /\ Cardinality(After(K, t)) \in Nat /\ Cardinality(After(L, t)) \in Nat
           /\ Cardinality(After(L, t)) >= Cardinality(After(K, t))
           /\ Cardinality(After(L, t)) >= Cardinality(Between(K, t, n - 1))
           /\ n \in L => Cardinality(After(L, t)) >= Cardinality(Between(K, t, n - 1)) + 1
<1>1. PICK before, KT, LT :
            /\ before = Between(K, t, n - 1) /\ before = {x \in K : x > t /\ x <= n - 1}
            /\ KT = After(K, t) /\ KT = {x \in K : x > t}
            /\ LT = After(L, t) /\ LT = {x \in L : x > t}
  BY DEF After, Between
<1>2. n \in 1 .. n /\ K \subseteq L
  OBVIOUS
<1>3. L \subseteq 1 .. n
  BY <1>2
<1>4. \A x \in L : x \in 1 .. n /\ (x \in K \/ x = n)
  BY <1>3
<1>5. LT \subseteq 1 .. n /\ KT \subseteq LT /\ before \subseteq LT
  BY <1>1, <1>2, <1>3
<1>6. {x \in L : x > t /\ x <= n - 1} = before
  <2>1. ASSUME NEW x \in L, x > t, x <= n - 1 PROVE x \in before
    <3>1. x \in K
      BY <1>4, <2>1
    <3> QED BY <1>1, <2>1, <3>1
  <2>2. ASSUME NEW x \in before PROVE x \in L /\ x > t /\ x <= n - 1
    BY <1>1, <1>2, <2>2
  <2> QED BY <2>1, <2>2
<1>7. n \in L => n \in LT \ before
  BY <1>1
<1>8. /\ Cardinality(before) \in Nat /\ Cardinality(LT) \in Nat
      /\ Cardinality(before) <= Cardinality(LT)
      /\ \A x \in LT \ before : Cardinality(LT) >= Cardinality(before) + 1
  BY <1>5, MoreLate
<1>9. Cardinality(KT) \in Nat /\ Cardinality(KT) <= Cardinality(LT)
  BY <1>5, MoreLate
<1>10. Between(L, t, n - 1) = before
  BY <1>6 DEF Between
<1> QED BY <1>1, <1>10, <1>7, <1>8, <1>9

LEMMA FillHeadStep == IInv /\ FillHead => IInv'
<1> SUFFICES ASSUME IInv, FillHead PROVE IInv'
  OBVIOUS
<1>1. PICK n, u : n = Len(accepted) /\ u = uart_recv_buffer_num
  OBVIOUS
<1>2. /\ pc = "head" /\ pc' = "data" /\ accepted' = accepted
      /\ task_packet' = u /\ uart_recv_buffer_num' = NextBuffer(uart_recv_buffer_num)
      /\ global_uart_receive_buffers' = [global_uart_receive_buffers EXCEPT ![u].head = n]
      /\ late' = (IF IsFull(main_queue, QueueLen) THEN late \union {n} ELSE late)
      /\ main_queue' = main_queue
  BY <1>1 DEF FillHead, readVars, Current, LateNow
<1>3. n \in Nat /\ n > 0 /\ u \in Buffers
  BY <1>1, <1>2, AppendToSeq DEF IInv, Types
<1>4. BuffersNum \in Nat \ {0} /\ QueueLen \in Nat \ {0} /\ Len(main_queue) \in Nat
  BY BuffersNumAssumption, QueueLenAssumption DEF IInv, Types
<1>5. Completed = n - 1 /\ Completed' = n - 1
  BY <1>1, <1>2 DEF Completed
<1>6. NextBuffer(u) \in Buffers
  BY <1>3, <1>4 DEF NextBuffer, Buffers
<1>7. Types'
  <2>1. late' \subseteq 1 .. n
    BY <1>1, <1>2, <1>3 DEF IInv, Types
  <2> QED BY <1>1, <1>2, <1>3, <1>6, <2>1 DEF IInv, Types
<1>8. ASSUME NEW b \in Buffers
      PROVE  /\ global_uart_receive_buffers'[b].head
                    = IF b = u THEN n ELSE global_uart_receive_buffers[b].head
             /\ global_uart_receive_buffers'[b].data = global_uart_receive_buffers[b].data
  BY <1>2, <1>3 DEF IInv, Types
<1>9. /\ Turn(u) = n - BuffersNum
      /\ \A b \in Buffers : Turn(b)' = IF b = u THEN n ELSE Turn(b)
  BY <1>1, <1>2, NextTurn
<1>10. RingInv'
  <2>1. ASSUME NEW b \in Buffers
        PROVE  /\ global_uart_receive_buffers'[b].head # 0
                    => global_uart_receive_buffers'[b].head = Turn(b)'
               /\ global_uart_receive_buffers'[b].data # global_uart_receive_buffers'[b].head
                    => b = u
    <3>1. CASE b = u
      BY <1>3, <1>8, <1>9, <3>1
    <3>2. CASE b # u
      BY <1>2, <1>8, <1>9, <3>2 DEF IInv, RingInv
    <3> QED BY <3>1, <3>2
  <2>2. global_uart_receive_buffers'[u].head = n
    BY <1>3, <1>8
  <2> QED BY <1>1, <1>2, <2>1, <2>2 DEF RingInv
<1>11. ASSUME NEW i \in 1 .. Len(main_queue), NEW event, event = main_queue[i], IsPacket(event)
       PROVE  /\ event.seq <= n - 1
              /\ n - 1 - event.seq
                    <= Len(main_queue) - i + Cardinality(LateUpTo(event.seq, Completed)')
              /\ \/ global_uart_receive_buffers'[event.buffer].head = event.seq
                 \/ Overrun(event)' > BuffersNum - QueueLen
  <2>1. event \in Events /\ event.buffer \in Buffers /\ event.seq \in Nat \ {0}
    BY <1>11 DEF IInv, Types, Events, IsPacket, OtherEvent
  <2>2. PICK t, before, overrun, after :
            /\ t = event.seq
            /\ before = Cardinality(Between(late, t, n - 1))
            /\ overrun = Cardinality(After(late, t)) /\ after = Cardinality(After(late', t))
    OBVIOUS
  <2>3. /\ t <= n - 1
        /\ n - 1 - t <= Len(main_queue) - i + before
        /\ \/ global_uart_receive_buffers[event.buffer].head = t
           \/ overrun > BuffersNum - QueueLen
    BY <1>5, <1>11, <2>2 DEF IInv, QueueInv, LateUpTo, Overrun, After
  <2>4. late \subseteq 1 .. n /\ (late' = late \/ late' = late \union {n}) /\ t < n /\ t \in Nat
    BY <1>1, <1>2, <1>3, <2>1, <2>2, <2>3 DEF IInv, Types
  <2>5. /\ before \in Nat /\ overrun \in Nat /\ after \in Nat
        /\ Between(late', t, n - 1) = Between(late, t, n - 1)
        /\ after >= overrun /\ after >= before
        /\ n \in late' => after >= before + 1
    <3>1. PICK K, L : K = late /\ L = late'
      OBVIOUS
    <3>2. K \subseteq 1 .. n /\ (L = K \/ L = K \union {n}) /\ n \in Nat \ {0}
      BY <1>3, <2>4, <3>1
    <3>3. t \in Nat /\ t < n
      BY <2>4
    <3>4. /\ Between(L, t, n - 1) = Between(K, t, n - 1)
          /\ Cardinality(Between(K, t, n - 1)) \in Nat
          /\ Cardinality(After(K, t)) \in Nat /\ Cardinality(After(L, t)) \in Nat
          /\ Cardinality(After(L, t)) >= Cardinality(After(K, t))
          /\ Cardinality(After(L, t)) >= Cardinality(Between(K, t, n - 1))
          /\ n \in L => Cardinality(After(L, t)) >= Cardinality(Between(K, t, n - 1)) + 1
      BY <3>2, <3>3, LateGrows
    <3> QED BY <2>2, <3>1, <3>4
  <2>6. Cardinality(LateUpTo(event.seq, Completed)') = before
    BY <1>5, <1>11, <2>2, <2>5 DEF LateUpTo
  <2>7. Overrun(event)' = after
    BY <1>11, <2>2 DEF Overrun, After
  <2>8. CASE overrun > BuffersNum - QueueLen
    BY <1>4, <2>2, <2>3, <2>5, <2>6, <2>7, <2>8
  <2>9. CASE global_uart_receive_buffers[event.buffer].head = t /\ event.buffer # u
    BY <1>8, <2>1, <2>2, <2>3, <2>6, <2>9
  <2>10. CASE global_uart_receive_buffers[event.buffer].head = t /\ event.buffer = u
    <3>1. t = n - BuffersNum
      BY <1>3, <1>9, <2>1, <2>2, <2>10 DEF IInv, RingInv
    <3>2. BuffersNum - 1 <= Len(main_queue) - i + before
      BY <1>3, <1>4, <2>3, <3>1
    <3>3. CASE IsFull(main_queue, QueueLen)
      <4>1. after >= before + 1 /\ Len(main_queue) <= QueueLen
        BY <1>2, <2>5, <3>3 DEF IInv, Types
      <4>2. after > BuffersNum - QueueLen
        BY <1>4, <2>5, <3>2, <4>1
      <4> QED BY <2>2, <2>3, <2>6, <2>7, <4>2
    <3>4. CASE ~IsFull(main_queue, QueueLen)
      <4>1. Len(main_queue) <= QueueLen - 1
        BY <1>4, <3>4 DEF IsFull
      <4>2. after > BuffersNum - QueueLen
        BY <1>4, <2>5, <3>2, <4>1
      <4> QED BY <2>2, <2>3, <2>6, <2>7, <4>2
    <3> QED BY <3>3, <3>4
  <2> QED BY <2>3, <2>8, <2>9, <2>10
<1>12. QueueInv'
  BY <1>2, <1>5, <1>11 DEF QueueInv
<1> QED BY <1>7, <1>10, <1>12 DEF IInv

\* Whoever else sends to main_task, and main_task itself.
LEMMA QueueStep ==
    ASSUME IInv, UNCHANGED <<ringVars, pc, accepted, late>>,
           main_queue' \in Seq(Events), Len(main_queue') <= QueueLen,
           \A k \in 1 .. Len(main_queue') :
                IsPacket(main_queue'[k]) =>
                    \E i \in 1 .. Len(main_queue) :
                        /\ main_queue[i] = main_queue'[k]
                        /\ Len(main_queue) - i <= Len(main_queue') - k
    PROVE  IInv'
<1>1. Types'
  BY DEF IInv, Types, ringVars
<1>2. Started' = Started /\ Completed' = Completed
  BY DEF Started, Completed
<1>3. RingInv'
  BY <1>2 DEF IInv, RingInv, Turn, ringVars
<1>4. /\ \A t : LateUpTo(t, Completed)' = LateUpTo(t, Completed)
      /\ \A e : Overrun(e)' = Overrun(e)
  BY <1>2 DEF LateUpTo, Overrun
<1>5. Len(main_queue) \in Nat /\ Len(main_queue') \in Nat /\ Completed \in Int
  <2>1. Len(accepted) \in Nat
    BY AppendToSeq DEF IInv, Types
  <2> QED BY <2>1 DEF IInv, Types, Completed
<1>6. ASSUME NEW k \in 1 .. Len(main_queue'), NEW event, event = main_queue'[k], IsPacket(event)
      PROVE  /\ event.seq <= Completed
             /\ Completed - event.seq
                    <= Len(main_queue') - k + Cardinality(LateUpTo(event.seq, Completed))
             /\ \/ global_uart_receive_buffers[event.buffer].head = event.seq
                \/ Overrun(event) > BuffersNum - QueueLen
  <2>1. PICK i \in 1 .. Len(main_queue) :
            event = main_queue[i] /\ Len(main_queue) - i <= Len(main_queue') - k
    BY <1>6
  <2>2. PICK t, c : t = event.seq /\ c = Cardinality(LateUpTo(event.seq, Completed))
    OBVIOUS
  <2>3. t \in Nat
    BY <1>6, <2>1, <2>2 DEF IInv, Types, Events, IsPacket, OtherEvent
  <2>4. c \in Nat
    <3>1. Len(accepted) \in Nat /\ late \subseteq 1 .. Len(accepted)
      BY AppendToSeq DEF IInv, Types
    <3>2. LateUpTo(event.seq, Completed) \subseteq late
      BY DEF LateUpTo, Between
    <3> QED BY <2>2, <3>1, <3>2, MoreLate
  <2>5. /\ t <= Completed /\ Completed - t <= Len(main_queue) - i + c
        /\ \/ global_uart_receive_buffers[event.buffer].head = t
           \/ Overrun(event) > BuffersNum - QueueLen
    BY <1>6, <2>1, <2>2 DEF IInv, QueueInv
  <2>6. Completed - t <= Len(main_queue') - k + c
    <3>1. PICK now, then, done \in Int :
            now = Len(main_queue') /\ then = Len(main_queue) /\ done = Completed
      BY <1>5
    <3>2. i \in Int /\ k \in Int /\ then - i <= now - k /\ done - t <= then - i + c
      BY <1>5, <2>1, <2>5, <3>1
    <3>3. done - t <= now - k + c
      BY <2>3, <2>4, <3>2
    <3> QED BY <3>1, <3>3
  <2> QED BY <2>2, <2>5, <2>6, Zenon
<1>7. QueueInv'
  BY <1>2, <1>4, <1>6 DEF QueueInv, ringVars
<1> QED BY <1>1, <1>3, <1>7 DEF IInv

LEMMA PostOtherStep == IInv /\ PostOther => IInv'
<1> SUFFICES ASSUME IInv, PostOther PROVE IInv'
  OBVIOUS
<1>1. /\ UNCHANGED <<ringVars, pc, accepted, late>>
      /\ ~IsFull(main_queue, QueueLen) /\ main_queue' = Append(main_queue, OtherEvent)
  BY DEF PostOther, readVars, SendToBack
<1>2. main_queue \in Seq(Events) /\ OtherEvent \in Events /\ Len(main_queue) \in Nat
  BY DEF IInv, Types, Events
<1>3. /\ main_queue' \in Seq(Events) /\ Len(main_queue') = Len(main_queue) + 1
      /\ \A k \in 1 .. Len(main_queue) : main_queue'[k] = main_queue[k]
      /\ main_queue'[Len(main_queue) + 1] = OtherEvent
  BY <1>1, <1>2, QueueAppend
<1>4. Len(main_queue') <= QueueLen
  BY <1>1, <1>2, <1>3, QueueLenAssumption DEF IsFull
<1>5. ASSUME NEW k \in 1 .. Len(main_queue'), IsPacket(main_queue'[k])
      PROVE  k \in 1 .. Len(main_queue) /\ main_queue[k] = main_queue'[k]
                /\ Len(main_queue) - k <= Len(main_queue') - k
  <2>1. k # Len(main_queue) + 1
    BY <1>3, <1>5 DEF IsPacket, OtherEvent
  <2> QED BY <1>2, <1>3, <2>1
<1> QED BY <1>1, <1>3, <1>4, <1>5, QueueStep

LEMMA MainHandlesStep == IInv /\ MainHandles => IInv'
<1> SUFFICES ASSUME IInv, MainHandles PROVE IInv'
  OBVIOUS
<1>1. /\ UNCHANGED <<ringVars, pc, accepted, late>>
      /\ main_queue # <<>> /\ main_queue' = Tail(main_queue)
  BY DEF MainHandles, readVars
<1>2. main_queue \in Seq(Events) /\ Len(main_queue) <= QueueLen
  BY DEF IInv, Types
<1>3. /\ main_queue' \in Seq(Events)
      /\ Len(main_queue') = Len(main_queue) - 1 /\ Len(main_queue) \in Nat \ {0}
      /\ \A k \in 1 .. Len(main_queue) - 1 : main_queue'[k] = main_queue[k + 1]
  BY <1>1, <1>2, QueueTail
<1>4. Len(main_queue') <= QueueLen
  BY <1>2, <1>3, QueueLenAssumption
<1>5. ASSUME NEW k \in 1 .. Len(main_queue')
      PROVE  k + 1 \in 1 .. Len(main_queue) /\ main_queue[k + 1] = main_queue'[k]
                /\ Len(main_queue) - (k + 1) <= Len(main_queue') - k
  BY <1>3
<1> QED BY <1>1, <1>3, <1>4, <1>5, QueueStep

LEMMA SendPacketStep == IInv /\ SendPacket => IInv'
<1> SUFFICES ASSUME IInv, SendPacket PROVE IInv'
  OBVIOUS
<1>1. PICK n, b, l : n = Len(accepted) /\ b = task_packet /\ l = Len(main_queue)
  OBVIOUS
<1>2. PICK new : new = [buffer |-> b, seq |-> n]
  OBVIOUS
<1>3. /\ pc = "send" /\ pc' = "header" /\ accepted' = accepted
      /\ uart_recv_buffer_num' = uart_recv_buffer_num /\ task_packet' = task_packet
      /\ global_uart_receive_buffers' = global_uart_receive_buffers
      /\ main_queue' = (IF IsFull(main_queue, QueueLen) THEN main_queue
                                                        ELSE Append(main_queue, new))
      /\ late' = (IF IsFull(main_queue, QueueLen) THEN late \union {n} ELSE late)
  BY <1>1, <1>2 DEF SendPacket, readVars, ringVars, Current, LateNow, SendToBack
<1>4. /\ n \in Nat \ {0} /\ b \in Buffers /\ l \in Nat /\ l <= QueueLen
      /\ QueueLen \in Nat \ {0} /\ BuffersNum \in Nat \ {0}
      /\ main_queue \in Seq(Events) /\ late \subseteq 1 .. n
  BY <1>1, <1>3, AppendToSeq, QueueLenAssumption, BuffersNumAssumption DEF IInv, Types
<1>5. Completed = n - 1 /\ Completed' = n /\ Started' = Started
  BY <1>1, <1>3 DEF Completed, Started
<1>6. new \in Events /\ new.buffer = b /\ new.seq = n
  BY <1>2, <1>4 DEF Events
<1>7. /\ main_queue' \in Seq(Events) /\ Len(main_queue') \in Nat /\ Len(main_queue') <= QueueLen
      /\ \A k \in 1 .. Len(main_queue') :
            \/ k \in 1 .. l /\ main_queue'[k] = main_queue[k]
            \/ k = Len(main_queue') /\ main_queue'[k] = new
      /\ Len(main_queue') = IF IsFull(main_queue, QueueLen) THEN l ELSE l + 1
  <2>1. CASE IsFull(main_queue, QueueLen)
    BY <1>1, <1>3, <1>4, <2>1
  <2>2. CASE ~IsFull(main_queue, QueueLen)
    <3>1. /\ main_queue' \in Seq(Events) /\ Len(main_queue') = l + 1
          /\ \A k \in 1 .. l : main_queue'[k] = main_queue[k]
          /\ main_queue'[l + 1] = new
      BY <1>1, <1>3, <1>4, <1>6, <2>2, QueueAppend
    <3>2. l + 1 <= QueueLen
      BY <1>1, <1>4, <2>2 DEF IsFull
    <3> QED BY <1>4, <2>2, <3>1, <3>2
  <2> QED BY <2>1, <2>2
<1>8. late' \subseteq 1 .. n /\ (late' = late \/ late' = late \union {n})
      /\ (IsFull(main_queue, QueueLen) => n \in late')
  BY <1>3, <1>4
<1>9. Types'
  BY <1>1, <1>3, <1>7, <1>8 DEF IInv, Types
<1>10. RingInv'
  BY <1>3, <1>5 DEF IInv, RingInv, Turn
<1>11. ASSUME NEW k \in 1 .. Len(main_queue'), NEW event, event = main_queue'[k],
              IsPacket(event)
       PROVE  /\ event.seq <= n
              /\ n - event.seq
                    <= Len(main_queue') - k + Cardinality(LateUpTo(event.seq, Completed)')
              /\ \/ global_uart_receive_buffers[event.buffer].head = event.seq
                 \/ Overrun(event)' > BuffersNum - QueueLen
  <2>1. PICK t, after : t = event.seq /\ after = Cardinality(After(late', t))
    OBVIOUS
  <2>2. Overrun(event)' = after
    BY <1>11, <2>1 DEF Overrun, After
  <2>3. Cardinality(LateUpTo(event.seq, Completed)') = after
    <3>1. Between(late', t, n) = After(late', t)
      <4>1. \A x \in late' : x <= n
        BY <1>4, <1>8
      <4> QED BY <4>1 DEF Between, After
    <3> QED BY <1>5, <1>11, <2>1, <3>1 DEF LateUpTo
  <2>4. CASE event = new
    <3>1. after \in Nat
      <4>1. PICK L, T : L = late' /\ T = After(L, t)
        OBVIOUS
      <4>2. L \subseteq 1 .. n /\ T \subseteq L /\ n \in Nat
        BY <1>4, <1>8, <4>1 DEF After
      <4>3. Cardinality(T) \in Nat
        BY <4>2, MoreLate
      <4> QED BY <2>1, <4>1, <4>3
    <3>2. global_uart_receive_buffers[b].head = n
      BY <1>1, <1>3 DEF IInv, RingInv
    <3> QED BY <1>4, <1>6, <1>7, <2>1, <2>3, <2>4, <3>1, <3>2
  <2>5. CASE k \in 1 .. l /\ event = main_queue[k]
    <3>1. event \in Events /\ t \in Nat
      BY <1>1, <1>4, <1>11, <2>1, <2>5 DEF Events, IsPacket, OtherEvent
    <3>2. PICK before, overrun :
            before = Cardinality(Between(late, t, n - 1)) /\ overrun = Cardinality(After(late, t))
      OBVIOUS
    <3>3. /\ t <= n - 1 /\ n - 1 - t <= l - k + before
          /\ \/ global_uart_receive_buffers[event.buffer].head = t
             \/ overrun > BuffersNum - QueueLen
      BY <1>1, <1>5, <1>11, <2>1, <2>5, <3>2 DEF IInv, QueueInv, LateUpTo, Overrun, After
    <3>4. /\ before \in Nat /\ overrun \in Nat /\ after \in Nat
          /\ after >= overrun /\ after >= before
          /\ n \in late' => after >= before + 1
      <4>1. PICK K, L : K = late /\ L = late'
        OBVIOUS
      <4>2. K \subseteq 1 .. n /\ (L = K \/ L = K \union {n}) /\ n \in Nat \ {0}
        BY <1>4, <1>8, <4>1
      <4>3. t < n
        BY <1>4, <3>1, <3>3
      <4>4. /\ Cardinality(Between(K, t, n - 1)) \in Nat
            /\ Cardinality(After(K, t)) \in Nat /\ Cardinality(After(L, t)) \in Nat
            /\ Cardinality(After(L, t)) >= Cardinality(After(K, t))
            /\ Cardinality(After(L, t)) >= Cardinality(Between(K, t, n - 1))
            /\ n \in L => Cardinality(After(L, t)) >= Cardinality(Between(K, t, n - 1)) + 1
        BY <3>1, <4>2, <4>3, LateGrows
      <4> QED BY <2>1, <3>2, <4>1, <4>4
    <3>5. n - t <= Len(main_queue') - k + after
      BY <1>4, <1>7, <1>8, <2>5, <3>1, <3>3, <3>4
    <3>6. global_uart_receive_buffers[event.buffer].head = t \/ after > BuffersNum - QueueLen
      BY <1>4, <3>3, <3>4
    <3> QED BY <1>4, <2>1, <2>2, <2>3, <3>1, <3>3, <3>5, <3>6
  <2> QED BY <1>7, <1>11, <2>4, <2>5
<1>12. QueueInv'
  BY <1>3, <1>5, <1>11 DEF QueueInv
<1> QED BY <1>9, <1>10, <1>12 DEF IInv

\* Every step preserves the invariant.
LEMMA Preserved == IInv /\ [Next]_vars => IInv'
<1> SUFFICES ASSUME IInv, [Next]_vars PROVE IInv'
  OBVIOUS
<1>1. CASE UNCHANGED vars
  BY <1>1, ReadingStep DEF vars, readVars
<1>2. ASSUME NEW kind \in Kinds, ComputerSends(kind) PROVE IInv'
  BY <1>2, ReadingStep DEF ComputerSends, readVars
<1>3. CASE ByteArrives
  BY <1>3, ReadingStep DEF ByteArrives, readVars
<1>4. CASE ByteLost
  BY <1>4, ReadingStep DEF ByteLost, readVars
<1>5. CASE ReadHeader
  BY <1>5, ReadingStep DEF ReadHeader
<1>6. CASE HeaderTimeout
  BY <1>6, ReadingStep DEF HeaderTimeout
<1>7. ASSUME NEW wanted, NEW inTime, pc = "payload", Check(wanted, inTime) PROVE IInv'
  <2>1. /\ UNCHANGED <<ringVars, queueVars>>
        /\ \/ pc' = "head" /\ \E x : accepted' = Append(accepted, x)
           \/ pc' = "header" /\ accepted' = accepted
    BY <1>7 DEF Check
  <2> QED BY <1>7, <2>1, ReadingStep
<1>8. CASE ReadPayload
  BY <1>7, <1>8 DEF ReadPayload
<1>9. CASE PayloadTimeout
  BY <1>7, <1>9 DEF PayloadTimeout
<1>10. CASE UartRxTask
  BY <1>5, <1>6, <1>8, <1>9, <1>10, FillHeadStep, FillDataStep, SendPacketStep DEF UartRxTask
<1> QED BY <1>1, <1>2, <1>3, <1>4, <1>10, PostOtherStep, MainHandlesStep DEF Next

\* The buffer of a queued packet either is the packet's still or has been overrun: the
\* data is of the same packet as the head, which only the last packet's need not be.
LEMMA Implied == IInv => QueuedUntilOverrun
<1> SUFFICES ASSUME IInv, NEW i \in 1 .. Len(main_queue), IsPacket(main_queue[i]),
                    Overrun(main_queue[i]) <= BuffersNum - QueueLen
             PROVE  global_uart_receive_buffers[main_queue[i].buffer]
                        = [head |-> main_queue[i].seq, data |-> main_queue[i].seq]
  BY DEF QueuedUntilOverrun
<1>1. PICK event, t, b : event = main_queue[i] /\ t = event.seq /\ b = event.buffer
  OBVIOUS
<1>2. t \in Nat \ {0} /\ b \in Buffers
  BY <1>1 DEF IInv, Types, Events, IsPacket, OtherEvent
<1>3. Len(accepted) \in Nat /\ BuffersNum \in Nat /\ QueueLen \in Nat
      /\ late \subseteq 1 .. Len(accepted)
  BY AppendToSeq, BuffersNumAssumption, QueueLenAssumption DEF IInv, Types
<1>4. Overrun(event) \in Nat
  <2>1. {s \in late : s > event.seq} \subseteq late
    OBVIOUS
  <2> QED BY <1>3, <2>1, MoreLate DEF Overrun
<1>5. t <= Completed /\ global_uart_receive_buffers[b].head = t
  BY <1>1, <1>3, <1>4 DEF IInv, QueueInv
<1>6. global_uart_receive_buffers[b].data = global_uart_receive_buffers[b].head
  <2> SUFFICES ASSUME global_uart_receive_buffers[b].data # global_uart_receive_buffers[b].head
               PROVE  FALSE
    OBVIOUS
  <2>1. pc = "data" /\ b = task_packet
    BY <1>2 DEF IInv, RingInv
  <2>2. t = Len(accepted) /\ Completed = Len(accepted) - 1
    BY <1>5, <2>1 DEF IInv, RingInv, Completed
  <2> QED BY <1>3, <1>5, <2>2
<1>7. global_uart_receive_buffers[b] \in [head : Nat, data : Nat]
  BY <1>2 DEF IInv, Types
<1> QED BY <1>1, <1>5, <1>6, <1>7

\* A packet that waits for main_task is the packet that was received, until as many
\* packets as the ring has to spare, and one more, have met a full main queue
\* (uart_task.c:174-179).
THEOREM QueuedSafe == Spec => []QueuedUntilOverrun
<1>1. Init => IInv
  BY Initially
<1>2. IInv /\ [Next]_vars => IInv'
  BY Preserved
<1>3. IInv => QueuedUntilOverrun
  BY Implied
<1> QED BY <1>1, <1>2, <1>3, PTL DEF Spec

----------------------------------------------------------------------------
(* Bytes *)

\* A byte of one of the packets sent so far.
SentBytes == [of : 1 .. Len(packets), at : Nat, value : Byte]
BytesInv ==
    /\ packets \in Seq(Kinds) /\ Len(packets) <= MaxPackets
    /\ line \in Seq(SentBytes) /\ fifo \in Seq(SentBytes) /\ rx_buffer \in Seq(SentBytes)
    /\ heap \in Byte

\* While the payload is read there is a header in the receive buffer.
HeaderRead == pc = "payload" => Len(rx_buffer) >= HeaderSize

\* What is recorded.
RecordInv ==
    /\ heap \in Heap
    /\ accepted \in Seq(Accepted)
    /\ global_uart_receive_buffers \in
            [Buffers -> [head : 0 .. Len(accepted), data : 0 .. Len(accepted)]]
    /\ clean \subseteq 1 .. Len(packets)
    /\ disturbed \subseteq 1 .. Len(packets)
    /\ lost \in 0 .. MaxLost

\* An identifier is two bytes.
LEMMA TwoBytes ==
    ASSUME NEW iden \in Idens
    PROVE  /\ iden % 256 \in Byte /\ iden \div 256 \in Byte
           /\ (iden % 256) + 256 * (iden \div 256) = iden
<1>1. PICK low \in Byte, high \in Byte : iden = low + 256 * high
  BY DEF Idens
<1>2. low \in Nat /\ high \in Nat /\ low < 256
  BY DEF Byte
<1>3. iden % 256 = low /\ iden \div 256 = high
  BY <1>1, <1>2
<1> QED BY <1>1, <1>3

LEMMA EncodedBytes ==
    ASSUME NEW kind \in Kinds
    PROVE  Encoded(kind) \in Seq(Byte)
<1>1. kind \in [iden : Idens, data : Seq(Byte)] /\ Len(kind.data) <= 128
  BY KindsAssumption
<1>2. PICK iden \in Idens, data \in Seq(Byte) : iden = kind.iden /\ data = kind.data
  BY <1>1
<1>3. PICK low, high, size : low = iden % 256 /\ high = iden \div 256 /\ size = Len(data)
  OBVIOUS
<1>4. Covered(kind) \in Seq(Byte)
  <2>1. low \in Byte /\ high \in Byte
    BY <1>3, TwoBytes
  <2>2. size \in Byte
    <3>1. size \in Nat /\ size <= 128
      BY <1>1, <1>2, <1>3
    <3> QED
      BY <3>1 DEF Byte
  <2> DEFINE head == <<low, high, size>>
  <2>3. head \in Seq(Byte)
    BY <2>1, <2>2
  <2> HIDE DEF head
  <2>4. head \o data \in Seq(Byte)
    BY <2>3, ConcatProperties
  <2> QED
    BY <1>2, <1>3, <2>4 DEF Covered, head
<1>5. PICK covered \in Seq(Byte), checksum \in Byte :
            covered = Covered(kind) /\ checksum = Checksum(Covered(kind))
  BY <1>4, ChecksumAssumption
<1>6. <<StartMagic, ToAdapter>> \in Seq(Byte) /\ <<checksum>> \in Seq(Byte)
  BY DEF StartMagic, ToAdapter, Byte
<1>7. <<StartMagic, ToAdapter>> \o covered \in Seq(Byte)
  BY <1>6, ConcatProperties
<1>8. <<StartMagic, ToAdapter>> \o covered \o <<checksum>> \in Seq(Byte)
  BY <1>6, <1>7, ConcatProperties
<1> QED
  BY <1>5, <1>8 DEF Encoded

\* A part of a sequence, which may be empty.
LEMMA PartOfSequence ==
    ASSUME NEW S, NEW s \in Seq(S), NEW first \in Nat \ {0}, NEW last \in 0 .. Len(s)
    PROVE  /\ SubSeq(s, first, last) \in Seq(S)
           /\ Len(SubSeq(s, first, last)) = IF first <= last THEN last - first + 1 ELSE 0
<1>1. \A i \in first .. last : s[i] \in S
  OBVIOUS
<1> QED
  BY <1>1, SubSeqProperties

\* What a read takes and what it leaves are bytes of the FIFO.
LEMMA ReadTypes ==
    ASSUME BytesInv, NEW wanted \in Nat
    PROVE  /\ Taken(wanted) \in Seq(SentBytes) /\ LeftBy(wanted) \in Seq(SentBytes)
           /\ Len(Taken(wanted)) = IF Len(fifo) < wanted THEN Len(fifo) ELSE wanted
<1>1. PICK n : n = IF Len(fifo) < wanted THEN Len(fifo) ELSE wanted
  OBVIOUS
<1>2. fifo \in Seq(SentBytes) /\ n \in 0 .. Len(fifo) /\ Len(fifo) \in 0 .. Len(fifo)
  BY <1>1 DEF BytesInv
<1>3. Taken(wanted) = SubSeq(fifo, 1, n)
  BY <1>1 DEF Taken
<1>4. Taken(wanted) \in Seq(SentBytes) /\ Len(Taken(wanted)) = n
  BY <1>2, <1>3, PartOfSequence
<1>5. LeftBy(wanted) \in Seq(SentBytes)
  BY <1>2, <1>4, PartOfSequence DEF LeftBy
<1> QED
  BY <1>1, <1>4, <1>5

LEMMA OverwriteTypes ==
    ASSUME BytesInv, NEW bytes \in Seq(SentBytes), NEW offset \in 0 .. Len(rx_buffer)
    PROVE  /\ Overwrite(offset, bytes) \in Seq(SentBytes)
           /\ Len(Overwrite(offset, bytes)) >= offset + Len(bytes)
<1>1. rx_buffer \in Seq(SentBytes) /\ Len(rx_buffer) \in 0 .. Len(rx_buffer)
      /\ Len(bytes) \in Nat /\ offset \in Nat
  BY DEF BytesInv
<1>2. PICK before, behind :
        /\ before = SubSeq(rx_buffer, 1, offset)
        /\ behind = SubSeq(rx_buffer, offset + Len(bytes) + 1, Len(rx_buffer))
  OBVIOUS
<1>3. before \in Seq(SentBytes) /\ Len(before) = offset
  BY <1>1, <1>2, PartOfSequence
<1>4. behind \in Seq(SentBytes) /\ Len(behind) \in Nat
  BY <1>1, <1>2, PartOfSequence
<1>5. before \o bytes \in Seq(SentBytes) /\ Len(before \o bytes) = offset + Len(bytes)
  BY <1>3, ConcatProperties
<1>6. /\ (before \o bytes) \o behind \in Seq(SentBytes)
      /\ Len((before \o bytes) \o behind) = offset + Len(bytes) + Len(behind)
  BY <1>4, <1>5, ConcatProperties
<1>7. Overwrite(offset, bytes) = (before \o bytes) \o behind
  BY <1>2 DEF Overwrite
<1> QED
  BY <1>1, <1>4, <1>6, <1>7

\* What is read from the receive buffer are bytes, whether a packet or malloc left them.
LEMMA CellTypes ==
    ASSUME BytesInv, NEW buffer \in Seq(SentBytes)
    PROVE  /\ \A i \in Nat : Cell(buffer, i) \in Byte
           /\ Iden(buffer) \in Idens /\ Size(buffer) \in Byte
           /\ Data(buffer) \in Seq(Byte)
<1>1. ASSUME NEW i \in Nat PROVE Cell(buffer, i) \in Byte
  <2>1. CASE i < Len(buffer)
    <3>1. buffer[i + 1] \in SentBytes
      BY <2>1
    <3> QED
      BY <2>1, <3>1 DEF Cell, SentBytes
  <2>2. CASE ~(i < Len(buffer))
    BY <2>2 DEF Cell, BytesInv
  <2> QED
    BY <2>1, <2>2
<1>2. PICK low \in Byte, high \in Byte : low = Cell(buffer, 2) /\ high = Cell(buffer, 3)
  BY <1>1
<1>3. Iden(buffer) \in Idens
  <2>1. Iden(buffer) = low + 256 * high
    BY <1>2 DEF Iden
  <2>2. low + 256 * high \in Idens
    BY DEF Idens
  <2> QED
    BY <2>1, <2>2
<1>4. Size(buffer) \in Byte
  BY <1>1 DEF Size
<1>5. \A i \in 1 .. Size(buffer) : Cell(buffer, HeaderSize + i - 1) \in Byte
  BY <1>1, <1>4 DEF HeaderSize, Byte
<1>6. PICK n \in Nat : n = Size(buffer)
  BY <1>4 DEF Byte
<1>7. Data(buffer) \in [1 .. n -> Byte]
  BY <1>5, <1>6 DEF Data
<1>8. Data(buffer) \in Seq(Byte)
  BY <1>7, SeqDef
<1> QED
  BY <1>1, <1>3, <1>4, <1>8

LEMMA MoreInSequence ==
    ASSUME NEW S, NEW T, S \subseteq T, NEW s \in Seq(S)
    PROVE  s \in Seq(T)
OBVIOUS

LEMMA InitBytes == Init => BytesInv /\ HeaderRead /\ RecordInv
<1> SUFFICES ASSUME Init PROVE BytesInv /\ HeaderRead /\ RecordInv
  OBVIOUS
<1>1. /\ packets \in Seq(Kinds) /\ Len(packets) = 0
      /\ line \in Seq(SentBytes) /\ fifo \in Seq(SentBytes) /\ rx_buffer \in Seq(SentBytes)
      /\ accepted \in Seq(Accepted) /\ Len(accepted) = 0
  BY DEF Init
<1>2. BytesInv
  BY <1>1, BoundsAssumption, HeapAssumption DEF Init, BytesInv
<1>3. global_uart_receive_buffers \in
            [Buffers -> [head : 0 .. Len(accepted), data : 0 .. Len(accepted)]]
  BY <1>1 DEF Init
<1> QED
  BY <1>1, <1>2, <1>3, BoundsAssumption DEF Init, HeaderRead, RecordInv

LEMMA ComputerSendsBytes ==
    ASSUME BytesInv, NEW kind \in Kinds, ComputerSends(kind)
    PROVE  BytesInv'
<1>1. PICK number, bytes : number = Len(packets) + 1 /\ bytes = Encoded(kind)
  OBVIOUS
<1>2. PICK new : new = [i \in 1 .. Len(bytes) |-> [of |-> number, at |-> i, value |-> bytes[i]]]
  OBVIOUS
<1>3. /\ number <= MaxPackets /\ packets' = Append(packets, kind) /\ line' = line \o new
      /\ UNCHANGED <<fifo, rx_buffer, heap>>
  BY <1>1, <1>2 DEF ComputerSends, readVars
<1>4. /\ packets \in Seq(Kinds) /\ Len(packets) \in Nat /\ number \in Nat
      /\ bytes \in Seq(Byte) /\ Len(bytes) \in Nat
  BY <1>1, EncodedBytes DEF BytesInv
<1>5. packets' \in Seq(Kinds) /\ Len(packets') = number
  BY <1>1, <1>3, <1>4
<1>6. PICK Now : Now = [of : 1 .. number, at : Nat, value : Byte]
  OBVIOUS
<1>7. SentBytes' = Now
  BY <1>5, <1>6 DEF SentBytes
<1>8. SentBytes \subseteq Now
  BY <1>1, <1>4, <1>6 DEF SentBytes
<1>9. line \in Seq(Now) /\ fifo \in Seq(Now) /\ rx_buffer \in Seq(Now)
  BY <1>8, MoreInSequence DEF BytesInv
<1>10. new \in Seq(Now)
  <2>1. ASSUME NEW i \in 1 .. Len(bytes)
        PROVE  [of |-> number, at |-> i, value |-> bytes[i]] \in Now
    <3>1. number \in 1 .. number /\ i \in Nat
      BY <1>1, <1>4
    <3>2. bytes[i] \in Byte
      BY <1>4, ElementOfSeq
    <3> QED
      BY <1>6, <3>1, <3>2
  <2>2. new \in [1 .. Len(bytes) -> Now]
    BY <1>2, <2>1
  <2> QED
    BY <1>4, <2>2, SeqDef
<1>11. line' \in Seq(Now)
  BY <1>3, <1>9, <1>10, ConcatProperties
<1> QED
  BY <1>3, <1>5, <1>7, <1>9, <1>11 DEF BytesInv

\* Steps that send nothing.
LEMMA SameBytes ==
    ASSUME BytesInv, UNCHANGED <<packets, heap>>,
           line' \in Seq(SentBytes), fifo' \in Seq(SentBytes), rx_buffer' \in Seq(SentBytes)
    PROVE  BytesInv'
BY DEF BytesInv, SentBytes

\* What a check finds in the receive buffer.
LEMMA CheckedBuffer ==
    ASSUME BytesInv, HeaderRead, pc = "payload", NEW buffer, NEW wanted,
           wanted = Size(rx_buffer) + 1, buffer = Overwrite(HeaderSize, Taken(wanted))
    PROVE  /\ buffer \in Seq(SentBytes) /\ Len(buffer) >= HeaderSize
           /\ LeftBy(wanted) \in Seq(SentBytes)
<1>1. wanted \in Nat
  <2>1. rx_buffer \in Seq(SentBytes)
    BY DEF BytesInv
  <2>2. Size(rx_buffer) \in Byte
    BY <2>1, CellTypes
  <2> QED
    BY <2>2 DEF Byte
<1>2. /\ Taken(wanted) \in Seq(SentBytes) /\ LeftBy(wanted) \in Seq(SentBytes)
      /\ Len(Taken(wanted)) \in Nat
  BY <1>1, ReadTypes DEF BytesInv
<1>3. HeaderSize \in 0 .. Len(rx_buffer)
  BY DEF HeaderRead, HeaderSize, BytesInv
<1>4. /\ Overwrite(HeaderSize, Taken(wanted)) \in Seq(SentBytes)
      /\ Len(Overwrite(HeaderSize, Taken(wanted))) >= HeaderSize + Len(Taken(wanted))
  BY <1>2, <1>3, OverwriteTypes
<1> QED
  BY <1>2, <1>4 DEF HeaderSize

LEMMA BytesStep == BytesInv /\ HeaderRead /\ [Next]_vars => BytesInv' /\ HeaderRead'
<1> SUFFICES ASSUME BytesInv, HeaderRead, [Next]_vars PROVE BytesInv' /\ HeaderRead'
  OBVIOUS
<1>1. /\ line \in Seq(SentBytes) /\ fifo \in Seq(SentBytes) /\ rx_buffer \in Seq(SentBytes)
  BY DEF BytesInv
<1>2. ASSUME NEW kind \in Kinds, ComputerSends(kind) PROVE BytesInv' /\ HeaderRead'
  BY <1>2, ComputerSendsBytes DEF ComputerSends, HeaderRead, readVars
<1>3. CASE ByteArrives \/ ByteLost
  <2>1. line # <<>> /\ Head(line) \in SentBytes /\ Tail(line) \in Seq(SentBytes)
    BY <1>1, <1>3 DEF ByteArrives, ByteLost
  <2>2. Append(fifo, Head(line)) \in Seq(SentBytes)
    BY <1>1, <2>1
  <2>3. line' = Tail(line) /\ (fifo' = fifo \/ fifo' = Append(fifo, Head(line)))
        /\ UNCHANGED <<packets, heap, rx_buffer, pc>>
    BY <1>3 DEF ByteArrives, ByteLost, readVars
  <2>4. BytesInv'
    BY <1>1, <2>1, <2>2, <2>3, SameBytes
  <2> QED
    BY <2>3, <2>4 DEF HeaderRead
<1>4. CASE ReadHeader
  <2>1. /\ HeaderSize \in Nat /\ 0 \in 0 .. Len(rx_buffer)
        /\ Len(fifo) >= HeaderSize /\ Len(fifo) \in Nat
    BY <1>1, <1>4 DEF ReadHeader, HeaderSize
  <2>2. /\ Taken(HeaderSize) \in Seq(SentBytes) /\ LeftBy(HeaderSize) \in Seq(SentBytes)
        /\ Len(Taken(HeaderSize)) = HeaderSize
    BY <2>1, ReadTypes
  <2>3. /\ Overwrite(0, Taken(HeaderSize)) \in Seq(SentBytes)
        /\ Len(Overwrite(0, Taken(HeaderSize))) >= HeaderSize
    BY <2>1, <2>2, OverwriteTypes
  <2>4. /\ rx_buffer' = Overwrite(0, Taken(HeaderSize)) /\ fifo' = LeftBy(HeaderSize)
        /\ UNCHANGED <<packets, heap, line>>
    BY <1>4 DEF ReadHeader
  <2>5. BytesInv'
    BY <1>1, <2>2, <2>3, <2>4, SameBytes
  <2> QED
    BY <2>3, <2>4, <2>5 DEF HeaderRead
<1>5. CASE HeaderTimeout
  <2>1. Overwrite(0, fifo) \in Seq(SentBytes) /\ <<>> \in Seq(SentBytes)
    BY <1>1, OverwriteTypes
  <2>2. /\ rx_buffer' = Overwrite(0, fifo) /\ fifo' = <<>> /\ pc' # "payload"
        /\ UNCHANGED <<packets, heap, line>>
    BY <1>5 DEF HeaderTimeout
  <2>3. BytesInv'
    BY <1>1, <2>1, <2>2, SameBytes
  <2> QED
    BY <2>2, <2>3 DEF HeaderRead
<1>6. CASE ReadPayload \/ PayloadTimeout
  <2>1. PICK wanted, inTime : /\ wanted = Size(rx_buffer) + 1
                              /\ Check(wanted, inTime) /\ pc = "payload"
    BY <1>6 DEF ReadPayload, PayloadTimeout
  <2>2. PICK buffer : /\ buffer = Overwrite(HeaderSize, Taken(wanted))
                      /\ rx_buffer' = buffer /\ fifo' = LeftBy(wanted)
                      /\ UNCHANGED <<packets, heap, line>> /\ pc' # "payload"
    BY <2>1 DEF Check
  <2>3. buffer \in Seq(SentBytes) /\ LeftBy(wanted) \in Seq(SentBytes)
    BY <2>1, <2>2, CheckedBuffer
  <2>4. BytesInv'
    BY <1>1, <2>2, <2>3, SameBytes
  <2> QED
    BY <2>2, <2>4 DEF HeaderRead
<1>7. CASE FillHead \/ FillData \/ SendPacket \/ PostOther \/ MainHandles \/ UNCHANGED vars
  <2>1. /\ UNCHANGED <<packets, heap, line, fifo, rx_buffer>>
        /\ pc' = "payload" => pc = "payload"
    BY <1>7 DEF FillHead, FillData, SendPacket, PostOther, MainHandles, vars, lineVars, readVars
  <2>2. BytesInv'
    BY <1>1, <2>1, SameBytes
  <2> QED
    BY <2>1, <2>2 DEF HeaderRead
<1> QED
  BY <1>2, <1>3, <1>4, <1>5, <1>6, <1>7 DEF Next, UartRxTask

----------------------------------------------------------------------------
(* What is recorded has its type *)

LEMMA SameRecords ==
    ASSUME RecordInv,
           UNCHANGED <<heap, packets, accepted, global_uart_receive_buffers, clean, lost>>,
           disturbed' \subseteq 1 .. Len(packets)
    PROVE  RecordInv'
BY DEF RecordInv

LEMMA CheckRecords ==
    ASSUME BytesInv, HeaderRead, RecordInv, NEW inTime \in BOOLEAN, pc = "payload",
           Check(Size(rx_buffer) + 1, inTime), disturbed' \subseteq 1 .. Len(packets)
    PROVE  RecordInv'
<1>1. PICK wanted : wanted = Size(rx_buffer) + 1
  OBVIOUS
<1>2. PICK buffer :
        /\ buffer = Overwrite(HeaderSize, Taken(wanted))
        /\ \/ accepted' = accepted
           \/ accepted' = Append(accepted, [iden |-> Iden(buffer), data |-> Data(buffer),
                                            of |-> buffer[HeaderSize].of, inTime |-> inTime,
                                            inStep |-> InStep(buffer)])
        /\ UNCHANGED <<heap, packets, global_uart_receive_buffers, clean, lost>>
  BY <1>1 DEF Check, ringVars
<1>3. buffer \in Seq(SentBytes) /\ Len(buffer) >= HeaderSize
  BY <1>1, <1>2, CheckedBuffer
<1>4. PICK iden, data, of, inStep :
        /\ iden = Iden(buffer) /\ data = Data(buffer)
        /\ of = buffer[HeaderSize].of /\ inStep = InStep(buffer)
  OBVIOUS
<1>5. iden \in Idens /\ data \in Seq(Byte)
  BY <1>3, <1>4, CellTypes
<1>6. of \in 1 .. MaxPackets
  <2>1. buffer[HeaderSize] \in SentBytes
    BY <1>3 DEF HeaderSize
  <2>2. Len(packets) \in Nat /\ Len(packets) <= MaxPackets /\ MaxPackets \in Nat
    BY BoundsAssumption DEF BytesInv
  <2> QED
    BY <1>4, <2>1, <2>2 DEF SentBytes
<1>7. inStep \in BOOLEAN
  BY <1>4 DEF InStep
<1>8. [iden |-> iden, data |-> data, of |-> of, inTime |-> inTime, inStep |-> inStep] \in Accepted
  BY <1>5, <1>6, <1>7 DEF Accepted
<1>9. PICK new \in Accepted : accepted' = accepted \/ accepted' = Append(accepted, new)
  BY <1>2, <1>4, <1>8
<1>10. accepted \in Seq(Accepted) /\ Len(accepted) \in Nat
  BY DEF RecordInv
<1>11. accepted' \in Seq(Accepted) /\ Len(accepted') \in Nat /\ Len(accepted') >= Len(accepted)
  BY <1>9, <1>10
<1>12. global_uart_receive_buffers' \in
            [Buffers -> [head : 0 .. Len(accepted'), data : 0 .. Len(accepted')]]
  <2>1. PICK m, n : m = Len(accepted) /\ n = Len(accepted')
    OBVIOUS
  <2>2. [head : 0 .. m, data : 0 .. m] \subseteq [head : 0 .. n, data : 0 .. n]
    BY <1>10, <1>11, <2>1
  <2> QED
    BY <1>2, <2>1, <2>2 DEF RecordInv
<1> QED
  BY <1>2, <1>11, <1>12 DEF RecordInv

LEMMA RecordStep ==
    IInv /\ BytesInv /\ HeaderRead /\ RecordInv /\ [Next]_vars => RecordInv'
<1> SUFFICES ASSUME IInv, BytesInv, HeaderRead, RecordInv, [Next]_vars PROVE RecordInv'
  OBVIOUS
<1>1. /\ packets \in Seq(Kinds) /\ Len(packets) \in Nat
      /\ line \in Seq(SentBytes) /\ fifo \in Seq(SentBytes) /\ rx_buffer \in Seq(SentBytes)
      /\ disturbed \subseteq 1 .. Len(packets)
  BY DEF BytesInv, RecordInv
<1>2. \A b \in SentBytes : b.of \in 1 .. Len(packets)
  BY DEF SentBytes
<1>3. \A k \in 1 .. Len(fifo) : fifo[k].of \in 1 .. Len(packets)
  BY <1>1, <1>2
<1>4. ASSUME NEW kind \in Kinds, ComputerSends(kind) PROVE RecordInv'
  <2>1. Len(packets') = Len(packets) + 1
    BY <1>1, <1>4 DEF ComputerSends
  <2>2. clean' \subseteq clean \union {Len(packets) + 1}
    BY <1>4 DEF ComputerSends
  <2>3. UNCHANGED <<heap, accepted, global_uart_receive_buffers, disturbed, lost>>
    BY <1>4 DEF ComputerSends, readVars, ringVars
  <2>4. PICK n \in Nat : n = Len(packets) /\ Len(packets') = n + 1
    BY <1>1, <2>1
  <2>5. clean' \subseteq 1 .. n + 1 /\ disturbed' \subseteq 1 .. n + 1
    BY <2>2, <2>3, <2>4 DEF RecordInv
  <2> QED
    BY <2>3, <2>4, <2>5 DEF RecordInv
<1>5. CASE ByteArrives
  BY <1>1, <1>5, SameRecords DEF ByteArrives, readVars, ringVars
<1>6. CASE ByteLost
  <2>1. Head(line).of \in 1 .. Len(packets)
    BY <1>1, <1>2, <1>6 DEF ByteLost
  <2>2. lost' \in 0 .. MaxLost
    BY <1>6, BoundsAssumption DEF ByteLost, RecordInv
  <2>3. disturbed' \subseteq 1 .. Len(packets)
    BY <1>1, <1>6, <2>1 DEF ByteLost
  <2> QED
    BY <1>6, <2>2, <2>3 DEF ByteLost, RecordInv, readVars, ringVars
<1>7. CASE ReadHeader
  BY <1>1, <1>7, SameRecords DEF ReadHeader, ringVars
<1>8. CASE HeaderTimeout
  <2>1. disturbed' \subseteq 1 .. Len(packets)
    BY <1>1, <1>3, <1>8 DEF HeaderTimeout
  <2> QED
    BY <1>8, <2>1, SameRecords DEF HeaderTimeout, ringVars
<1>9. CASE ReadPayload
  BY <1>1, <1>9, CheckRecords DEF ReadPayload
<1>10. CASE PayloadTimeout
  <2>1. \A k \in 1 .. HeaderSize : rx_buffer[k].of \in 1 .. Len(packets)
    BY <1>1, <1>2, <1>10 DEF PayloadTimeout, HeaderRead, HeaderSize
  <2>2. disturbed' \subseteq 1 .. Len(packets)
    BY <1>1, <1>3, <1>10, <2>1 DEF PayloadTimeout
  <2> QED
    BY <1>10, <2>2, CheckRecords DEF PayloadTimeout
<1>11. CASE FillHead \/ FillData
  <2>1. /\ uart_recv_buffer_num \in Buffers /\ task_packet \in Buffers /\ Len(accepted) \in Nat
        /\ global_uart_receive_buffers \in
               [Buffers -> [head : 0 .. Len(accepted), data : 0 .. Len(accepted)]]
    BY DEF IInv, Types, RecordInv
  <2>2. global_uart_receive_buffers' \in
               [Buffers -> [head : 0 .. Len(accepted), data : 0 .. Len(accepted)]]
    <3>1. PICK n \in Nat : n = Len(accepted)
      BY <2>1
    <3>2. n \in 0 .. n
      OBVIOUS
    <3> QED
      BY <1>11, <2>1, <3>1, <3>2 DEF FillHead, FillData, Current
  <2>3. UNCHANGED <<heap, packets, accepted, clean, disturbed, lost>>
    BY <1>11 DEF FillHead, FillData, lineVars, readVars
  <2> QED
    BY <2>2, <2>3 DEF RecordInv
<1>12. CASE SendPacket \/ PostOther \/ MainHandles \/ UNCHANGED vars
  BY <1>1, <1>12, SameRecords
     DEF SendPacket, PostOther, MainHandles, vars, lineVars, readVars, ringVars
<1> QED
  BY <1>4, <1>5, <1>6, <1>7, <1>8, <1>9, <1>10, <1>11, <1>12 DEF Next, UartRxTask

\* Every variable has its type: whatever bytes are lost, late or out of step, and whatever
\* malloc left in the receive buffer, identifier, size and data of what is accepted are
\* bytes, and every pointer leads into the ring (uart_task.c:142-186).
THEOREM TypeCorrect == Spec => []TypeOK
<1>1. IInv /\ BytesInv /\ RecordInv => TypeOK
  <2> SUFFICES ASSUME IInv, BytesInv, RecordInv PROVE TypeOK
    OBVIOUS
  <2>1. Len(packets) \in Nat /\ Len(packets) <= MaxPackets /\ MaxPackets \in Nat
    BY BoundsAssumption DEF BytesInv
  <2>2. SentBytes \subseteq LineBytes
    BY <2>1 DEF SentBytes, LineBytes
  <2>3. line \in Seq(LineBytes) /\ fifo \in Seq(LineBytes) /\ rx_buffer \in Seq(LineBytes)
    BY <2>2, MoreInSequence DEF BytesInv
  <2> QED
    BY <2>1, <2>3 DEF TypeOK, IInv, Types, BytesInv, RecordInv
<1> QED
  BY <1>1, Initially, Preserved, InitBytes, BytesStep, RecordStep, PTL DEF Spec

----------------------------------------------------------------------------
(* In step *)

\* The sequence is what has been sent, from byte k of packet n on: bytes of those packets,
\* in their order, and all of them.
BytesFrom(s, n, k, sent) ==
    \A x \in 1 .. Len(s) :
        /\ s[x].of \in n .. Len(sent)
        /\ s[x].at \in 1 .. BytesOf(sent, s[x].of)
        /\ s[x].of = n => s[x].at >= k
        /\ s[x] = ByteOf(sent, s[x].of, s[x].at)
Ordered(s) ==
    \A x, y \in 1 .. Len(s) :
        /\ s[x].of = s[y].of => s[y].at - s[x].at = y - x
        /\ s[x].of < s[y].of => x < y
Has(s, m, l) == \E x \in 1 .. Len(s) : s[x].of = m /\ s[x].at = l
AllFrom(s, n, k, sent) ==
    \A m \in n .. Len(sent) : \A l \in 1 .. BytesOf(sent, m) : m # n \/ l >= k => Has(s, m, l)
From(s, n, k, sent) == BytesFrom(s, n, k, sent) /\ Ordered(s) /\ AllFrom(s, n, k, sent)

\* What is still to be read.
Stream == fifo \o line

\* What is to be read next is packet n, or what is behind its header.
Ahead(n) ==
    /\ n \in 1 .. Len(packets) + 1
    /\ From(Stream, n, IF pc = "payload" THEN HeaderSize + 1 ELSE 1, packets)
    /\ pc = "payload" =>
        /\ n <= Len(packets)
        /\ \A k \in 1 .. HeaderSize : rx_buffer[k] = ByteOf(packets, n, k)

\* Since an undisturbed packet was sent into silence, all packets have been accepted but
\* for those that are ahead.
StepInv ==
    /\ \A j \in 1 .. Len(accepted) : accepted[j].of <= Len(packets)
    /\ \A c \in clean :
        Undisturbed(c) =>
            \E a \in 0 .. Len(accepted) : Following(c, a) /\ Ahead(c + Len(accepted) - a)

\* Bytes of packets of any number.
LineTypes == [of : Nat, at : Nat, value : Byte]

\* A packet has six bytes besides its data.
LEMMA KindFacts ==
    ASSUME NEW sent \in Seq(Kinds), NEW n \in 1 .. Len(sent)
    PROVE  sent[n] \in Kinds /\ BytesOf(sent, n) \in Nat /\ BytesOf(sent, n) >= 6
<1>1. sent[n] \in Kinds
  BY ElementOfSeq
<1>2. sent[n].data \in Seq(Byte)
  BY <1>1, KindsAssumption
<1>3. PICK d \in Nat : d = Len(sent[n].data)
  BY <1>2, LenProperties
<1>4. d + 6 \in Nat /\ d + 6 >= 6
  OBVIOUS
<1> QED BY <1>1, <1>3, <1>4 DEF BytesOf

\* Number and place of a byte are numbers.
LEMMA LineFacts ==
    ASSUME NEW s \in Seq(LineTypes)
    PROVE  Len(s) \in Nat /\ \A x \in 1 .. Len(s) : s[x].of \in Nat /\ s[x].at \in Nat
<1>1. \A x \in 1 .. Len(s) : s[x] \in LineTypes
  BY ElementOfSeq
<1>2. \A b \in LineTypes : b.of \in Nat /\ b.at \in Nat
  BY DEF LineTypes
<1> QED BY <1>1, <1>2

\* Where the bytes of the first packet are.
Placed(s, n, k, last) ==
    /\ 1 \in 1 .. Len(s) /\ s[1].of = n /\ s[1].at = k
    /\ \A x \in 1 .. Len(s) : s[x].of = n => s[x].at = k + x - 1
    /\ \A l \in k .. last : /\ l - k + 1 \in 1 .. Len(s)
                            /\ s[l - k + 1].of = n /\ s[l - k + 1].at = l

LEMMA FirstPlaces ==
    ASSUME NEW sent \in Seq(Kinds), NEW s \in Seq(LineTypes), NEW n \in 1 .. Len(sent),
           NEW last \in Nat, last = BytesOf(sent, n), NEW k \in 1 .. last, From(s, n, k, sent)
    PROVE  Placed(s, n, k, last)
<1>1. k \in Nat /\ n \in Nat /\ 1 <= k /\ k <= last /\ Len(sent) \in Nat /\ n \in n .. Len(sent)
  OBVIOUS
<1>2. PICK of, at, len :
        /\ of = [x \in 1 .. Len(s) |-> s[x].of] /\ at = [x \in 1 .. Len(s) |-> s[x].at]
        /\ len = Len(s) /\ len \in Nat
  BY LineFacts
<1>3. \A x \in 1 .. len : of[x] = s[x].of /\ at[x] = s[x].at /\ of[x] \in Nat /\ at[x] \in Nat
  BY <1>2, LineFacts
<1>4. \A x \in 1 .. len : of[x] >= n /\ (of[x] = n => at[x] >= k)
  <2>1. \A x \in 1 .. len : s[x].of \in n .. Len(sent) /\ (s[x].of = n => s[x].at >= k)
    BY <1>2 DEF From, BytesFrom
  <2> QED BY <1>1, <1>3, <2>1
<1>5. \A x, y \in 1 .. len : /\ of[x] = of[y] => at[y] - at[x] = y - x
                             /\ of[x] < of[y] => x < y
  BY <1>2, <1>3 DEF From, Ordered
<1>6. ASSUME NEW l \in k .. last PROVE \E x \in 1 .. len : of[x] = n /\ at[x] = l
  <2>1. l \in 1 .. BytesOf(sent, n) /\ l >= k
    BY <1>1
  <2>2. Has(s, n, l)
    BY <1>1, <2>1 DEF From, AllFrom
  <2> QED BY <1>2, <1>3, <2>2 DEF Has
<1>7. PICK x \in 1 .. len : of[x] = n /\ at[x] = k
  <2>1. k \in k .. last
    BY <1>1
  <2> QED BY <1>6, <2>1
<1>8. 1 \in 1 .. len /\ of[1] = n /\ at[1] = k
  <2>1. 1 \in 1 .. len /\ 1 <= x
    BY <1>2, <1>7
  <2>2. of[1] = n
    BY <1>1, <1>3, <1>4, <1>5, <1>7, <2>1
  <2>3. at[1] >= k /\ at[x] - at[1] = x - 1
    BY <1>4, <1>5, <1>7, <2>1, <2>2
  <2>4. at[1] \in Nat
    BY <1>3, <2>1
  <2> QED BY <1>1, <1>7, <2>1, <2>2, <2>3, <2>4
<1>9. ASSUME NEW y \in 1 .. len, of[y] = n PROVE at[y] = k + y - 1
  <2>1. at[y] - at[1] = y - 1 /\ at[y] \in Nat
    BY <1>3, <1>5, <1>8, <1>9
  <2> QED BY <1>1, <1>8, <2>1
<1>10. ASSUME NEW l \in k .. last
       PROVE  l - k + 1 \in 1 .. len /\ of[l - k + 1] = n /\ at[l - k + 1] = l
  <2>1. PICK y \in 1 .. len : of[y] = n /\ at[y] = l
    BY <1>6
  <2>2. l = k + y - 1
    BY <1>9, <2>1
  <2>3. y = l - k + 1
    BY <1>1, <2>2
  <2> QED BY <2>1, <2>3
<1> QED BY <1>2, <1>3, <1>8, <1>9, <1>10 DEF Placed

\* What the first bytes are.
LEMMA NextBytes ==
    ASSUME NEW sent \in Seq(Kinds), NEW s \in Seq(LineTypes), NEW n \in 1 .. Len(sent),
           NEW last \in Nat, last = BytesOf(sent, n), NEW k \in 1 .. last, From(s, n, k, sent),
           NEW l \in k .. last
    PROVE  l - k + 1 \in 1 .. Len(s) /\ s[l - k + 1] = ByteOf(sent, n, l)
<1>1. PICK x : x = l - k + 1
  OBVIOUS
<1>2. Placed(s, n, k, last)
  BY FirstPlaces
<1>3. x \in 1 .. Len(s) /\ s[x].of = n /\ s[x].at = l
  BY <1>2, <1>1 DEF Placed
<1>4. s[x] = ByteOf(sent, s[x].of, s[x].at)
  BY <1>3 DEF From, BytesFrom
<1> QED BY <1>3, <1>4, <1>1

\* What is behind the first bytes.
LEMMA Dropped ==
    ASSUME NEW sent \in Seq(Kinds), NEW s \in Seq(LineTypes), NEW n \in 1 .. Len(sent),
           NEW last \in Nat, last = BytesOf(sent, n), NEW k \in 1 .. last, From(s, n, k, sent),
           NEW q \in 1 .. last - k + 1, NEW rest \in Seq(LineTypes), q <= Len(s),
           Len(rest) = Len(s) - q, \A x \in 1 .. Len(rest) : rest[x] = s[x + q]
    PROVE  IF k + q <= last THEN From(rest, n, k + q, sent) ELSE From(rest, n + 1, 1, sent)
<1>1. /\ k \in Nat /\ n \in Nat /\ Len(s) \in Nat /\ Len(rest) \in Nat /\ Len(sent) \in Nat
      /\ q \in Nat /\ 1 <= q /\ q <= last - k + 1 /\ 1 <= k /\ k <= last
  BY LineFacts
<1>2. Placed(s, n, k, last)
  BY FirstPlaces
<1>3. ASSUME NEW x \in 1 .. Len(rest)
      PROVE  x + q \in 1 .. Len(s) /\ rest[x] = s[x + q]
  BY <1>1
\* What is behind belongs to what is not dropped.
<1>4. ASSUME NEW x \in 1 .. Len(rest), rest[x].of = n
      PROVE  rest[x].at >= k + q /\ k + q <= last
  <2>1. PICK y \in 1 .. Len(s) : y = x + q /\ rest[x] = s[y]
    BY <1>3
  <2>2. s[y].at = k + y - 1
    BY <1>4, <1>2, <2>1 DEF Placed
  <2>3. s[y].at \in 1 .. last
    BY <1>4, <2>1 DEF From, BytesFrom
  <2>4. PICK a \in Nat : a = s[y].at /\ a <= last /\ a = k + y - 1 /\ y = x + q /\ x >= 1
    BY <2>1, <2>2, <2>3
  <2>5. a >= k + q /\ k + q <= last
    BY <1>1, <2>4
  <2> QED BY <2>1, <2>4, <2>5
<1>5. BytesFrom(rest, n, 1, sent)
  <2> SUFFICES ASSUME NEW x \in 1 .. Len(rest)
               PROVE  /\ rest[x].of \in n .. Len(sent)
                      /\ rest[x].at \in 1 .. BytesOf(sent, rest[x].of)
                      /\ rest[x].of = n => rest[x].at >= 1
                      /\ rest[x] = ByteOf(sent, rest[x].of, rest[x].at)
    BY DEF BytesFrom
  <2>1. PICK y \in 1 .. Len(s) : rest[x] = s[y]
    BY <1>3
  <2>2. /\ s[y].of \in n .. Len(sent) /\ s[y].at \in 1 .. BytesOf(sent, s[y].of)
        /\ s[y] = ByteOf(sent, s[y].of, s[y].at)
    BY DEF From, BytesFrom
  <2>3. s[y].at >= 1
    BY <2>2
  <2> QED BY <2>1, <2>2, <2>3
<1>6. Ordered(rest)
  <2> SUFFICES ASSUME NEW x \in 1 .. Len(rest), NEW y \in 1 .. Len(rest)
               PROVE  /\ rest[x].of = rest[y].of => rest[y].at - rest[x].at = y - x
                      /\ rest[x].of < rest[y].of => x < y
    BY DEF Ordered
  <2>1. PICK v \in 1 .. Len(s), w \in 1 .. Len(s) :
            v = x + q /\ w = y + q /\ rest[x] = s[v] /\ rest[y] = s[w]
    BY <1>3
  <2>2. /\ s[v].of = s[w].of => s[w].at - s[v].at = w - v
        /\ s[v].of < s[w].of => v < w
    BY DEF From, Ordered
  <2>3. w - v = y - x /\ (v < w <=> x < y)
    BY <1>1, <2>1
  <2> QED BY <2>1, <2>2, <2>3
<1>7. ASSUME NEW m \in n .. Len(sent), NEW l \in 1 .. BytesOf(sent, m), m # n \/ l >= k + q
      PROVE  Has(rest, m, l)
  <2>1. m # n \/ l >= k
    BY <1>1, <1>7
  <2>2. PICK y \in 1 .. Len(s) : s[y].of = m /\ s[y].at = l
    BY <2>1 DEF From, AllFrom, Has
  <2>3. y > q
    <3>1. CASE m = n
      <4>1. l = k + y - 1
        BY <1>2, <2>2, <3>1 DEF Placed
      <4> QED BY <1>1, <1>7, <3>1, <4>1
    <3>2. CASE m # n
      <4>1. PICK l0 \in k .. last : l0 = q + k - 1 /\ l0 - k + 1 = q
        BY <1>1
      <4>2. q \in 1 .. Len(s) /\ s[q].of = n
        BY <1>2, <4>1 DEF Placed
      <4>3. n < m
        BY <1>1, <3>2
      <4> QED BY <2>2, <4>2, <4>3 DEF From, Ordered
    <3> QED BY <3>1, <3>2
  <2>4. PICK x \in 1 .. Len(rest) : x + q = y
    <3>1. y - q \in 1 .. Len(rest) /\ (y - q) + q = y
      BY <1>1, <2>3
    <3> QED BY <3>1
  <2> QED BY <1>3, <2>2, <2>4 DEF Has
<1>8. CASE k + q <= last
  <2>1. BytesFrom(rest, n, k + q, sent)
    BY <1>4, <1>5 DEF BytesFrom
  <2>2. AllFrom(rest, n, k + q, sent)
    BY <1>7 DEF AllFrom
  <2> QED BY <1>6, <1>8, <2>1, <2>2 DEF From
<1>9. CASE ~(k + q <= last)
  <2>1. \A x \in 1 .. Len(rest) : rest[x].of \in n + 1 .. Len(sent)
    <3> TAKE x \in 1 .. Len(rest)
    <3>1. PICK m \in n .. Len(sent) : m = rest[x].of /\ m # n
      BY <1>4, <1>5, <1>9 DEF BytesFrom
    <3>2. PICK size \in Nat : size = Len(sent)
      BY <1>1
    <3>3. m \in n .. size /\ m # n
      BY <3>1, <3>2
    <3>4. m \in n + 1 .. size
      BY <3>3
    <3> QED BY <3>1, <3>2, <3>4
  <2>2. \A x \in 1 .. Len(rest) : rest[x].at >= 1
    BY <1>5 DEF BytesFrom
  <2>3. BytesFrom(rest, n + 1, 1, sent)
    BY <1>5, <2>1, <2>2 DEF BytesFrom
  <2>4. \A m \in n + 1 .. Len(sent) : m \in n .. Len(sent) /\ m # n
    BY <1>1
  <2>5. AllFrom(rest, n + 1, 1, sent)
    BY <1>7, <2>4 DEF AllFrom
  <2> QED BY <1>6, <1>9, <2>3, <2>5 DEF From
<1> QED BY <1>8, <1>9

\* What a packet is on the line: identifier, size, data and checksum.
EncodedAs(kind, d) ==
    /\ d \in Nat /\ d \in Byte /\ d = Len(kind.data) /\ Len(Encoded(kind)) = d + 6
    /\ Encoded(kind)[3] = kind.iden % 256 /\ Encoded(kind)[4] = kind.iden \div 256
    /\ Encoded(kind)[5] = d
    /\ \A x \in 1 .. d : Encoded(kind)[x + 5] = kind.data[x]
    /\ Covered(kind) \in Seq(Byte) /\ Len(Covered(kind)) = d + 3
    /\ \A x \in 1 .. d + 3 : Encoded(kind)[x + 2] = Covered(kind)[x]
    /\ Encoded(kind)[d + 6] = Checksum(Covered(kind))

LEMMA EncodedFacts ==
    ASSUME NEW kind \in Kinds
    PROVE  \E d \in Nat : EncodedAs(kind, d)
<1>1. kind \in [iden : Idens, data : Seq(Byte)] /\ Len(kind.data) <= 128
  BY KindsAssumption
<1>2. PICK iden \in Idens, data \in Seq(Byte) : iden = kind.iden /\ data = kind.data
  BY <1>1
<1>3. PICK d \in Nat : d = Len(data) /\ d \in Byte
  <2>1. PICK l \in Nat : l = Len(data) /\ l <= 128
    BY <1>1, <1>2, LenProperties
  <2>2. l <= 128
    BY <2>1
  <2>3. l \in Byte
    BY <2>2 DEF Byte
  <2> QED BY <2>1, <2>3
<1>4. PICK low, high : low = iden % 256 /\ high = iden \div 256
  OBVIOUS
<1>5. low \in Byte /\ high \in Byte
  BY <1>4, TwoBytes
<1>6. PICK head : head = <<low, high, d>>
  OBVIOUS
<1>7. /\ head \in Seq(Byte) /\ Len(head) = 3
      /\ head[1] = low /\ head[2] = high /\ head[3] = d
  <2>1. \A a, b, c \in Byte :
            /\ <<a, b, c>> \in Seq(Byte) /\ Len(<<a, b, c>>) = 3
            /\ <<a, b, c>>[1] = a /\ <<a, b, c>>[2] = b /\ <<a, b, c>>[3] = c
    OBVIOUS
  <2> QED BY <1>3, <1>5, <1>6, <2>1, Zenon
<1>8. PICK covered : covered = head \o data
  OBVIOUS
<1>9. /\ covered \in Seq(Byte) /\ Len(covered) = d + 3
      /\ covered[1] = low /\ covered[2] = high /\ covered[3] = d
      /\ \A x \in 1 .. d : covered[x + 3] = data[x]
  <2>1. /\ covered \in Seq(Byte) /\ Len(covered) = 3 + d
        /\ \A x \in 1 .. 3 + d : covered[x] = IF x <= 3 THEN head[x] ELSE data[x - 3]
    <3>1. /\ head \o data \in Seq(Byte) /\ Len(head \o data) = Len(head) + Len(data)
          /\ \A x \in 1 .. Len(head) + Len(data) :
                (head \o data)[x] = IF x <= Len(head) THEN head[x] ELSE data[x - Len(head)]
      BY <1>7, ConcatProperties
    <3> QED BY <1>3, <1>7, <1>8, <3>1
  <2>2. ASSUME NEW x \in 1 .. d PROVE covered[x + 3] = data[x]
    <3>1. x + 3 \in 1 .. 3 + d /\ ~(x + 3 <= 3) /\ (x + 3) - 3 = x
      BY <1>3
    <3> QED BY <2>1, <3>1
  <2>3. 1 \in 1 .. 3 + d /\ 2 \in 1 .. 3 + d /\ 3 \in 1 .. 3 + d /\ 3 + d = d + 3
    BY <1>3
  <2> QED BY <1>7, <2>1, <2>2, <2>3
<1>10. Covered(kind) = covered
  BY <1>2, <1>3, <1>4, <1>6, <1>8 DEF Covered
<1>11. PICK sum \in Byte : sum = Checksum(Covered(kind))
  BY ChecksumAssumption
<1>12. PICK front : front = <<StartMagic, ToAdapter>>
  OBVIOUS
<1>13. front \in Seq(Byte) /\ Len(front) = 2
  BY <1>12 DEF StartMagic, ToAdapter, Byte
<1>14. PICK most : most = front \o covered
  OBVIOUS
<1>15. /\ most \in Seq(Byte) /\ Len(most) = d + 5
       /\ \A x \in 1 .. d + 3 : most[x + 2] = covered[x]
  <2>1. /\ most \in Seq(Byte) /\ Len(most) = 2 + (d + 3)
        /\ \A x \in 1 .. 2 + (d + 3) : most[x] = IF x <= 2 THEN front[x] ELSE covered[x - 2]
    <3>1. /\ front \o covered \in Seq(Byte)
          /\ Len(front \o covered) = Len(front) + Len(covered)
          /\ \A x \in 1 .. Len(front) + Len(covered) :
                (front \o covered)[x] =
                    IF x <= Len(front) THEN front[x] ELSE covered[x - Len(front)]
      BY <1>9, <1>13, ConcatProperties
    <3> QED BY <1>9, <1>13, <1>14, <3>1
  <2>2. ASSUME NEW x \in 1 .. d + 3 PROVE most[x + 2] = covered[x]
    <3>1. x + 2 \in 1 .. 2 + (d + 3) /\ ~(x + 2 <= 2) /\ (x + 2) - 2 = x
      BY <1>3
    <3> QED BY <2>1, <3>1
  <2> QED BY <1>3, <2>1, <2>2
<1>16. PICK all : all = most \o <<sum>>
  OBVIOUS
<1>17. Encoded(kind) = all
  BY <1>10, <1>11, <1>12, <1>14, <1>16 DEF Encoded
<1>18. /\ Len(all) = d + 6 /\ all[d + 6] = sum
       /\ \A x \in 1 .. d + 3 : all[x + 2] = covered[x]
  <2>1. <<sum>> \in Seq(Byte) /\ Len(<<sum>>) = 1 /\ <<sum>>[1] = sum
    OBVIOUS
  <2>2. /\ Len(all) = d + 5 + 1
        /\ \A x \in 1 .. d + 5 + 1 : all[x] = IF x <= d + 5 THEN most[x] ELSE <<sum>>[x - (d + 5)]
    BY <1>15, <1>16, <2>1, ConcatProperties
  <2>3. d + 6 \in 1 .. d + 5 + 1 /\ ~(d + 6 <= d + 5) /\ (d + 6) - (d + 5) = 1
    BY <1>3
  <2>4. all[d + 6] = sum
    BY <2>1, <2>2, <2>3
  <2>5. ASSUME NEW x \in 1 .. d + 3 PROVE all[x + 2] = covered[x]
    <3>1. x + 2 \in 1 .. d + 5 + 1 /\ x + 2 <= d + 5
      BY <1>3
    <3>2. all[x + 2] = most[x + 2]
      BY <2>2, <3>1
    <3> QED BY <1>15, <3>2
  <2>6. d + 5 + 1 = d + 6
    BY <1>3
  <2> QED BY <2>2, <2>4, <2>5, <2>6
<1>19. all[3] = low /\ all[4] = high /\ all[5] = d
  <2>1. 1 \in 1 .. d + 3 /\ 2 \in 1 .. d + 3 /\ 3 \in 1 .. d + 3
    BY <1>3
  <2>2. all[1 + 2] = covered[1] /\ all[2 + 2] = covered[2] /\ all[3 + 2] = covered[3]
    BY <1>18, <2>1
  <2> QED BY <1>9, <2>2
<1>20. ASSUME NEW x \in 1 .. d PROVE all[x + 5] = data[x]
  <2>1. x + 3 \in 1 .. d + 3 /\ (x + 3) + 2 = x + 5
    BY <1>3
  <2>2. all[(x + 3) + 2] = covered[x + 3]
    BY <1>18, <2>1
  <2> QED BY <1>9, <2>1, <2>2
<1>21. /\ Encoded(kind)[3] = kind.iden % 256 /\ Encoded(kind)[4] = kind.iden \div 256
       /\ Encoded(kind)[5] = d
  BY <1>2, <1>4, <1>17, <1>19
<1>22. \A x \in 1 .. d : Encoded(kind)[x + 5] = kind.data[x]
  BY <1>2, <1>17, <1>20
<1>23. /\ Covered(kind) \in Seq(Byte) /\ Len(Covered(kind)) = d + 3
       /\ \A x \in 1 .. d + 3 : Encoded(kind)[x + 2] = Covered(kind)[x]
       /\ Encoded(kind)[d + 6] = Checksum(Covered(kind))
  BY <1>9, <1>10, <1>11, <1>17, <1>18
<1>24. EncodedAs(kind, d)
  BY <1>2, <1>3, <1>17, <1>18, <1>21, <1>22, <1>23 DEF EncodedAs
<1> QED BY <1>3, <1>24

\* A packet is added to what has been sent.
Line(kind, n) ==
    [x \in 1 .. Len(Encoded(kind)) |-> [of |-> n, at |-> x, value |-> Encoded(kind)[x]]]

\* Its bytes are bytes of the line.
LEMMA LineOfPacket ==
    ASSUME NEW kind \in Kinds, NEW n \in Nat
    PROVE  Line(kind, n) \in Seq(LineTypes) /\ Len(Line(kind, n)) = Len(Encoded(kind))
<1>1. Encoded(kind) \in Seq(Byte)
  BY EncodedBytes
<1>2. PICK size \in Nat : size = Len(Encoded(kind))
  BY <1>1, LenProperties
<1>3. ASSUME NEW x \in 1 .. size
      PROVE  [of |-> n, at |-> x, value |-> Encoded(kind)[x]] \in LineTypes
  <2>1. Encoded(kind)[x] \in Byte
    BY <1>1, <1>2, ElementOfSeq
  <2> QED BY <2>1 DEF LineTypes
<1>4. Line(kind, n) \in [1 .. size -> LineTypes]
  BY <1>2, <1>3 DEF Line
<1> QED BY <1>2, <1>4, SeqDef, LenProperties

\* What was sent is what it was, and one packet more.
LEMMA SentMore ==
    ASSUME NEW sent \in Seq(Kinds), NEW kind \in Kinds, NEW s \in Seq(LineTypes),
           NEW n \in 1 .. Len(sent) + 1, NEW k \in Nat \ {0}, n = Len(sent) + 1 => k = 1,
           From(s, n, k, sent), NEW more, more = Line(kind, Len(sent) + 1)
    PROVE  From(s \o more, n, k, Append(sent, kind))
<1>1. PICK t : t = Append(sent, kind)
  OBVIOUS
<1>2. PICK number \in Nat : number = Len(sent) + 1
  OBVIOUS
<1>3. /\ t \in Seq(Kinds) /\ Len(t) = number /\ t[number] = kind
      /\ \A x \in 1 .. number - 1 : t[x] = sent[x]
  BY <1>1, <1>2, AppendProperties
<1>4. PICK d \in Nat : d = Len(kind.data) /\ Len(Encoded(kind)) = d + 6
  <2>1. PICK d \in Nat : EncodedAs(kind, d)
    BY EncodedFacts
  <2>2. d = Len(kind.data) /\ Len(Encoded(kind)) = d + 6
    BY <2>1 DEF EncodedAs
  <2> QED BY <2>2
<1>5. BytesOf(t, number) = d + 6 /\ \A m \in 1 .. number - 1 : BytesOf(t, m) = BytesOf(sent, m)
  BY <1>3, <1>4 DEF BytesOf
<1>6. /\ \A l : ByteOf(t, number, l) = [of |-> number, at |-> l, value |-> Encoded(kind)[l]]
      /\ \A m \in 1 .. number - 1 : \A l : ByteOf(t, m, l) = ByteOf(sent, m, l)
  BY <1>3 DEF ByteOf
<1>7. /\ more \in Seq(LineTypes) /\ Len(more) = d + 6
      /\ \A x \in 1 .. d + 6 : /\ more[x] = ByteOf(t, number, x)
                               /\ more[x].of = number /\ more[x].at = x
  <2>1. more = [x \in 1 .. d + 6 |-> [of |-> number, at |-> x, value |-> Encoded(kind)[x]]]
    BY <1>2, <1>4 DEF Line
  <2>2. more \in Seq(LineTypes) /\ Len(more) = d + 6
    BY <1>2, <1>4, LineOfPacket
  <2> QED BY <1>6, <2>1, <2>2
<1>8. PICK len \in Nat : len = Len(s)
  BY LenProperties
<1>9. PICK u : u = s \o more
  OBVIOUS
<1>10. /\ Len(u) = len + d + 6
       /\ \A x \in 1 .. len : u[x] = s[x]
       /\ \A x \in len + 1 .. len + d + 6 : u[x] = more[x - len]
  <2>1. /\ Len(u) = len + (d + 6)
        /\ \A x \in 1 .. len + (d + 6) : u[x] = IF x <= len THEN s[x] ELSE more[x - len]
    <3>1. /\ Len(s \o more) = Len(s) + Len(more)
          /\ \A x \in 1 .. Len(s) + Len(more) :
                (s \o more)[x] = IF x <= Len(s) THEN s[x] ELSE more[x - Len(s)]
      BY <1>7, ConcatProperties
    <3> QED BY <1>7, <1>8, <1>9, <3>1
  <2> QED BY <2>1
<1>11. ASSUME NEW x \in 1 .. Len(u)
       PROVE  \/ x \in 1 .. len /\ u[x] = s[x]
              \/ x \in len + 1 .. len + d + 6 /\ u[x] = ByteOf(t, number, x - len)
                 /\ u[x].of = number /\ u[x].at = x - len /\ x - len \in 1 .. d + 6
  <2>1. CASE x <= len
    BY <1>10, <2>1
  <2>2. CASE ~(x <= len)
    <3>1. x \in len + 1 .. len + d + 6
      BY <1>10, <2>2
    <3>2. PICK y \in 1 .. d + 6 : y = x - len
      BY <3>1
    <3>3. u[x] = more[y]
      BY <1>10, <3>1, <3>2
    <3> QED BY <1>7, <3>1, <3>2, <3>3
  <2> QED BY <2>1, <2>2
<1>12. \A x \in 1 .. len : s[x].of \in n .. number - 1 /\ s[x].of \in 1 .. number - 1
  <2>1. \A x \in 1 .. len : s[x].of \in n .. Len(sent)
    BY <1>8 DEF From, BytesFrom
  <2>2. Len(sent) = number - 1 /\ n \in Nat /\ n >= 1
    BY <1>2
  <2> QED BY <2>1, <2>2
<1>13. ASSUME NEW x \in 1 .. Len(u)
       PROVE  /\ u[x].of \in n .. Len(t)
              /\ u[x].at \in 1 .. BytesOf(t, u[x].of)
              /\ u[x].of = n => u[x].at >= k
              /\ u[x] = ByteOf(t, u[x].of, u[x].at)
  <2>1. CASE x \in 1 .. len /\ u[x] = s[x]
    <3>1. /\ s[x].at \in 1 .. BytesOf(sent, s[x].of)
          /\ s[x].of = n => s[x].at >= k
          /\ s[x] = ByteOf(sent, s[x].of, s[x].at)
      BY <1>8, <2>1 DEF From, BytesFrom
    <3>2. s[x].of \in n .. number - 1 /\ s[x].of \in 1 .. number - 1 /\ s[x].of \in n .. number
      BY <1>12, <2>1
    <3> QED BY <1>3, <1>5, <1>6, <2>1, <3>1, <3>2
  <2>2. CASE /\ x \in len + 1 .. len + d + 6 /\ u[x] = ByteOf(t, number, x - len)
             /\ u[x].of = number /\ u[x].at = x - len /\ x - len \in 1 .. d + 6
    <3>1. number \in n .. number /\ (number = n => k = 1) /\ x - len >= 1
      BY <1>2, <2>2
    <3> QED BY <1>3, <1>5, <2>2, <3>1
  <2> QED BY <1>11, <2>1, <2>2
<1>14. ASSUME NEW x \in 1 .. Len(u), NEW y \in 1 .. Len(u)
       PROVE  /\ u[x].of = u[y].of => u[y].at - u[x].at = y - x
              /\ u[x].of < u[y].of => x < y
  <2>1. CASE x \in 1 .. len /\ u[x] = s[x] /\ y \in 1 .. len /\ u[y] = s[y]
    BY <1>8, <2>1 DEF From, Ordered
  <2>2. CASE x \in 1 .. len /\ u[x] = s[x] /\ y \in len + 1 .. len + d + 6 /\ u[y].of = number
    <3>1. x < y
      BY <2>2
    <3>2. PICK m \in 1 .. number - 1 : m = u[x].of
      BY <1>12, <2>2
    <3>3. m # number
      BY <3>2
    <3> QED BY <2>2, <3>1, <3>2, <3>3
  <2>3. CASE y \in 1 .. len /\ u[y] = s[y] /\ x \in len + 1 .. len + d + 6 /\ u[x].of = number
    <3>1. u[y].of \in 1 .. number - 1
      BY <1>12, <2>3
    <3>2. u[y].of # number /\ ~(number < u[y].of)
      BY <3>1
    <3> QED BY <2>3, <3>2
  <2>4. CASE /\ u[x].of = number /\ u[x].at = x - len
             /\ u[y].of = number /\ u[y].at = y - len
    BY <2>4
  <2> QED BY <1>11, <2>1, <2>2, <2>3, <2>4
<1>15. ASSUME NEW m \in n .. Len(t), NEW l \in 1 .. BytesOf(t, m), m # n \/ l >= k
       PROVE  Has(u, m, l)
  <2>1. CASE m = number
    <3>1. l \in 1 .. d + 6 /\ len + l \in len + 1 .. len + d + 6 /\ (len + l) - len = l
          /\ len + l \in 1 .. Len(u)
      BY <1>5, <1>10, <2>1
    <3>2. u[len + l] = more[l]
      BY <1>10, <3>1
    <3> QED BY <1>7, <2>1, <3>1, <3>2 DEF Has
  <2>2. CASE m # number
    <3>1. m \in n .. Len(sent) /\ m \in 1 .. number - 1
      BY <1>2, <1>3, <2>2
    <3>2. l \in 1 .. BytesOf(sent, m)
      BY <1>5, <3>1
    <3>3. PICK x \in 1 .. Len(s) : s[x].of = m /\ s[x].at = l
      BY <1>15, <3>1, <3>2 DEF From, AllFrom, Has
    <3>4. x \in 1 .. len /\ x \in 1 .. Len(u)
      BY <1>8, <1>10
    <3> QED BY <1>10, <3>3, <3>4 DEF Has
  <2> QED BY <2>1, <2>2
<1>16. BytesFrom(u, n, k, t)
  BY <1>13 DEF BytesFrom
<1>17. Ordered(u)
  BY <1>14 DEF Ordered
<1>18. AllFrom(u, n, k, t)
  BY <1>15 DEF AllFrom
<1> QED BY <1>1, <1>9, <1>16, <1>17, <1>18 DEF From

\* Nothing is left only when nothing more was sent.
LEMMA NothingLeft ==
    ASSUME NEW sent \in Seq(Kinds), NEW n \in 1 .. Len(sent) + 1, From(<<>>, n, 1, sent)
    PROVE  n = Len(sent) + 1
<1> SUFFICES ASSUME n # Len(sent) + 1 PROVE FALSE
  OBVIOUS
<1>1. n \in 1 .. Len(sent) /\ n \in n .. Len(sent)
  OBVIOUS
<1>2. 1 \in 1 .. BytesOf(sent, n)
  <2>1. PICK d \in Nat : d = BytesOf(sent, n) /\ d >= 6
    BY <1>1, KindFacts
  <2>2. 1 \in 1 .. d
    BY <2>1
  <2> QED BY <2>1, <2>2
<1>3. Has(<<>>, n, 1)
  BY <1>1, <1>2 DEF From, AllFrom
<1> QED BY <1>3 DEF Has

\* What is in the FIFO comes before what is on the line.
LEMMA StreamTypes ==
    ASSUME BytesInv
    PROVE  /\ packets \in Seq(Kinds) /\ Len(packets) \in Nat
           /\ fifo \in Seq(LineTypes) /\ line \in Seq(LineTypes) /\ rx_buffer \in Seq(LineTypes)
           /\ Stream \in Seq(LineTypes) /\ Len(Stream) = Len(fifo) + Len(line)
           /\ \A x \in 1 .. Len(fifo) : Stream[x] = fifo[x]
           /\ \A x \in 1 .. Len(line) : Stream[x + Len(fifo)] = line[x]
<1>1. packets \in Seq(Kinds) /\ Len(packets) \in Nat
  BY DEF BytesInv
<1>2. SentBytes \subseteq LineTypes
  BY DEF SentBytes, LineTypes
<1>3. fifo \in Seq(LineTypes) /\ line \in Seq(LineTypes) /\ rx_buffer \in Seq(LineTypes)
  BY <1>2, MoreInSequence DEF BytesInv
<1>4. PICK m \in Nat, n \in Nat : m = Len(fifo) /\ n = Len(line)
  BY <1>3, LenProperties
<1>5. /\ Stream \in Seq(LineTypes) /\ Len(Stream) = m + n
      /\ \A x \in 1 .. m + n : Stream[x] = IF x <= m THEN fifo[x] ELSE line[x - m]
  BY <1>3, <1>4, ConcatProperties DEF Stream
<1>6. ASSUME NEW x \in 1 .. m PROVE Stream[x] = fifo[x]
  BY <1>5
<1>7. ASSUME NEW x \in 1 .. n PROVE Stream[x + m] = line[x]
  <2>1. x + m \in 1 .. m + n /\ ~(x + m <= m) /\ x + m - m = x
    OBVIOUS
  <2> QED BY <1>5, <2>1
<1> QED BY <1>1, <1>3, <1>4, <1>5, <1>6, <1>7

\* A read takes the first bytes of what is ahead and leaves the others.
LEMMA ReadStream ==
    ASSUME BytesInv, NEW wanted \in Nat, wanted <= Len(fifo),
           fifo' = LeftBy(wanted), line' = line
    PROVE  /\ Stream' \in Seq(LineTypes) /\ wanted <= Len(Stream)
           /\ Len(Stream') = Len(Stream) - wanted
           /\ \A x \in 1 .. Len(Stream') : Stream'[x] = Stream[x + wanted]
           /\ Taken(wanted) \in Seq(LineTypes) /\ Len(Taken(wanted)) = wanted
           /\ \A x \in 1 .. wanted : Taken(wanted)[x] = Stream[x]
<1>1. PICK m \in Nat, n \in Nat : m = Len(fifo) /\ n = Len(line)
  BY StreamTypes, LenProperties
<1>2. /\ fifo \in Seq(LineTypes) /\ line \in Seq(LineTypes) /\ Len(Stream) = m + n
      /\ \A x \in 1 .. m : Stream[x] = fifo[x]
      /\ \A x \in 1 .. n : Stream[x + m] = line[x]
  BY <1>1, StreamTypes
<1>3. wanted <= m /\ Taken(wanted) = SubSeq(fifo, 1, wanted)
  <2>1. (IF m < wanted THEN m ELSE wanted) = wanted /\ wanted <= m
    BY <1>1
  <2> QED BY <1>1, <2>1 DEF Taken
<1>4. /\ Taken(wanted) \in Seq(LineTypes) /\ Len(Taken(wanted)) = wanted
      /\ \A x \in 1 .. wanted : Taken(wanted)[x] = fifo[x]
  <2>1. \A x \in 1 .. wanted : fifo[x] \in LineTypes
    BY <1>1, <1>2, <1>3, ElementOfSeq
  <2>2. 1 \in Nat /\ wanted - 1 + 1 = wanted /\ \A x \in 1 .. wanted : 1 + x - 1 = x
    OBVIOUS
  <2> QED BY <1>2, <1>3, <2>1, <2>2, SubSeqProperties
<1>5. PICK rest : rest = LeftBy(wanted)
  OBVIOUS
<1>6. /\ rest \in Seq(LineTypes) /\ Len(rest) = m - wanted
      /\ \A x \in 1 .. m - wanted : rest[x] = fifo[x + wanted]
  <2>1. rest = SubSeq(fifo, wanted + 1, m)
    BY <1>1, <1>4, <1>5 DEF LeftBy
  <2>2. \A x \in wanted + 1 .. m : fifo[x] \in LineTypes
    BY <1>1, <1>2, ElementOfSeq
  <2>3. /\ rest \in Seq(LineTypes)
        /\ Len(rest) = IF wanted + 1 <= m THEN m - (wanted + 1) + 1 ELSE 0
        /\ \A x \in 1 .. m - (wanted + 1) + 1 : rest[x] = fifo[wanted + 1 + x - 1]
    BY <1>2, <2>1, <2>2, SubSeqProperties
  <2>4. /\ (IF wanted + 1 <= m THEN m - (wanted + 1) + 1 ELSE 0) = m - wanted
        /\ m - (wanted + 1) + 1 = m - wanted
        /\ \A x \in 1 .. m - wanted : wanted + 1 + x - 1 = x + wanted
    BY <1>3
  <2> QED BY <2>3, <2>4
<1>7. /\ Stream' \in Seq(LineTypes) /\ Len(Stream') = m - wanted + n
      /\ \A x \in 1 .. m - wanted + n :
            Stream'[x] = IF x <= m - wanted THEN rest[x] ELSE line[x - (m - wanted)]
  <2>1. Stream' = rest \o line
    BY <1>5 DEF Stream
  <2>2. /\ rest \o line \in Seq(LineTypes) /\ Len(rest \o line) = Len(rest) + Len(line)
        /\ \A x \in 1 .. Len(rest) + Len(line) :
            (rest \o line)[x] = IF x <= Len(rest) THEN rest[x] ELSE line[x - Len(rest)]
    <3>1. rest \in Seq(LineTypes) /\ line \in Seq(LineTypes)
      BY <1>2, <1>6
    <3> QED BY <3>1, ConcatProperties
  <2>3. Len(rest) = m - wanted /\ Len(line) = n
    BY <1>1, <1>6
  <2> QED BY <2>1, <2>2, <2>3, Zenon
<1>8. ASSUME NEW x \in 1 .. m - wanted + n PROVE Stream'[x] = Stream[x + wanted]
  <2>1. CASE x <= m - wanted
    <3>1. x \in 1 .. m - wanted /\ x + wanted \in 1 .. m
      BY <1>3, <2>1
    <3> QED BY <1>2, <1>6, <1>7, <2>1, <3>1
  <2>2. CASE ~(x <= m - wanted)
    <3>1. PICK y \in 1 .. n : y = x - (m - wanted) /\ y + m = x + wanted
      BY <1>3, <2>2
    <3>2. Stream'[x] = line[y]
      BY <1>7, <2>2, <3>1
    <3> QED BY <1>2, <3>1, <3>2
  <2> QED BY <2>1, <2>2
<1>9. wanted <= m + n /\ m - wanted + n = m + n - wanted /\ \A x \in 1 .. wanted : x \in 1 .. m
  BY <1>3
<1>10. wanted <= Len(Stream) /\ Len(Stream') = Len(Stream) - wanted
  BY <1>2, <1>7, <1>9
<1>11. \A x \in 1 .. wanted : Taken(wanted)[x] = Stream[x]
  BY <1>2, <1>4, <1>9
<1> QED BY <1>4, <1>7, <1>8, <1>10, <1>11

\* What is overwritten is what was read, and what is before and behind it stays.
Overwritten(buffer, offset, bytes) ==
    /\ buffer \in Seq(LineTypes) /\ Len(buffer) >= offset + Len(bytes)
    /\ \A x \in 1 .. offset : buffer[x] = rx_buffer[x]
    /\ \A x \in 1 .. Len(bytes) : buffer[x + offset] = bytes[x]
    /\ \A x \in 1 .. Len(buffer) :
        x > offset + Len(bytes) => x \in 1 .. Len(rx_buffer) /\ buffer[x] = rx_buffer[x]

LEMMA OverwriteCells ==
    ASSUME BytesInv, NEW bytes \in Seq(LineTypes), NEW offset \in Nat, offset <= Len(rx_buffer)
    PROVE  Overwritten(Overwrite(offset, bytes), offset, bytes)
<1>1. PICK size \in Nat : size = Len(bytes)
  BY LenProperties
<1>2. PICK buffer : buffer = Overwrite(offset, bytes)
  OBVIOUS
<1>3. PICK m \in Nat : m = Len(rx_buffer)
  BY StreamTypes, LenProperties
<1>4. rx_buffer \in Seq(LineTypes) /\ offset <= m
  BY <1>3, StreamTypes
<1>5. PICK before, behind :
        /\ before = SubSeq(rx_buffer, 1, offset)
        /\ behind = SubSeq(rx_buffer, offset + size + 1, m)
  OBVIOUS
<1>6. /\ before \in Seq(LineTypes) /\ Len(before) = offset
      /\ \A x \in 1 .. offset : before[x] = rx_buffer[x]
  <2>1. \A x \in 1 .. offset : rx_buffer[x] \in LineTypes
    BY <1>3, <1>4, ElementOfSeq
  <2>2. 1 \in Nat /\ offset - 1 + 1 = offset /\ \A x \in 1 .. offset : 1 + x - 1 = x
    OBVIOUS
  <2> QED BY <1>4, <1>5, <2>1, <2>2, SubSeqProperties
<1>7. /\ behind \in Seq(LineTypes) /\ Len(behind) \in Nat
      /\ \A y \in 1 .. Len(behind) :
            offset + size + y \in 1 .. m /\ behind[y] = rx_buffer[offset + size + y]
  <2>1. m \in 0 .. Len(rx_buffer) /\ offset + size + 1 \in Nat \ {0}
    BY <1>3
  <2>2. behind \in Seq(LineTypes)
    BY <1>4, <1>5, <2>1, PartOfSequence
  <2>3. PICK from \in Nat : from = offset + size + 1
    OBVIOUS
  <2>4. \A x \in from .. m : rx_buffer[x] \in LineTypes
    BY <1>3, <1>4, <2>3, ElementOfSeq
  <2>5. \A y \in 1 .. m - from + 1 : behind[y] = rx_buffer[from + y - 1]
    BY <1>5, <2>3, <2>4, SubSeqProperties
  <2>6. Len(behind) = IF from <= m + 1 THEN m - from + 1 ELSE 0
    BY <1>5, <2>3, <2>4, SubSeqProperties
  <2>7. ASSUME NEW y \in 1 .. Len(behind)
        PROVE  offset + size + y \in 1 .. m /\ behind[y] = rx_buffer[offset + size + y]
    <3>1. y \in 1 .. m - from + 1 /\ from + y - 1 = offset + size + y
          /\ offset + size + y \in 1 .. m
      BY <2>3, <2>6
    <3> QED BY <2>5, <3>1
  <2> QED BY <2>2, <2>7, LenProperties
<1>8. PICK front : front = before \o bytes
  OBVIOUS
<1>9. /\ front \in Seq(LineTypes) /\ Len(front) = offset + size
      /\ \A x \in 1 .. offset + size :
            front[x] = IF x <= offset THEN before[x] ELSE bytes[x - offset]
  <2>1. /\ before \o bytes \in Seq(LineTypes) /\ Len(before \o bytes) = Len(before) + Len(bytes)
        /\ \A x \in 1 .. Len(before) + Len(bytes) :
            (before \o bytes)[x] = IF x <= Len(before) THEN before[x] ELSE bytes[x - Len(before)]
    BY <1>6, ConcatProperties
  <2> QED BY <1>6, <1>8, <1>1, <2>1
<1>10. buffer = front \o behind
  BY <1>3, <1>5, <1>8, <1>1, <1>2 DEF Overwrite
<1>11. PICK rest \in Nat : rest = Len(behind)
  BY <1>7
<1>12. /\ buffer \in Seq(LineTypes) /\ Len(buffer) = offset + size + rest
       /\ \A x \in 1 .. offset + size + rest :
            buffer[x] = IF x <= offset + size THEN front[x] ELSE behind[x - (offset + size)]
  <2>1. /\ front \o behind \in Seq(LineTypes) /\ Len(front \o behind) = Len(front) + Len(behind)
        /\ \A x \in 1 .. Len(front) + Len(behind) :
            (front \o behind)[x] = IF x <= Len(front) THEN front[x] ELSE behind[x - Len(front)]
    BY <1>7, <1>9, ConcatProperties
  <2> QED BY <1>9, <1>10, <1>11, <2>1
<1>13. ASSUME NEW x \in 1 .. offset PROVE buffer[x] = rx_buffer[x]
  <2>1. /\ x \in 1 .. offset + size + rest /\ x \in 1 .. offset + size
        /\ x <= offset + size /\ x <= offset
    OBVIOUS
  <2> QED BY <1>6, <1>9, <1>12, <2>1
<1>14. ASSUME NEW x \in 1 .. size PROVE buffer[x + offset] = bytes[x]
  <2>1. PICK y \in 1 .. offset + size : y = x + offset
    OBVIOUS
  <2>2. y \in 1 .. offset + size + rest /\ y <= offset + size /\ ~(y <= offset) /\ y - offset = x
    BY <2>1
  <2> QED BY <1>9, <1>12, <2>1, <2>2
<1>15. offset + size + rest >= offset + size
  OBVIOUS
<1>16. ASSUME NEW x \in 1 .. Len(buffer), x > offset + size
       PROVE  x \in 1 .. m /\ buffer[x] = rx_buffer[x]
  <2>1. PICK y \in 1 .. rest : y = x - (offset + size) /\ offset + size + y = x
    BY <1>12, <1>16
  <2>2. x \in 1 .. offset + size + rest /\ ~(x <= offset + size)
    BY <1>12, <1>16
  <2> QED BY <1>7, <1>11, <1>12, <2>1, <2>2
<1> QED BY <1>3, <1>12, <1>13, <1>14, <1>15, <1>16, <1>1, <1>2 DEF Overwritten

\* The first m bytes of a packet are in the buffer, except for the two nobody looks at.
InBuffer(buffer, sent, n, m) ==
    /\ Len(buffer) >= m
    /\ \A k \in 3 .. m : buffer[k] = ByteOf(sent, n, k)

\* The header is taken for that of the packet.
HeaderReadsAs(buffer, sent, n, d) ==
    /\ Iden(buffer) = sent[n].iden /\ Size(buffer) = d /\ buffer[HeaderSize].of = n

\* The buffer is taken for the packet.
ReadsAs(buffer, sent, n) ==
    /\ ChecksumFits(buffer) /\ Iden(buffer) = sent[n].iden
    /\ Data(buffer) = sent[n].data /\ buffer[HeaderSize].of = n

\* A buffer with the header of a packet in it reads as that header.
LEMMA HeaderReads ==
    ASSUME NEW sent \in Seq(Kinds), NEW n \in 1 .. Len(sent), NEW d \in Nat,
           EncodedAs(sent[n], d), NEW buffer \in Seq(LineTypes), NEW m \in Nat, m >= 5,
           InBuffer(buffer, sent, n, m)
    PROVE  HeaderReadsAs(buffer, sent, n, d)
<1>1. PICK kind \in Kinds : kind = sent[n]
  BY ElementOfSeq
<1>2. EncodedAs(kind, d)
  BY <1>1
<1>3. PICK len \in Nat : len = Len(buffer) /\ len >= m
  BY LenProperties DEF InBuffer
<1>4. ASSUME NEW k \in 3 .. 5
      PROVE  buffer[k].of = n /\ Cell(buffer, k - 1) = Encoded(kind)[k]
  <2>1. k \in 3 .. m /\ k - 1 < len /\ k - 1 + 1 = k
    BY <1>3
  <2>2. buffer[k] = [of |-> n, at |-> k, value |-> Encoded(kind)[k]]
    BY <1>1, <2>1 DEF ByteOf, InBuffer
  <2> QED BY <1>3, <2>1, <2>2 DEF Cell
<1>5. /\ Cell(buffer, 2) = kind.iden % 256 /\ Cell(buffer, 3) = kind.iden \div 256
      /\ Cell(buffer, 4) = d /\ buffer[5].of = n
  <2>1. /\ 3 \in 3 .. 5 /\ 4 \in 3 .. 5 /\ 5 \in 3 .. 5
        /\ 3 - 1 = 2 /\ 4 - 1 = 3 /\ 5 - 1 = 4
    OBVIOUS
  <2>2. /\ Cell(buffer, 2) = Encoded(kind)[3] /\ Cell(buffer, 3) = Encoded(kind)[4]
        /\ Cell(buffer, 4) = Encoded(kind)[5] /\ buffer[5].of = n
    BY <1>4, <2>1
  <2> QED BY <1>2, <2>2 DEF EncodedAs
<1>6. Iden(buffer) = kind.iden
  <2>1. kind.iden \in Idens
    BY KindsAssumption
  <2>2. (kind.iden % 256) + 256 * (kind.iden \div 256) = kind.iden
    BY <2>1, TwoBytes
  <2> QED BY <1>5, <2>2 DEF Iden
<1> QED BY <1>1, <1>5, <1>6 DEF HeaderReadsAs, Size, HeaderSize

\* A buffer with all of a packet in it fits its checksum and reads as that packet.
LEMMA PacketRead ==
    ASSUME NEW sent \in Seq(Kinds), NEW n \in 1 .. Len(sent), NEW d \in Nat,
           EncodedAs(sent[n], d), NEW buffer \in Seq(LineTypes),
           InBuffer(buffer, sent, n, d + 6)
    PROVE  ReadsAs(buffer, sent, n)
<1>1. PICK kind \in Kinds : kind = sent[n]
  BY ElementOfSeq
<1>2. EncodedAs(kind, d)
  BY <1>1
<1>3. PICK len \in Nat : len = Len(buffer) /\ len >= d + 6
  BY LenProperties DEF InBuffer
<1>4. ASSUME NEW k \in 3 .. d + 6 PROVE Cell(buffer, k - 1) = Encoded(kind)[k]
  <2>1. buffer[k] = [of |-> n, at |-> k, value |-> Encoded(kind)[k]]
    BY <1>1 DEF ByteOf, InBuffer
  <2>2. k - 1 < len /\ k - 1 + 1 = k
    BY <1>3
  <2> QED BY <1>3, <2>1, <2>2 DEF Cell
<1>5. HeaderReadsAs(buffer, sent, n, d)
  <2>1. d + 6 \in Nat /\ d + 6 >= 5
    OBVIOUS
  <2> QED BY <2>1, HeaderReads
<1>6. Size(buffer) = d /\ buffer[HeaderSize].of = n /\ Iden(buffer) = kind.iden
  BY <1>1, <1>5 DEF HeaderReadsAs
<1>8. Data(buffer) = kind.data
  <2>1. kind.data \in Seq(Byte) /\ Len(kind.data) = d
    BY <1>2, KindsAssumption DEF EncodedAs
  <2>2. ASSUME NEW x \in 1 .. d PROVE Cell(buffer, HeaderSize + x - 1) = kind.data[x]
    <3>1. PICK k \in 3 .. d + 6 : k = x + 5 /\ k - 1 = 5 + x - 1
      OBVIOUS
    <3>2. Cell(buffer, k - 1) = Encoded(kind)[k]
      BY <1>4
    <3>3. Encoded(kind)[x + 5] = kind.data[x]
      BY <1>2 DEF EncodedAs
    <3> QED BY <3>1, <3>2, <3>3 DEF HeaderSize
  <2>3. kind.data = [x \in 1 .. d |-> kind.data[x]]
    <3>1. kind.data \in [1 .. d -> Byte]
      BY <2>1, LenProperties
    <3> QED BY <3>1
  <2> QED BY <1>6, <2>2, <2>3 DEF Data
<1>9. ChecksumFits(buffer)
  <2>1. PICK covered \in Seq(Byte) : covered = Covered(kind) /\ Len(covered) = d + 3
    BY <1>2 DEF EncodedAs
  <2>2. ASSUME NEW x \in 1 .. d + 3 PROVE Cell(buffer, x + 1) = covered[x]
    <3>1. PICK k \in 3 .. d + 6 : k = x + 2 /\ k - 1 = x + 1
      OBVIOUS
    <3>2. Cell(buffer, k - 1) = Encoded(kind)[k]
      BY <1>4
    <3>3. Encoded(kind)[x + 2] = covered[x]
      BY <1>2, <2>1 DEF EncodedAs
    <3> QED BY <3>1, <3>2, <3>3
  <2>3. covered = [x \in 1 .. d + 3 |-> covered[x]]
    BY <2>1
  <2>4. [x \in 1 .. d + 3 |-> Cell(buffer, x + 1)] = covered
    BY <2>2, <2>3
  <2>5. Cell(buffer, HeaderSize + d) = Checksum(covered)
    <3>1. d + 6 \in 3 .. d + 6 /\ d + 6 - 1 = 5 + d
      OBVIOUS
    <3>2. Cell(buffer, 5 + d) = Encoded(kind)[d + 6]
      BY <1>4, <3>1
    <3> QED BY <1>2, <2>1, <3>2 DEF EncodedAs, HeaderSize
  <2> QED BY <1>6, <2>4, <2>5 DEF ChecksumFits
<1> QED BY <1>1, <1>6, <1>8, <1>9 DEF ReadsAs

\* What is ahead is next until something is read.
LEMMA AheadStays ==
    ASSUME NEW n, Ahead(n), UNCHANGED <<packets, rx_buffer>>, Stream' = Stream,
           pc = "payload" <=> pc' = "payload"
    PROVE  Ahead(n)'
<1>1. (IF pc' = "payload" THEN HeaderSize + 1 ELSE 1)
        = IF pc = "payload" THEN HeaderSize + 1 ELSE 1
  OBVIOUS
<1> QED BY <1>1 DEF Ahead

\* There is a packet where something is ahead, and its first bytes are the first ahead.
LEMMA AheadPacket ==
    ASSUME BytesInv, NEW n \in Nat, Ahead(n), Len(Stream) # 0
    PROVE  /\ n \in 1 .. Len(packets)
           /\ \E d \in Nat : EncodedAs(packets[n], d) /\ BytesOf(packets, n) = d + 6
<1>1. n \in 1 .. Len(packets) + 1 /\ Len(packets) \in Nat /\ packets \in Seq(Kinds)
  BY StreamTypes DEF Ahead
<1>2. 1 \in 1 .. Len(Stream)
  <2>1. Len(Stream) \in Nat
    BY StreamTypes, LenProperties
  <2> QED BY <2>1
<1>3. Stream[1].of \in n .. Len(packets)
  BY <1>2 DEF Ahead, From, BytesFrom
<1>4. n \in 1 .. Len(packets)
  BY <1>1, <1>3
<1>5. PICK kind \in Kinds : kind = packets[n]
  BY <1>1, <1>4, ElementOfSeq
<1>6. PICK d \in Nat : EncodedAs(kind, d)
  BY EncodedFacts
<1>7. BytesOf(packets, n) = d + 6
  BY <1>5, <1>6 DEF EncodedAs, BytesOf
<1> QED BY <1>4, <1>5, <1>6, <1>7

\* In step, what is read as a header is one.
LEMMA HeaderAhead ==
    ASSUME BytesInv, NEW n \in Nat, Ahead(n), ReadHeader
    PROVE  Ahead(n)'
<1>1. /\ pc = "header" /\ pc' = "payload" /\ packets' = packets
      /\ fifo' = LeftBy(5) /\ line' = line /\ 5 <= Len(fifo)
      /\ rx_buffer' = Overwrite(0, Taken(5))
  BY StreamTypes, LenProperties DEF ReadHeader, HeaderSize
<1>2. /\ Stream' \in Seq(LineTypes) /\ 5 <= Len(Stream) /\ Len(Stream') = Len(Stream) - 5
      /\ \A x \in 1 .. Len(Stream') : Stream'[x] = Stream[x + 5]
      /\ Taken(5) \in Seq(LineTypes) /\ Len(Taken(5)) = 5
      /\ \A x \in 1 .. 5 : Taken(5)[x] = Stream[x]
  BY <1>1, ReadStream
<1>3. Stream \in Seq(LineTypes) /\ packets \in Seq(Kinds)
  BY StreamTypes
<1>4. PICK d \in Nat : n \in 1 .. Len(packets) /\ BytesOf(packets, n) = d + 6
  <2>1. Len(Stream) # 0
    BY <1>2, <1>3
  <2> QED BY <2>1, AheadPacket
<1>5. From(Stream, n, 1, packets)
  BY <1>1 DEF Ahead
<1>6. \A x \in 1 .. 5 : Stream[x] = ByteOf(packets, n, x)
  <2>1. \A l \in 1 .. d + 6 : Stream[l - 1 + 1] = ByteOf(packets, n, l)
    BY <1>3, <1>4, <1>5, NextBytes
  <2>2. ASSUME NEW x \in 1 .. 5 PROVE x \in 1 .. d + 6 /\ x - 1 + 1 = x
    OBVIOUS
  <2> QED BY <2>1, <2>2
<1>7. From(Stream', n, 6, packets)
  <2>1. PICK s \in Seq(LineTypes), rest \in Seq(LineTypes), k \in Nat, q \in Nat, last \in Nat :
            s = Stream /\ rest = Stream' /\ k = 1 /\ q = 5 /\ last = d + 6
    BY <1>2, <1>3
  <2>2. /\ k \in 1 .. last /\ q \in 1 .. last - k + 1 /\ k + q <= last /\ k + q = 6
        /\ last = BytesOf(packets, n)
    BY <1>4, <2>1
  <2>3. /\ From(s, n, k, packets) /\ q <= Len(s) /\ Len(rest) = Len(s) - q
        /\ \A x \in 1 .. Len(rest) : rest[x] = s[x + q]
    BY <1>2, <1>5, <2>1
  <2>4. IF k + q <= last THEN From(rest, n, k + q, packets) ELSE From(rest, n + 1, 1, packets)
    BY <1>3, <1>4, <2>2, <2>3, Dropped
  <2> QED BY <2>1, <2>2, <2>4
<1>8. \A k \in 1 .. 5 : rx_buffer'[k] = ByteOf(packets, n, k)
  <2>1. 0 <= Len(rx_buffer) /\ 5 \in Nat /\ 0 \in Nat
    BY StreamTypes, LenProperties
  <2>2. \A x \in 1 .. 5 : rx_buffer'[x + 0] = Taken(5)[x]
    <3>1. Overwritten(Overwrite(0, Taken(5)), 0, Taken(5))
      BY <1>2, <2>1, OverwriteCells
    <3> QED BY <1>1, <1>2, <3>1 DEF Overwritten
  <2>3. ASSUME NEW k \in 1 .. 5 PROVE k + 0 = k
    OBVIOUS
  <2> QED BY <1>2, <1>6, <2>2, <2>3
<1>9. n \in 1 .. Len(packets) + 1 /\ n <= Len(packets)
  BY <1>3, <1>4, LenProperties
<1> QED BY <1>1, <1>7, <1>8, <1>9 DEF Ahead, HeaderSize

\* In step, what is read behind a header completes its packet, which is accepted.
LEMMA PayloadAhead ==
    ASSUME BytesInv, HeaderRead, NEW n \in Nat, Ahead(n), ReadPayload
    PROVE  /\ \E packet : AsSent(packet, n) /\ accepted' = Append(accepted, packet)
           /\ Ahead(n + 1)' /\ n <= Len(packets)
<1>1. pc = "payload" /\ packets' = packets /\ line' = line
  BY DEF ReadPayload, Check
<1>2. PICK wanted : wanted = Size(rx_buffer) + 1
  OBVIOUS
<1>3. PICK buffer : buffer = Overwrite(HeaderSize, Taken(wanted))
  OBVIOUS
<1>4. /\ fifo' = LeftBy(wanted)
      /\ ChecksumFits(buffer) =>
            /\ pc' = "head"
            /\ accepted' = Append(accepted, [iden |-> Iden(buffer), data |-> Data(buffer),
                                             of |-> buffer[HeaderSize].of, inTime |-> TRUE,
                                             inStep |-> InStep(buffer)])
  BY <1>2, <1>3 DEF ReadPayload, Check
<1>5. /\ Stream \in Seq(LineTypes) /\ packets \in Seq(Kinds)
      /\ rx_buffer \in Seq(LineTypes) /\ fifo \in Seq(LineTypes)
  BY StreamTypes
<1>6. /\ From(Stream, n, 6, packets) /\ n \in 1 .. Len(packets) /\ n <= Len(packets)
      /\ \A k \in 1 .. 5 : rx_buffer[k] = ByteOf(packets, n, k)
  <2>1. Len(packets) \in Nat
    BY <1>5, LenProperties
  <2>2. n \in 1 .. Len(packets) + 1 /\ n <= Len(packets) /\ HeaderSize = 5 /\ HeaderSize + 1 = 6
    BY <1>1 DEF Ahead, HeaderSize
  <2>3. n \in 1 .. Len(packets)
    BY <2>1, <2>2
  <2> QED BY <1>1, <2>2, <2>3 DEF Ahead
<1>7. PICK d \in Nat : EncodedAs(packets[n], d) /\ BytesOf(packets, n) = d + 6
  <2>1. PICK kind \in Kinds : kind = packets[n]
    BY <1>5, <1>6, ElementOfSeq
  <2>2. PICK d \in Nat : EncodedAs(kind, d)
    BY EncodedFacts
  <2>3. BytesOf(packets, n) = d + 6
    BY <2>1, <2>2 DEF EncodedAs, BytesOf
  <2> QED BY <2>1, <2>2, <2>3, Zenon
<1>8. PICK held \in Nat : held = Len(rx_buffer) /\ 5 <= held
  BY <1>1, <1>5, LenProperties DEF HeaderRead, HeaderSize
<1>9. wanted = d + 1 /\ wanted \in Nat /\ Size(rx_buffer) = d
  <2>1. 4 < held /\ 4 + 1 = 5 /\ 5 \in 1 .. 5
    BY <1>8
  <2>2. Size(rx_buffer) = rx_buffer[5].value /\ rx_buffer[5] = ByteOf(packets, n, 5)
    BY <1>6, <1>8, <2>1 DEF Size, Cell
  <2>3. Size(rx_buffer) = d
    BY <1>7, <2>2 DEF EncodedAs, ByteOf
  <2> QED BY <1>2, <2>3
<1>10. wanted <= Len(fifo)
  <2>1. Len(fifo) \in Nat /\ Len(fifo) > d
    BY <1>2, <1>5, <1>9, LenProperties DEF ReadPayload
  <2> QED BY <1>9, <2>1
<1>11. /\ Stream' \in Seq(LineTypes) /\ wanted <= Len(Stream)
       /\ Len(Stream') = Len(Stream) - wanted
       /\ \A x \in 1 .. Len(Stream') : Stream'[x] = Stream[x + wanted]
       /\ Taken(wanted) \in Seq(LineTypes) /\ Len(Taken(wanted)) = wanted
       /\ \A x \in 1 .. wanted : Taken(wanted)[x] = Stream[x]
  BY <1>1, <1>4, <1>9, <1>10, ReadStream
<1>12. \A x \in 1 .. wanted : Stream[x] = ByteOf(packets, n, x + 5)
  <2>1. \A l \in 6 .. d + 6 : Stream[l - 6 + 1] = ByteOf(packets, n, l)
    <3>1. 6 \in 1 .. d + 6 /\ d + 6 \in Nat
      OBVIOUS
    <3> QED BY <1>5, <1>6, <1>7, <3>1, NextBytes
  <2>2. ASSUME NEW x \in 1 .. d + 1 PROVE x + 5 \in 6 .. d + 6 /\ x + 5 - 6 + 1 = x
    OBVIOUS
  <2> QED BY <1>9, <2>1, <2>2
<1>13. From(Stream', n + 1, 1, packets)
  <2>1. PICK s \in Seq(LineTypes), rest \in Seq(LineTypes) : s = Stream /\ rest = Stream'
    BY <1>5, <1>11
  <2>2. PICK k \in Nat, q \in Nat, last \in Nat : k = 6 /\ q = wanted /\ last = d + 6
    BY <1>9
  <2>3. /\ k \in 1 .. last /\ q \in 1 .. last - k + 1 /\ ~(k + q <= last)
        /\ last = BytesOf(packets, n)
    BY <1>7, <1>9, <2>2
  <2>4. /\ From(s, n, k, packets) /\ q <= Len(s) /\ Len(rest) = Len(s) - q
        /\ \A x \in 1 .. Len(rest) : rest[x] = s[x + q]
    BY <1>6, <1>11, <2>2, <2>1
  <2>5. IF k + q <= last THEN From(rest, n, k + q, packets) ELSE From(rest, n + 1, 1, packets)
    BY <1>5, <1>6, <2>3, <2>4, Dropped
  <2> QED BY <2>3, <2>5, <2>1
<1>14. buffer \in Seq(LineTypes) /\ InBuffer(buffer, packets, n, d + 6)
  <2>1. /\ buffer \in Seq(LineTypes) /\ Len(buffer) >= 5 + wanted
        /\ \A x \in 1 .. 5 : buffer[x] = rx_buffer[x]
        /\ \A x \in 1 .. wanted : buffer[x + 5] = Taken(wanted)[x]
    <3>1. PICK offset \in Nat, bytes \in Seq(LineTypes) :
              /\ offset = 5 /\ bytes = Taken(wanted) /\ offset <= Len(rx_buffer)
              /\ buffer = Overwrite(offset, bytes) /\ wanted = Len(bytes)
      BY <1>3, <1>8, <1>11 DEF HeaderSize
    <3>2. Overwritten(buffer, offset, bytes)
      BY <3>1, OverwriteCells
    <3> QED BY <3>1, <3>2 DEF Overwritten
  <2>2. 5 + wanted = d + 6
    BY <1>9
  <2>3. ASSUME NEW k \in 3 .. d + 6 PROVE buffer[k] = ByteOf(packets, n, k)
    <3>1. CASE k <= 5
      <4>1. k \in 1 .. 5
        BY <3>1
      <4> QED BY <1>6, <2>1, <4>1
    <3>2. CASE ~(k <= 5)
      <4>1. PICK x \in 1 .. wanted : k = x + 5
        <5>1. k - 5 \in 1 .. d + 1 /\ k = k - 5 + 5
          BY <3>2
        <5> QED BY <1>9, <5>1
      <4> QED BY <1>11, <1>12, <2>1, <4>1
    <3> QED BY <3>1, <3>2
  <2> QED BY <2>1, <2>2, <2>3 DEF InBuffer
<1>15. ReadsAs(buffer, packets, n)
  BY <1>5, <1>6, <1>7, <1>14, PacketRead
<1>16. PICK packet : packet = [iden |-> Iden(buffer), data |-> Data(buffer),
                               of |-> buffer[HeaderSize].of, inTime |-> TRUE,
                               inStep |-> InStep(buffer)]
  OBVIOUS
<1>17. AsSent(packet, n)
  BY <1>15, <1>16 DEF AsSent, IsPacketSent, ReadsAs
<1>18. accepted' = Append(accepted, packet) /\ pc' = "head"
  BY <1>4, <1>15, <1>16 DEF ReadsAs
<1>19. n + 1 \in 1 .. Len(packets) + 1
  BY <1>5, <1>6, LenProperties
<1>20. Ahead(n + 1)'
  BY <1>1, <1>13, <1>18, <1>19 DEF Ahead
<1> QED BY <1>6, <1>17, <1>18, <1>20

\* Concatenation is associative.
LEMMA AddedBehind ==
    ASSUME NEW S, NEW s \in Seq(S), NEW t \in Seq(S), NEW u \in Seq(S)
    PROVE  s \o (t \o u) = (s \o t) \o u
BY ConcatAssociative

\* What the computer sends is behind what is ahead.
LEMMA SendAhead ==
    ASSUME BytesInv, NEW kind \in Kinds, ComputerSends(kind), NEW n \in Nat, Ahead(n)
    PROVE  Ahead(n)'
<1>1. PICK size \in Nat : size = Len(packets)
  BY StreamTypes
<1>2. PICK more : more = Line(kind, size + 1)
  OBVIOUS
<1>3. packets' = Append(packets, kind) /\ line' = line \o more
      /\ UNCHANGED <<fifo, rx_buffer, pc>>
  BY <1>1, <1>2 DEF ComputerSends, readVars, Line
<1>4. /\ packets \in Seq(Kinds) /\ Stream \in Seq(LineTypes)
      /\ fifo \in Seq(LineTypes) /\ line \in Seq(LineTypes)
  BY StreamTypes
<1>5. more \in Seq(LineTypes)
  BY <1>2, LineOfPacket
<1>6. Stream' = Stream \o more
  <2>1. fifo \o (line \o more) = (fifo \o line) \o more
    BY <1>4, <1>5, AddedBehind
  <2> QED BY <1>3, <2>1 DEF Stream
<1>7. PICK k \in Nat \ {0} :
        k = (IF pc = "payload" THEN HeaderSize + 1 ELSE 1)
  BY DEF HeaderSize
<1>8. n \in 1 .. size + 1 /\ From(Stream, n, k, packets) /\ (n = size + 1 => k = 1)
  <2>1. pc = "payload" => n # size + 1
    BY <1>1 DEF Ahead
  <2> QED BY <1>1, <1>7, <2>1 DEF Ahead
<1>9. From(Stream', n, k, packets')
  <2>1. more = Line(kind, Len(packets) + 1) /\ n \in 1 .. Len(packets) + 1
        /\ (n = Len(packets) + 1 => k = 1)
    BY <1>1, <1>2, <1>8
  <2>2. From(Stream \o more, n, k, Append(packets, kind))
    BY <1>4, <1>8, <2>1, SentMore
  <2> QED BY <1>3, <1>6, <2>2
<1>10. /\ Len(packets') = size + 1
       /\ \A i \in 1 .. size : packets'[i] = packets[i]
  BY <1>1, <1>3, <1>4, AppendProperties
<1>11. ASSUME pc = "payload"
       PROVE  /\ n <= Len(packets')
              /\ \A i \in 1 .. HeaderSize : rx_buffer'[i] = ByteOf(packets', n, i)
  <2>1. /\ n <= size /\ n \in 1 .. size
        /\ \A i \in 1 .. HeaderSize : rx_buffer[i] = ByteOf(packets, n, i)
    BY <1>1, <1>8, <1>11 DEF Ahead
  <2>2. packets'[n] = packets[n] /\ n <= size + 1
    BY <1>10, <2>1
  <2> QED BY <1>3, <1>10, <2>1, <2>2 DEF ByteOf
<1>12. n \in 1 .. Len(packets') + 1
  BY <1>8, <1>10
<1> QED BY <1>3, <1>7, <1>9, <1>11, <1>12 DEF Ahead

\* A packet that is sent into silence is ahead.
LEMMA FirstAhead ==
    ASSUME BytesInv, NEW kind \in Kinds, ComputerSends(kind), AtRest,
           NEW n \in Nat, n = Len(packets) + 1
    PROVE  Ahead(n)'
<1>1. Len(packets) \in Nat
  BY StreamTypes
<1>2. Stream = <<>>
  BY DEF AtRest, Stream
<1>3. From(<<>>, n, 1, packets)
  <2>1. Len(<<>>) = 0
    OBVIOUS
  <2>2. BytesFrom(<<>>, n, 1, packets) /\ Ordered(<<>>)
    BY <2>1 DEF BytesFrom, Ordered
  <2>3. AllFrom(<<>>, n, 1, packets)
    BY <1>1 DEF AllFrom
  <2> QED BY <2>2, <2>3 DEF From
<1>4. Ahead(n)
  BY <1>1, <1>2, <1>3 DEF Ahead, AtRest
<1> QED BY <1>4, SendAhead

\* Steps that read and send nothing.
LEMMA StillInStep ==
    ASSUME StepInv, UNCHANGED <<packets, accepted, clean, rx_buffer>>, Stream' = Stream,
           pc = "payload" <=> pc' = "payload", disturbed \subseteq disturbed'
    PROVE  StepInv'
<1>1. \A j \in 1 .. Len(accepted') : accepted'[j].of <= Len(packets')
  BY DEF StepInv
<1>2. ASSUME NEW c \in clean', Undisturbed(c)'
      PROVE  \E a \in 0 .. Len(accepted') :
                /\ Following(c, a)'
                /\ Ahead(c + Len(accepted) - a)'
  <2>1. c \in clean /\ Undisturbed(c)
    BY <1>2 DEF Undisturbed
  <2>2. PICK a \in 0 .. Len(accepted) : Following(c, a) /\ Ahead(c + Len(accepted) - a)
    BY <2>1 DEF StepInv
  <2>3. PICK n : n = c + Len(accepted) - a
    OBVIOUS
  <2>4. Ahead(n)'
    BY <2>2, <2>3, AheadStays
  <2>5. Following(c, a)'
    BY <2>2 DEF Following, AsSent, IsPacketSent
  <2> QED BY <2>2, <2>3, <2>4, <2>5
<1> QED BY <1>1, <1>2 DEF StepInv

\* A packet that is ahead, or one behind it, has been disturbed.
LEMMA OutOfStep ==
    ASSUME BytesInv, RecordInv, StepInv, clean' = clean, disturbed \subseteq disturbed',
           \A j \in 1 .. Len(accepted') : accepted'[j].of <= Len(packets'),
           NEW m \in disturbed', m \in Nat, \A n \in Nat : Ahead(n) => n <= m
    PROVE  StepInv'
<1>1. \A c \in clean : c \in Nat
  BY StreamTypes DEF RecordInv
<1>2. PICK len \in Nat : len = Len(accepted)
  BY LenProperties DEF RecordInv
<1>3. ASSUME NEW c \in clean, Undisturbed(c)' PROVE FALSE
  <2>1. Undisturbed(c) /\ m < c
    BY <1>3 DEF Undisturbed
  <2>2. PICK a \in 0 .. len : Ahead(c + len - a)
    BY <1>2, <2>1 DEF StepInv
  <2>3. PICK n \in Nat : n = c + len - a /\ c <= n
    BY <1>1
  <2>4. n <= m
    BY <2>2, <2>3
  <2> QED BY <1>1, <2>1, <2>3, <2>4
<1>4. \A c \in clean' : ~Undisturbed(c)'
  BY <1>3
<1> QED BY <1>4 DEF StepInv

\* Bytes that are ahead belong to the next packet or to later ones.
LEMMA LaterBytes ==
    ASSUME BytesInv, NEW x \in 1 .. Len(Stream)
    PROVE  Stream[x].of \in Nat /\ \A n \in Nat : Ahead(n) => n <= Stream[x].of
<1>1. Stream[x].of \in Nat
  BY StreamTypes, LineFacts
<1>2. ASSUME NEW n \in Nat, Ahead(n) PROVE n <= Stream[x].of
  <2>1. Stream[x].of \in n .. Len(packets)
    BY <1>2 DEF Ahead, From, BytesFrom
  <2> QED BY <2>1
<1> QED BY <1>1, <1>2

\* The computer sends a packet, perhaps into silence.
LEMMA SendInStep ==
    ASSUME BytesInv, RecordInv, StepInv, NEW kind \in Kinds, ComputerSends(kind)
    PROVE  StepInv'
<1>1. PICK number \in Nat : number = Len(packets) + 1
  BY StreamTypes
<1>2. PICK len \in Nat : len = Len(accepted)
  BY LenProperties DEF RecordInv
<1>3. /\ UNCHANGED <<accepted, disturbed>> /\ packets' = Append(packets, kind)
      /\ clean' = IF AtRest THEN clean \union {number} ELSE clean
  BY <1>1 DEF ComputerSends, readVars
<1>4. Len(packets') = number /\ \A n \in 1 .. number - 1 : packets'[n] = packets[n]
  BY <1>1, <1>3, StreamTypes, AppendProperties
<1>5. \A j \in 1 .. len : accepted[j].of \in 1 .. number - 1
  <2>1. ASSUME NEW j \in 1 .. len PROVE accepted[j].of \in 1 .. number - 1
    <3>1. accepted[j] \in Accepted
      BY <1>2, ElementOfSeq DEF RecordInv
    <3>2. PICK n \in Nat : n = accepted[j].of /\ 1 <= n
      BY <3>1, BoundsAssumption DEF Accepted
    <3>3. n <= number - 1
      BY <1>1, <1>2, <3>2, StreamTypes DEF StepInv
    <3> QED BY <3>2, <3>3
  <2> QED BY <2>1
<1>6. \A j \in 1 .. len : accepted[j].of <= number
  BY <1>5
<1>7. ASSUME NEW c \in clean, Undisturbed(c)
      PROVE  \E a \in 0 .. len : Following(c, a)' /\ Ahead(c + len - a)'
  <2>1. PICK a \in 0 .. len : Following(c, a) /\ Ahead(c + len - a)
    BY <1>2, <1>7 DEF StepInv
  <2>2. c \in Nat
    BY StreamTypes DEF RecordInv
  <2>3. PICK n \in Nat : n = c + len - a
    BY <2>2
  <2>4. Ahead(n)'
    BY <2>1, <2>3, SendAhead
  <2>5. ASSUME NEW j \in a + 1 .. len PROVE AsSent(accepted[j], c + j - a - 1)'
    <3>1. AsSent(accepted[j], c + j - a - 1) /\ j \in 1 .. len
      BY <1>2, <2>1 DEF Following
    <3>2. PICK m : m = c + j - a - 1
      OBVIOUS
    <3>3. m \in 1 .. number - 1
      BY <1>5, <3>1, <3>2 DEF AsSent
    <3>4. packets'[m] = packets[m]
      BY <1>4, <3>3
    <3> QED BY <1>3, <3>1, <3>2, <3>4 DEF AsSent, IsPacketSent
  <2>6. Following(c, a)'
    BY <1>2, <1>3, <2>1, <2>5 DEF Following
  <2> QED BY <2>3, <2>4, <2>6
<1>8. ASSUME AtRest
      PROVE  \E a \in 0 .. len : Following(number, a)' /\ Ahead(number + len - a)'
  <2>1. len \in 0 .. len /\ number + len - len = number
    OBVIOUS
  <2>2. Ahead(number)'
    BY <1>1, <1>8, FirstAhead
  <2>3. \A j \in 1 .. len : accepted[j].of < number
    BY <1>5
  <2>4. len + 1 .. len = {}
    OBVIOUS
  <2>5. Following(number, len)'
    BY <1>2, <1>3, <2>3, <2>4 DEF Following
  <2> QED BY <2>1, <2>2, <2>5
<1>9. ASSUME NEW c \in clean', Undisturbed(c)'
      PROVE  \E a \in 0 .. len : Following(c, a)' /\ Ahead(c + len - a)'
  <2>1. Undisturbed(c)
    BY <1>3, <1>9 DEF Undisturbed
  <2>2. c \in clean \/ (c = number /\ AtRest)
    BY <1>3
  <2> QED BY <1>7, <1>8, <2>1, <2>2
<1>10. Len(accepted') = len /\ accepted' = accepted
  BY <1>2, <1>3
<1> QED BY <1>4, <1>6, <1>9, <1>10 DEF StepInv

\* A header is read.
LEMMA HeaderInStep ==
    ASSUME BytesInv, RecordInv, StepInv, ReadHeader
    PROVE  StepInv'
<1>1. UNCHANGED <<accepted, packets, clean, disturbed>>
  BY DEF ReadHeader
<1>2. PICK len \in Nat : len = Len(accepted)
  BY LenProperties DEF RecordInv
<1>3. ASSUME NEW c \in clean, Undisturbed(c)
      PROVE  \E a \in 0 .. len : Following(c, a)' /\ Ahead(c + len - a)'
  <2>1. PICK a \in 0 .. len : Following(c, a) /\ Ahead(c + len - a)
    BY <1>2, <1>3 DEF StepInv
  <2>2. c \in Nat
    BY StreamTypes DEF RecordInv
  <2>3. PICK n \in Nat : n = c + len - a
    BY <2>2
  <2>4. Ahead(n)'
    BY <2>1, <2>3, HeaderAhead
  <2>5. Following(c, a)'
    BY <1>1, <2>1 DEF Following, AsSent, IsPacketSent
  <2> QED BY <2>3, <2>4, <2>5
<1>4. \A c : Undisturbed(c)' = Undisturbed(c)
  BY <1>1 DEF Undisturbed
<1> QED BY <1>1, <1>2, <1>3, <1>4 DEF StepInv

\* What is accepted is of a packet that was sent.
LEMMA AcceptedSent ==
    ASSUME BytesInv, HeaderRead, RecordInv, StepInv, pc = "payload",
           NEW wanted, wanted = Size(rx_buffer) + 1, NEW inTime, Check(wanted, inTime)
    PROVE  \A j \in 1 .. Len(accepted') : accepted'[j].of <= Len(packets')
<1>1. packets' = packets
  BY DEF Check
<1>2. PICK buffer : buffer = Overwrite(HeaderSize, Taken(wanted))
  OBVIOUS
<1>3. buffer \in Seq(SentBytes) /\ Len(buffer) >= HeaderSize
  BY <1>2, CheckedBuffer
<1>4. buffer[HeaderSize].of <= Len(packets)
  <2>1. 5 \in 1 .. Len(buffer)
    BY <1>3, LenProperties DEF HeaderSize
  <2>2. buffer[5] \in SentBytes
    BY <1>3, <2>1, ElementOfSeq
  <2>3. buffer[5].of \in 1 .. Len(packets)
    BY <2>2 DEF SentBytes
  <2> QED BY <2>3, StreamTypes DEF HeaderSize
<1>5. \/ accepted' = accepted
      \/ \E packet : packet.of = buffer[HeaderSize].of /\ accepted' = Append(accepted, packet)
  <2>1. CASE ChecksumFits(buffer)
    <3>1. PICK packet : packet = [iden |-> Iden(buffer), data |-> Data(buffer),
                                  of |-> buffer[HeaderSize].of, inTime |-> inTime,
                                  inStep |-> InStep(buffer)]
      OBVIOUS
    <3>2. accepted' = Append(accepted, packet)
      BY <1>2, <2>1, <3>1 DEF Check
    <3> QED BY <3>1, <3>2
  <2>2. CASE ~ChecksumFits(buffer)
    BY <1>2, <2>2 DEF Check
  <2> QED BY <2>1, <2>2
<1>6. \A j \in 1 .. Len(accepted) : accepted[j].of <= Len(packets)
  BY DEF StepInv
<1>7. accepted \in Seq(Accepted)
  BY DEF RecordInv
<1>8. CASE accepted' = accepted
  BY <1>1, <1>6, <1>8
<1>9. ASSUME NEW packet, packet.of = buffer[HeaderSize].of, accepted' = Append(accepted, packet)
      PROVE  \A j \in 1 .. Len(accepted') : accepted'[j].of <= Len(packets')
  <2>1. PICK len \in Nat : len = Len(accepted)
    BY <1>7, LenProperties
  <2>2. /\ Len(accepted') = len + 1 /\ accepted'[len + 1] = packet
        /\ \A j \in 1 .. len : accepted'[j] = accepted[j]
    BY <1>7, <1>9, <2>1, AppendToSeq DEF IsSeq
  <2>3. ASSUME NEW j \in 1 .. len + 1 PROVE j \in 1 .. len \/ j = len + 1
    OBVIOUS
  <2> QED BY <1>1, <1>4, <1>6, <1>9, <2>1, <2>2, <2>3
<1> QED BY <1>5, <1>8, <1>9

\* A payload is read, and its packet accepted as the next one.
LEMMA PayloadInStep ==
    ASSUME BytesInv, HeaderRead, RecordInv, StepInv, ReadPayload
    PROVE  StepInv'
<1>1. /\ UNCHANGED <<packets, clean, disturbed>> /\ pc = "payload"
      /\ Check(Size(rx_buffer) + 1, TRUE)
  BY DEF ReadPayload, Check
<1>2. PICK len \in Nat : len = Len(accepted) /\ accepted \in Seq(Accepted)
  BY LenProperties DEF RecordInv
<1>3. \A j \in 1 .. Len(accepted') : accepted'[j].of <= Len(packets')
  BY <1>1, AcceptedSent
<1>4. ASSUME NEW c \in clean, Undisturbed(c)
      PROVE  /\ Len(accepted') = len + 1
             /\ \E a \in 0 .. len + 1 : Following(c, a)' /\ Ahead(c + len + 1 - a)'
  <2>1. PICK a \in 0 .. len : Following(c, a) /\ Ahead(c + len - a)
    BY <1>2, <1>4 DEF StepInv
  <2>2. c \in Nat
    BY StreamTypes DEF RecordInv
  <2>3. PICK n \in Nat : n = c + len - a /\ n + 1 = c + len + 1 - a
    BY <2>2
  <2>4. Ahead(n + 1)' /\ \E packet : AsSent(packet, n) /\ accepted' = Append(accepted, packet)
    BY <2>1, <2>3, PayloadAhead
  <2>5. PICK packet : AsSent(packet, n) /\ accepted' = Append(accepted, packet)
    BY <2>4
  <2>6. /\ Len(accepted') = len + 1 /\ accepted'[len + 1] = packet
        /\ \A j \in 1 .. len : accepted'[j] = accepted[j]
    BY <1>2, <2>5, AppendToSeq DEF IsSeq
  <2>7. ASSUME NEW j \in a + 1 .. len + 1 PROVE AsSent(accepted'[j], c + j - a - 1)
    <3>1. CASE j = len + 1
      <4>1. c + j - a - 1 = n
        BY <2>2, <2>3, <3>1
      <4> QED BY <2>5, <2>6, <3>1, <4>1
    <3>2. CASE j # len + 1
      <4>1. j \in a + 1 .. len /\ j \in 1 .. len
        BY <3>2
      <4>2. AsSent(accepted[j], c + j - a - 1)
        BY <1>2, <2>1, <4>1 DEF Following
      <4> QED BY <2>6, <4>1, <4>2
    <3> QED BY <3>1, <3>2
  <2>8. \A j \in a + 1 .. len + 1 : AsSent(accepted[j], c + j - a - 1)'
    BY <1>1, <2>7 DEF AsSent, IsPacketSent
  <2>9. \A j \in 1 .. a : accepted'[j].of < c
    <3>1. \A j \in 1 .. a : accepted[j].of < c /\ j \in 1 .. len
      BY <2>1 DEF Following
    <3> QED BY <2>6, <3>1
  <2>10. Following(c, a)'
    BY <2>6, <2>8, <2>9 DEF Following
  <2>11. a \in 0 .. len + 1
    OBVIOUS
  <2> QED BY <2>3, <2>4, <2>6, <2>10, <2>11
<1>5. \A c : Undisturbed(c)' = Undisturbed(c)
  BY <1>1 DEF Undisturbed
<1>6. ASSUME NEW c \in clean', Undisturbed(c)'
      PROVE  \E a \in 0 .. Len(accepted') : Following(c, a)' /\ Ahead(c + Len(accepted) - a)'
  <2>1. /\ Len(accepted') = len + 1
        /\ \E a \in 0 .. len + 1 : Following(c, a)' /\ Ahead(c + len + 1 - a)'
    BY <1>1, <1>4, <1>5, <1>6
  <2>2. PICK a \in 0 .. len + 1 : Following(c, a)' /\ Ahead(c + len + 1 - a)'
    BY <2>1
  <2>3. c + len + 1 - a = c + Len(accepted') - a
    <3>1. c \in Nat
      BY <1>1, <1>6, StreamTypes DEF RecordInv
    <3> QED BY <2>1, <3>1
  <2> QED BY <2>1, <2>2, <2>3
<1> QED BY <1>3, <1>6 DEF StepInv

\* The first of the bytes on the line is moved to the end of the FIFO.
LEMMA Moved ==
    ASSUME NEW S, NEW s \in Seq(S), NEW t \in Seq(S), t # <<>>
    PROVE  Append(s, Head(t)) \o Tail(t) = s \o t
<1>1. PICK x \in S, u \in Seq(S) : x = Head(t) /\ u = Tail(t)
  BY HeadTailProperties
<1>2. t = <<x>> \o u /\ x = Head(t) /\ u = Tail(t)
  <2>1. PICK n \in Nat : n = Len(t) /\ 1 <= n
    BY LenProperties
  <2>2. 1 \in 1 .. n /\ n \in 1 .. n
    BY <2>1
  <2>3. SubSeq(t, 1, n) = <<t[1]>> \o SubSeq(t, 1 + 1, n)
    BY <2>1, <2>2, SubSeqRecursiveFirst
  <2>4. SubSeq(t, 1, n) = t /\ Tail(t) = SubSeq(t, 2, n) /\ t[1] = Head(t) /\ 1 + 1 = 2
    BY <2>1, SubSeqFull, TailIsSubSeq
  <2> QED BY <1>1, <2>3, <2>4
<1>3. Append(s, x) = s \o <<x>> /\ <<x>> \in Seq(S)
  OBVIOUS
<1>4. (s \o <<x>>) \o u = s \o (<<x>> \o u)
  BY <1>3, ConcatAssociative
<1> QED BY <1>2, <1>3, <1>4

\* Every step.
LEMMA InStepPreserved ==
    BytesInv /\ HeaderRead /\ RecordInv /\ StepInv /\ [Next]_vars => StepInv'
<1> SUFFICES ASSUME BytesInv, HeaderRead, RecordInv, StepInv, [Next]_vars
             PROVE  StepInv'
  OBVIOUS
<1>1. \A j \in 1 .. Len(accepted) : accepted[j].of <= Len(packets)
  BY DEF StepInv
<1>2. ASSUME NEW kind \in Kinds, ComputerSends(kind) PROVE StepInv'
  BY <1>2, SendInStep
<1>3. CASE ByteArrives
  <2>1. line # <<>> /\ fifo' = Append(fifo, Head(line)) /\ line' = Tail(line)
    BY <1>3 DEF ByteArrives
  <2>2. Stream' = Stream
    <3>1. fifo \in Seq(LineTypes) /\ line \in Seq(LineTypes)
      BY StreamTypes
    <3> QED BY <2>1, <3>1, Moved DEF Stream
  <2>3. UNCHANGED <<packets, accepted, clean, rx_buffer, pc, disturbed>>
    BY <1>3 DEF ByteArrives, readVars
  <2> QED BY <2>2, <2>3, StillInStep
<1>4. CASE ByteLost
  <2>1. /\ line # <<>> /\ disturbed' = disturbed \union {Head(line).of}
        /\ UNCHANGED <<packets, accepted, clean>>
    BY <1>4 DEF ByteLost, readVars
  <2>2. PICK x \in 1 .. Len(Stream) : Stream[x] = Head(line)
    <3>1. line \in Seq(LineTypes) /\ Len(line) \in Nat /\ Len(fifo) \in Nat
      BY StreamTypes, LenProperties
    <3>2. 1 \in 1 .. Len(line) /\ Head(line) = line[1]
      BY <2>1, <3>1
    <3>3. 1 + Len(fifo) \in 1 .. Len(Stream)
      BY <3>1, <3>2, StreamTypes
    <3> QED BY <3>2, <3>3, StreamTypes
  <2>3. PICK m : m = Stream[x].of
    OBVIOUS
  <2>4. m \in disturbed' /\ m \in Nat /\ \A n \in Nat : Ahead(n) => n <= m
    BY <2>1, <2>2, <2>3, LaterBytes
  <2> QED BY <1>1, <2>1, <2>4, OutOfStep
<1>5. CASE ReadHeader
  BY <1>5, HeaderInStep
<1>6. CASE HeaderTimeout
  <2>1. /\ Len(fifo) \in 1 .. HeaderSize - 1 /\ UNCHANGED <<packets, accepted, clean>>
        /\ disturbed' = disturbed \union {fifo[i].of : i \in 1 .. Len(fifo)}
    BY <1>6 DEF HeaderTimeout
  <2>2. 1 \in 1 .. Len(fifo) /\ 1 \in 1 .. Len(Stream) /\ Stream[1] = fifo[1]
    <3>1. Len(fifo) \in Nat /\ Len(line) \in Nat /\ Len(Stream) = Len(fifo) + Len(line)
      BY StreamTypes, LenProperties
    <3>2. 1 \in 1 .. Len(fifo)
      BY <2>1, <3>1 DEF HeaderSize
    <3> QED BY <3>1, <3>2, StreamTypes
  <2>3. PICK m : m = Stream[1].of
    OBVIOUS
  <2>4. m \in disturbed' /\ m \in Nat /\ \A n \in Nat : Ahead(n) => n <= m
    BY <2>1, <2>2, <2>3, LaterBytes
  <2> QED BY <1>1, <2>1, <2>4, OutOfStep
<1>7. CASE ReadPayload
  BY <1>7, PayloadInStep
<1>8. CASE PayloadTimeout
  <2>1. /\ pc = "payload" /\ Check(Size(rx_buffer) + 1, FALSE)
        /\ disturbed' = disturbed \union {rx_buffer[i].of : i \in 1 .. HeaderSize}
                                  \union {fifo[i].of : i \in 1 .. Len(fifo)}
        /\ clean' = clean
    BY <1>8 DEF PayloadTimeout, Check
  <2>2. \A j \in 1 .. Len(accepted') : accepted'[j].of <= Len(packets')
    BY <2>1, AcceptedSent
  <2>3. PICK m : m = rx_buffer[1].of
    OBVIOUS
  <2>4. 1 \in 1 .. HeaderSize /\ 1 \in 1 .. Len(rx_buffer)
    <3>1. Len(rx_buffer) \in Nat /\ Len(rx_buffer) >= 5
      BY <2>1, StreamTypes, LenProperties DEF HeaderRead, HeaderSize
    <3> QED BY <3>1 DEF HeaderSize
  <2>5. m \in disturbed'
    BY <2>1, <2>3, <2>4
  <2>6. m \in Nat
    BY <2>3, <2>4, StreamTypes, LineFacts
  <2>7. \A n \in Nat : Ahead(n) => n <= m
    <3>1. ASSUME NEW n \in Nat, Ahead(n) PROVE n <= m
      <4>1. rx_buffer[1] = ByteOf(packets, n, 1)
        BY <2>1, <2>4, <3>1 DEF Ahead
      <4>2. m = n
        BY <2>3, <4>1 DEF ByteOf
      <4> QED BY <4>2
    <3> QED BY <3>1
  <2>8. disturbed \subseteq disturbed'
    BY <2>1
  <2> QED BY <2>1, <2>2, <2>5, <2>6, <2>7, <2>8, OutOfStep
<1>9. CASE FillHead
  <2>1. /\ UNCHANGED <<packets, accepted, clean, rx_buffer, disturbed, line, fifo>>
        /\ pc = "head" /\ pc' = "data"
    BY <1>9 DEF FillHead, lineVars, readVars
  <2> QED BY <2>1, StillInStep DEF Stream
<1>10. CASE FillData
  <2>1. /\ UNCHANGED <<packets, accepted, clean, rx_buffer, disturbed, line, fifo>>
        /\ pc = "data" /\ pc' = "send"
    BY <1>10 DEF FillData, lineVars, readVars
  <2> QED BY <2>1, StillInStep DEF Stream
<1>11. CASE SendPacket
  <2>1. /\ UNCHANGED <<packets, accepted, clean, rx_buffer, disturbed, line, fifo>>
        /\ pc = "send" /\ pc' = "header"
    BY <1>11 DEF SendPacket, lineVars, readVars
  <2> QED BY <2>1, StillInStep DEF Stream
<1>12. CASE PostOther \/ MainHandles \/ UNCHANGED vars
  <2>1. UNCHANGED <<packets, accepted, clean, rx_buffer, disturbed, line, fifo, pc>>
    BY <1>12 DEF PostOther, MainHandles, vars, lineVars, readVars
  <2> QED BY <2>1, StillInStep DEF Stream
<1> QED
  BY <1>2, <1>3, <1>4, <1>5, <1>6, <1>7, <1>8, <1>9, <1>10, <1>11, <1>12 DEF Next, UartRxTask

LEMMA InitInStep == Init => StepInv
<1> SUFFICES ASSUME Init PROVE StepInv
  OBVIOUS
<1>1. clean = {} /\ accepted = <<>> /\ Len(<<>>) = 0
  BY DEF Init
<1> QED BY <1>1 DEF StepInv

\* Silence puts the reader back in step, and it stays there.  Whatever bytes were lost or
\* late before, from a packet that the computer sends into silence on, and until the next
\* byte is lost or the next pause is too long, every packet is accepted once, in order, in
\* time and as it was sent, and none is missing when all is at rest (uart_task.c:160-179).
THEOREM BackInStep == Spec => []InStepAgain
<1>1. BytesInv /\ RecordInv /\ StepInv => InStepAgain
  <2> SUFFICES ASSUME BytesInv, RecordInv, StepInv, NEW c \in clean, Undisturbed(c)
               PROVE  \E a \in 0 .. Len(accepted) :
                        /\ Following(c, a)
                        /\ AtRest => c + Len(accepted) - a = Len(packets) + 1
    BY DEF InStepAgain
  <2>1. PICK a \in 0 .. Len(accepted) : Following(c, a) /\ Ahead(c + Len(accepted) - a)
    BY DEF StepInv
  <2>2. PICK n : n = c + Len(accepted) - a
    OBVIOUS
  <2>3. ASSUME AtRest PROVE n = Len(packets) + 1
    <3>1. Stream = <<>> /\ pc # "payload"
      BY <2>3 DEF AtRest, Stream
    <3>2. n \in 1 .. Len(packets) + 1 /\ From(<<>>, n, 1, packets)
      BY <2>1, <2>2, <3>1 DEF Ahead
    <3> QED BY <3>2, StreamTypes, NothingLeft
  <2> QED BY <2>1, <2>2, <2>3
<1> QED
  BY <1>1, InitInStep, Initially, Preserved, InitBytes, BytesStep, RecordStep, InStepPreserved,
     PTL DEF Spec

----------------------------------------------------------------------------
(* Reading *)

\* What is next to be read, or has been read of a packet: the header that is in the buffer
\* while the payload is waited for, what is in the FIFO and what is on the line.
Unread == IF pc = "payload" THEN SubSeq(rx_buffer, 1, HeaderSize) \o Stream ELSE Stream

\* Whatever is lost, these are bytes of packets in their order, and from any of them on the
\* rest of its packet is there unless a byte of that was lost.
Genuine(s, sent) ==
    \A x \in 1 .. Len(s) :
        /\ s[x].of \in 1 .. Len(sent) /\ s[x].at \in 1 .. BytesOf(sent, s[x].of)
        /\ s[x] = ByteOf(sent, s[x].of, s[x].at)
Ascending(s) == \A x, y \in 1 .. Len(s) : x < y => Before(s[x], s[y])
Whole(s, sent, gone) ==
    \A x \in 1 .. Len(s) :
        s[x].of \notin gone =>
            \A l \in s[x].at .. BytesOf(sent, s[x].of) :
                /\ x + l - s[x].at \in 1 .. Len(s)
                /\ s[x + l - s[x].at] = ByteOf(sent, s[x].of, l)
Reading(s, sent, gone) == Genuine(s, sent) /\ Ascending(s) /\ Whole(s, sent, gone)
ReadingInv == Reading(Unread, packets, disturbed)

\* No more bytes are missing than were lost.
MissingOf(s, sent) ==
    IF Len(s) = 0 THEN {}
    ELSE {b \in AllBytes(sent) : ~Before(b, s[1]) /\ \A x \in 1 .. Len(s) : s[x] # b}
FewMissing ==
    /\ IsFiniteSet(MissingOf(Unread, packets))
    /\ Cardinality(MissingOf(Unread, packets)) <= lost

\* What is accepted has been read: behind the first byte of its packet, at the least.
Passed(packet, b) == packet.of < b.of \/ (packet.of = b.of /\ b.at > 1)
PassedInv ==
    \A i \in 1 .. Len(accepted) : \A x \in 1 .. Len(Unread) : Passed(accepted[i], Unread[x])

\* Packets are accepted in the order in which they were sent, whatever is lost or late, and
\* one that begins where the reader took its header to be is after all that were accepted
\* before it: none is accepted twice (uart_task.c:160-179).
InOrder ==
    \A i, j \in 1 .. Len(accepted) : j < i =>
            /\ accepted[j].of <= accepted[i].of
            /\ accepted[i].inStep => accepted[j].of < accepted[i].of

\* When the reader is in step, what it accepts has the identifier and the size that the
\* computer sent.  If it came in time and no byte of it was lost it is what was sent, whatever
\* the checksum is; the checksum is needed for bytes that are lost and pauses in the middle of
\* a packet (uart_task.c:160-177).
IsRequest(packet) ==
    packet.inStep =>
        /\ packet.iden = packets[packet.of].iden
        /\ Len(packet.data) = Len(packets[packet.of].data)
        /\ packet.inTime /\ packet.of \notin disturbed => IsPacketSent(packet, packet.of)
RequestsAreGenuine == \A i \in 1 .. Len(accepted) : IsRequest(accepted[i])

\* The rest of a sequence behind its first q elements, and all of it but for the p-th.
Behind(rest, s, q) == Len(rest) = Len(s) - q /\ \A x \in 1 .. Len(rest) : rest[x] = s[x + q]
AllBut(rest, s, p) ==
    /\ Len(rest) = Len(s) - 1
    /\ \A x \in 1 .. Len(rest) : rest[x] = IF x < p THEN s[x] ELSE s[x + 1]

LEMMA BytePlace ==
    ASSUME NEW sent, NEW n, NEW k
    PROVE  ByteOf(sent, n, k).of = n /\ ByteOf(sent, n, k).at = k
BY DEF ByteOf

\* A byte of a packet that was sent.
IsSentByte(b, sent) ==
    /\ b.of \in 1 .. Len(sent) /\ b.of \in Nat
    /\ b.at \in 1 .. BytesOf(sent, b.of) /\ b.at \in Nat /\ BytesOf(sent, b.of) \in Nat
    /\ b = ByteOf(sent, b.of, b.at)

LEMMA GenuineBytes ==
    ASSUME NEW sent \in Seq(Kinds), NEW s \in Seq(LineTypes), Genuine(s, sent),
           NEW x \in 1 .. Len(s)
    PROVE  IsSentByte(s[x], sent)
<1>1. /\ s[x].of \in 1 .. Len(sent) /\ s[x].at \in 1 .. BytesOf(sent, s[x].of)
      /\ s[x] = ByteOf(sent, s[x].of, s[x].at)
  BY DEF Genuine
<1>2. s[x].of \in Nat /\ s[x].at \in Nat
  BY LineFacts
<1>3. BytesOf(sent, s[x].of) \in Nat
  BY <1>1, KindFacts
<1> QED BY <1>1, <1>2, <1>3 DEF IsSentByte

\* What is left when the first bytes are read is a reading.
LEMMA ReadOn ==
    ASSUME NEW sent \in Seq(Kinds), NEW s \in Seq(LineTypes), NEW gone, NEW more,
           Reading(s, sent, gone), gone \subseteq more,
           NEW q \in Nat, NEW rest \in Seq(LineTypes), Behind(rest, s, q)
    PROVE  Reading(rest, sent, more)
<1>1. PICK m \in Nat, n \in Nat : m = Len(s) /\ n = Len(rest) /\ n = m - q
  BY LenProperties DEF Behind
<1>2. ASSUME NEW x \in 1 .. n PROVE x + q \in 1 .. m /\ rest[x] = s[x + q]
  BY <1>1 DEF Behind
<1>3. Genuine(rest, sent)
  <2>1. ASSUME NEW x \in 1 .. n
        PROVE  /\ rest[x].of \in 1 .. Len(sent) /\ rest[x].at \in 1 .. BytesOf(sent, rest[x].of)
               /\ rest[x] = ByteOf(sent, rest[x].of, rest[x].at)
    <3>1. PICK y \in 1 .. m : rest[x] = s[y]
      BY <1>2
    <3> QED BY <1>1, <3>1 DEF Reading, Genuine
  <2> QED BY <1>1, <2>1 DEF Genuine
<1>4. Ascending(rest)
  <2>1. ASSUME NEW x \in 1 .. n, NEW y \in 1 .. n, x < y PROVE Before(rest[x], rest[y])
    <3>1. PICK v \in 1 .. m, w \in 1 .. m : v = x + q /\ w = y + q
      BY <1>2
    <3>2. v < w /\ rest[x] = s[v] /\ rest[y] = s[w]
      BY <1>2, <2>1, <3>1
    <3>3. Before(s[v], s[w])
      BY <1>1, <3>2 DEF Reading, Ascending
    <3> QED BY <3>2, <3>3
  <2> QED BY <1>1, <2>1 DEF Ascending
<1>5. Whole(rest, sent, more)
  <2>1. ASSUME NEW x \in 1 .. n, rest[x].of \notin more,
               NEW l \in rest[x].at .. BytesOf(sent, rest[x].of)
        PROVE  /\ x + l - rest[x].at \in 1 .. n
               /\ rest[x + l - rest[x].at] = ByteOf(sent, rest[x].of, l)
    <3>1. PICK v \in 1 .. m : v = x + q /\ rest[x] = s[v]
      BY <1>2
    <3>2. PICK a \in Nat, b \in Nat : a = s[v].at /\ b = BytesOf(sent, s[v].of)
      BY <1>1, <3>1, GenuineBytes DEF IsSentByte, Reading
    <3>3. l \in a .. b /\ s[v].of \notin gone
      BY <2>1, <3>1, <3>2
    <3>4. v + l - a \in 1 .. m /\ s[v + l - a] = ByteOf(sent, s[v].of, l)
      BY <1>1, <3>2, <3>3 DEF Reading, Whole
    <3>5. PICK z \in 1 .. n : z = x + l - a /\ z + q = v + l - a
      <4>1. x + l - a \in 1 .. n /\ x + l - a + q = v + l - a
        BY <1>1, <3>1, <3>3, <3>4
      <4> QED BY <4>1
    <3>6. rest[z] = s[z + q]
      BY <1>2
    <3> QED BY <3>1, <3>2, <3>4, <3>5, <3>6
  <2> QED BY <1>1, <2>1 DEF Whole
<1> QED BY <1>3, <1>4, <1>5 DEF Reading

\* When a byte is lost, what is left is a reading: its packet is not whole any more.
LEMMA LoseOne ==
    ASSUME NEW sent \in Seq(Kinds), NEW s \in Seq(LineTypes), NEW gone,
           Reading(s, sent, gone), NEW p \in 1 .. Len(s),
           NEW rest \in Seq(LineTypes), AllBut(rest, s, p)
    PROVE  Reading(rest, sent, gone \union {s[p].of})
<1>1. PICK m \in Nat, n \in Nat : m = Len(s) /\ n = Len(rest) /\ n = m - 1
  BY LenProperties DEF AllBut
<1> DEFINE Old(x) == IF x < p THEN x ELSE x + 1
<1>2. ASSUME NEW x \in 1 .. n PROVE Old(x) \in 1 .. m /\ Old(x) # p /\ rest[x] = s[Old(x)]
  <2>1. Old(x) \in 1 .. m /\ Old(x) # p
    BY <1>1
  <2> QED BY <1>1, <2>1 DEF AllBut
<1>3. \A x, y \in 1 .. n : x < y => Old(x) < Old(y)
  BY <1>1
<1>4. Genuine(rest, sent)
  <2>1. ASSUME NEW x \in 1 .. n
        PROVE  /\ rest[x].of \in 1 .. Len(sent) /\ rest[x].at \in 1 .. BytesOf(sent, rest[x].of)
               /\ rest[x] = ByteOf(sent, rest[x].of, rest[x].at)
    <3>1. PICK y \in 1 .. m : rest[x] = s[y]
      BY <1>2
    <3> QED BY <1>1, <3>1 DEF Reading, Genuine
  <2> QED BY <1>1, <2>1 DEF Genuine
<1>5. Ascending(rest)
  <2>1. ASSUME NEW x \in 1 .. n, NEW y \in 1 .. n, x < y PROVE Before(rest[x], rest[y])
    <3>1. PICK v \in 1 .. m, w \in 1 .. m : v = Old(x) /\ w = Old(y)
      BY <1>2
    <3>2. v < w /\ rest[x] = s[v] /\ rest[y] = s[w]
      BY <1>2, <1>3, <2>1, <3>1
    <3>3. Before(s[v], s[w])
      BY <1>1, <3>2 DEF Reading, Ascending
    <3> QED BY <3>2, <3>3
  <2> QED BY <1>1, <2>1 DEF Ascending
<1>6. Whole(rest, sent, gone \union {s[p].of})
  <2>1. ASSUME NEW x \in 1 .. n, rest[x].of \notin gone \union {s[p].of},
               NEW l \in rest[x].at .. BytesOf(sent, rest[x].of)
        PROVE  /\ x + l - rest[x].at \in 1 .. n
               /\ rest[x + l - rest[x].at] = ByteOf(sent, rest[x].of, l)
    <3>1. PICK v \in 1 .. m : v = Old(x) /\ rest[x] = s[v] /\ v # p
      BY <1>2
    <3>2. PICK a \in Nat, b \in Nat : a = s[v].at /\ b = BytesOf(sent, s[v].of)
      BY <1>1, <3>1, GenuineBytes DEF IsSentByte, Reading
    <3>3. l \in a .. b /\ s[v].of \notin gone /\ s[v].of # s[p].of
      BY <2>1, <3>1, <3>2
    <3>4. \A k \in a .. b : v + k - a \in 1 .. m /\ s[v + k - a] = ByteOf(sent, s[v].of, k)
      BY <1>1, <3>2, <3>3 DEF Reading, Whole
\* No byte of this packet is the one that is lost.
    <3>5. ASSUME NEW k \in a .. b PROVE v + k - a # p
      <4>1. s[v + k - a] = ByteOf(sent, s[v].of, k)
        BY <3>4
      <4>2. s[v + k - a].of = s[v].of
        BY <4>1, BytePlace
      <4> QED BY <3>3, <4>2
    <3>6. v < p => v + l - a < p
      <4> SUFFICES ASSUME v < p, v + l - a > p PROVE FALSE
        BY <1>1, <3>3, <3>5
      <4>1. PICK k \in a .. b : v + k - a = p
        <5>1. p - v + a \in a .. b /\ v + (p - v + a) - a = p
          BY <3>3
        <5> QED BY <5>1
      <4> QED BY <3>5, <4>1
    <3>7. PICK z \in 1 .. n : z = x + l - a /\ Old(z) = v + l - a
      <4>1. v + l - a \in 1 .. m /\ l >= a
        BY <3>3, <3>4
      <4>2. (x < p => v = x) /\ (~(x < p) => v = x + 1)
        BY <3>1
      <4>3. x + l - a \in 1 .. n /\ Old(x + l - a) = v + l - a
        BY <1>1, <3>3, <3>6, <4>1, <4>2
      <4> QED BY <4>3
    <3>8. rest[z] = s[v + l - a]
      BY <1>2, <3>7
    <3> QED BY <3>1, <3>2, <3>3, <3>4, <3>7, <3>8
  <2> QED BY <1>1, <2>1 DEF Whole
<1> QED BY <1>4, <1>5, <1>6 DEF Reading

\* A packet more: the bytes of the others stay, and those of it are on the line.
OneMore(sent, t, number, more, d) ==
    /\ number \in Nat /\ number = Len(sent) + 1
    /\ t \in Seq(Kinds) /\ Len(t) = number
    /\ BytesOf(t, number) = d + 6
    /\ \A m \in 1 .. number - 1 : /\ BytesOf(t, m) = BytesOf(sent, m)
                                  /\ \A l : ByteOf(t, m, l) = ByteOf(sent, m, l)
    /\ more \in Seq(LineTypes) /\ Len(more) = d + 6
    /\ \A x \in 1 .. d + 6 : /\ more[x] = ByteOf(t, number, x)
                             /\ more[x].of = number /\ more[x].at = x

LEMMA PacketMore ==
    ASSUME NEW sent \in Seq(Kinds), NEW kind \in Kinds
    PROVE  \E d \in Nat :
             OneMore(sent, Append(sent, kind), Len(sent) + 1, Line(kind, Len(sent) + 1), d)
<1>1. PICK t, more : t = Append(sent, kind) /\ more = Line(kind, Len(sent) + 1)
  OBVIOUS
<1>2. PICK number \in Nat : number = Len(sent) + 1
  OBVIOUS
<1>3. /\ t \in Seq(Kinds) /\ Len(t) = number /\ t[number] = kind
      /\ \A x \in 1 .. number - 1 : t[x] = sent[x]
  BY <1>1, <1>2, AppendProperties
<1>4. PICK d \in Nat : d = Len(kind.data) /\ Len(Encoded(kind)) = d + 6
  <2>1. PICK d \in Nat : EncodedAs(kind, d)
    BY EncodedFacts
  <2>2. d = Len(kind.data) /\ Len(Encoded(kind)) = d + 6
    BY <2>1 DEF EncodedAs
  <2> QED BY <2>2
<1>5. BytesOf(t, number) = d + 6 /\ \A m \in 1 .. number - 1 : BytesOf(t, m) = BytesOf(sent, m)
  BY <1>3, <1>4 DEF BytesOf
<1>6. /\ \A l : ByteOf(t, number, l) = [of |-> number, at |-> l, value |-> Encoded(kind)[l]]
      /\ \A m \in 1 .. number - 1 : \A l : ByteOf(t, m, l) = ByteOf(sent, m, l)
  BY <1>3 DEF ByteOf
<1>7. /\ more \in Seq(LineTypes) /\ Len(more) = d + 6
      /\ \A x \in 1 .. d + 6 : /\ more[x] = ByteOf(t, number, x)
                               /\ more[x].of = number /\ more[x].at = x
  <2>1. more = [x \in 1 .. d + 6 |-> [of |-> number, at |-> x, value |-> Encoded(kind)[x]]]
    BY <1>1, <1>2, <1>4 DEF Line
  <2>2. more \in Seq(LineTypes) /\ Len(more) = d + 6
    BY <1>1, <1>2, <1>4, LineOfPacket
  <2> QED BY <1>6, <2>1, <2>2
<1>8. OneMore(sent, t, number, more, d)
  BY <1>2, <1>3, <1>5, <1>6, <1>7 DEF OneMore
<1> QED BY <1>1, <1>2, <1>8

\* The elements of two sequences, one behind the other.
Joined(u, s, more) ==
    /\ u \in Seq(LineTypes) /\ Len(u) = Len(s) + Len(more)
    /\ \A x \in 1 .. Len(s) : u[x] = s[x]
    /\ \A x \in 1 .. Len(more) : u[x + Len(s)] = more[x]

LEMMA JoinedCells ==
    ASSUME NEW s \in Seq(LineTypes), NEW more \in Seq(LineTypes)
    PROVE  Joined(s \o more, s, more)
<1>1. PICK u : u = s \o more
  OBVIOUS
<1>2. PICK m \in Nat, n \in Nat : m = Len(s) /\ n = Len(more)
  BY LenProperties
<1>3. /\ u \in Seq(LineTypes) /\ Len(u) = m + n
      /\ \A x \in 1 .. m + n : u[x] = IF x <= m THEN s[x] ELSE more[x - m]
  <2>1. /\ s \o more \in Seq(LineTypes) /\ Len(s \o more) = Len(s) + Len(more)
        /\ \A x \in 1 .. Len(s) + Len(more) :
              (s \o more)[x] = IF x <= Len(s) THEN s[x] ELSE more[x - Len(s)]
    BY ConcatProperties
  <2> QED BY <1>1, <1>2, <2>1
<1>4. ASSUME NEW x \in 1 .. m PROVE u[x] = s[x]
  BY <1>3
<1>5. ASSUME NEW x \in 1 .. n PROVE u[x + m] = more[x]
  <2>1. x + m \in 1 .. m + n /\ ~(x + m <= m) /\ x + m - m = x
    OBVIOUS
  <2> QED BY <1>3, <2>1
<1> QED BY <1>1, <1>2, <1>3, <1>4, <1>5 DEF Joined

\* What the computer sends makes the reading longer.
LEMMA SendOn ==
    ASSUME NEW sent \in Seq(Kinds), NEW s \in Seq(LineTypes), NEW gone,
           Reading(s, sent, gone), NEW t, NEW number, NEW more, NEW d \in Nat,
           OneMore(sent, t, number, more, d), NEW u, Joined(u, s, more)
    PROVE  Reading(u, t, gone)
<1>1. PICK m \in Nat : m = Len(s)
  BY LenProperties
<1>2. /\ number \in Nat /\ number = Len(sent) + 1 /\ Len(t) = number
      /\ BytesOf(t, number) = d + 6 /\ Len(more) = d + 6 /\ t \in Seq(Kinds)
      /\ u \in Seq(LineTypes) /\ Len(u) = m + (d + 6)
  BY <1>1 DEF OneMore, Joined
\* Bytes that were there, and those of the new packet.
<1>3. ASSUME NEW x \in 1 .. m
      PROVE  /\ u[x] = s[x] /\ x \in 1 .. Len(u)
             /\ u[x].of \in 1 .. number - 1 /\ IsSentByte(u[x], t)
             /\ BytesOf(t, u[x].of) = BytesOf(sent, u[x].of)
             /\ \A l : ByteOf(t, u[x].of, l) = ByteOf(sent, u[x].of, l)
  <2>1. u[x] = s[x] /\ IsSentByte(s[x], sent)
    BY <1>1, GenuineBytes DEF Joined, Reading
  <2>2. s[x].of \in 1 .. number - 1 /\ s[x].of \in 1 .. number
    BY <1>2, <2>1 DEF IsSentByte
  <2>3. BytesOf(t, s[x].of) = BytesOf(sent, s[x].of)
        /\ \A l : ByteOf(t, s[x].of, l) = ByteOf(sent, s[x].of, l)
    BY <2>2 DEF OneMore
  <2>4. x \in 1 .. Len(u)
    BY <1>2
  <2> QED BY <1>2, <2>1, <2>2, <2>3, <2>4 DEF IsSentByte
<1>4. ASSUME NEW y \in 1 .. d + 6
      PROVE  /\ u[y + m] = ByteOf(t, number, y) /\ y + m \in 1 .. Len(u)
             /\ u[y + m].of = number /\ u[y + m].at = y /\ IsSentByte(u[y + m], t)
  <2>1. u[y + m] = more[y]
    BY <1>1, <1>2 DEF Joined
  <2>2. u[y + m] = ByteOf(t, number, y) /\ u[y + m].of = number /\ u[y + m].at = y
    BY <2>1 DEF OneMore
  <2>3. number \in 1 .. number /\ y \in Nat /\ y + m \in 1 .. Len(u) /\ d + 6 \in Nat
    BY <1>2
  <2> QED BY <1>2, <2>2, <2>3 DEF IsSentByte
<1>5. ASSUME NEW x \in 1 .. Len(u)
      PROVE  x \in 1 .. m \/ \E y \in 1 .. d + 6 : x = y + m
  <2>1. CASE x <= m
    BY <2>1
  <2>2. CASE ~(x <= m)
    <3>1. x - m \in 1 .. d + 6 /\ x = x - m + m
      BY <1>2, <2>2
    <3> QED BY <3>1
  <2> QED BY <2>1, <2>2
<1>6. Genuine(u, t)
  <2>1. \A x \in 1 .. Len(u) : IsSentByte(u[x], t)
    BY <1>3, <1>4, <1>5
  <2> QED BY <2>1 DEF Genuine, IsSentByte
<1>7. Ascending(u)
  <2>1. ASSUME NEW x \in 1 .. Len(u), NEW y \in 1 .. Len(u), x < y PROVE Before(u[x], u[y])
    <3>1. CASE y \in 1 .. m
      <4>1. x \in 1 .. m
        BY <2>1, <3>1
      <4>2. Before(s[x], s[y])
        BY <1>1, <2>1, <3>1, <4>1 DEF Reading, Ascending
      <4> QED BY <1>3, <3>1, <4>1, <4>2
    <3>2. CASE x \in 1 .. m /\ y \notin 1 .. m
      <4>1. u[y].of = number
        <5>1. PICK w \in 1 .. d + 6 : y = w + m
          BY <1>5, <3>2
        <5> QED BY <1>4, <5>1
      <4>2. u[x].of \in 1 .. number - 1
        BY <1>3, <3>2
      <4> QED BY <1>2, <4>1, <4>2 DEF Before
    <3>3. CASE x \notin 1 .. m /\ y \notin 1 .. m
      <4>1. PICK v \in 1 .. d + 6, w \in 1 .. d + 6 : x = v + m /\ y = w + m
        BY <1>5, <3>3
      <4>2. v < w
        BY <2>1, <4>1
      <4> QED BY <1>4, <4>1, <4>2 DEF Before
    <3> QED BY <2>1, <3>1, <3>2, <3>3
  <2> QED BY <2>1 DEF Ascending
<1>8. Whole(u, t, gone)
  <2>1. ASSUME NEW x \in 1 .. m, u[x].of \notin gone, NEW l \in u[x].at .. BytesOf(t, u[x].of)
        PROVE  /\ x + l - u[x].at \in 1 .. Len(u)
               /\ u[x + l - u[x].at] = ByteOf(t, u[x].of, l)
    <3>1. PICK a \in Nat, b \in Nat : a = s[x].at /\ b = BytesOf(sent, s[x].of) /\ l \in a .. b
      BY <1>1, <1>3, <2>1, GenuineBytes DEF IsSentByte, Reading
    <3>2. x + l - a \in 1 .. m /\ s[x + l - a] = ByteOf(sent, s[x].of, l)
      BY <1>1, <1>3, <2>1, <3>1 DEF Reading, Whole
    <3> QED BY <1>3, <3>1, <3>2
  <2>2. ASSUME NEW y \in 1 .. d + 6, NEW l \in y .. d + 6
        PROVE  y + m + l - y \in 1 .. Len(u) /\ u[y + m + l - y] = ByteOf(t, number, l)
    <3>1. l \in 1 .. d + 6 /\ y + m + l - y = l + m
      OBVIOUS
    <3> QED BY <1>4, <3>1
  <2>3. ASSUME NEW x \in 1 .. Len(u), u[x].of \notin gone,
               NEW l \in u[x].at .. BytesOf(t, u[x].of)
        PROVE  /\ x + l - u[x].at \in 1 .. Len(u)
               /\ u[x + l - u[x].at] = ByteOf(t, u[x].of, l)
    <3>1. CASE x \in 1 .. m
      BY <2>1, <2>3, <3>1
    <3>2. CASE x \notin 1 .. m
      <4>1. PICK y \in 1 .. d + 6 : x = y + m
        BY <1>5, <3>2
      <4>2. u[x].of = number /\ u[x].at = y /\ l \in y .. d + 6
        BY <1>2, <1>4, <2>3, <4>1
      <4> QED BY <2>2, <4>1, <4>2
    <3> QED BY <3>1, <3>2
  <2> QED BY <2>3 DEF Whole
<1> QED BY <1>6, <1>7, <1>8 DEF Reading

----------------------------------------------------------------------------
(* Steps *)

\* The bytes of Unread.
UnreadCells ==
    /\ Stream \in Seq(LineTypes) /\ Len(Stream) = Len(fifo) + Len(line)
    /\ fifo \in Seq(LineTypes) /\ line \in Seq(LineTypes)
    /\ \A x \in 1 .. Len(fifo) : Stream[x] = fifo[x]
    /\ \A x \in 1 .. Len(line) : Stream[x + Len(fifo)] = line[x]
    /\ Unread \in Seq(LineTypes)
    /\ pc # "payload" => Unread = Stream
    /\ pc = "payload" =>
        /\ Len(Unread) = 5 + Len(Stream)
        /\ \A x \in 1 .. 5 : Unread[x] = rx_buffer[x]
        /\ \A x \in 1 .. Len(Stream) : Unread[x + 5] = Stream[x]

LEMMA UnreadTypes == BytesInv /\ HeaderRead => UnreadCells
<1> SUFFICES ASSUME BytesInv, HeaderRead PROVE UnreadCells
  OBVIOUS
<1>1. /\ Stream \in Seq(LineTypes) /\ rx_buffer \in Seq(LineTypes)
      /\ fifo \in Seq(LineTypes) /\ line \in Seq(LineTypes) /\ Len(Stream) = Len(fifo) + Len(line)
      /\ \A x \in 1 .. Len(fifo) : Stream[x] = fifo[x]
      /\ \A x \in 1 .. Len(line) : Stream[x + Len(fifo)] = line[x]
  BY StreamTypes
<1>2. CASE pc # "payload"
  BY <1>1, <1>2 DEF Unread, UnreadCells
<1>3. CASE pc = "payload"
  <2>1. PICK held \in Nat : held = Len(rx_buffer) /\ 5 <= held
    BY <1>1, <1>3, LenProperties DEF HeaderRead, HeaderSize
  <2>2. PICK head : head = SubSeq(rx_buffer, 1, 5)
    OBVIOUS
  <2>3. /\ head \in Seq(LineTypes) /\ Len(head) = 5
        /\ \A x \in 1 .. 5 : head[x] = rx_buffer[x]
    <3>1. \A x \in 1 .. 5 : rx_buffer[x] \in LineTypes
      BY <1>1, <2>1, ElementOfSeq
    <3>2. 1 \in Nat /\ 5 \in Nat /\ 5 - 1 + 1 = 5 /\ \A x \in 1 .. 5 : 1 + x - 1 = x
      OBVIOUS
    <3> QED BY <1>1, <2>2, <3>1, <3>2, SubSeqProperties
  <2>4. Joined(head \o Stream, head, Stream)
    BY <1>1, <2>3, JoinedCells
  <2>5. Unread = head \o Stream
    BY <1>3, <2>2 DEF Unread, HeaderSize
  <2> QED BY <1>1, <1>3, <2>3, <2>4, <2>5 DEF Joined, UnreadCells
<1> QED BY <1>2, <1>3

LEMMA UnreadNext == (BytesInv /\ HeaderRead)' => UnreadCells'
BY UnreadTypes, PTL

\* What the steps do to what is to be read: a packet is added, the first bytes are read,
\* or one is lost.
Grows(old, new) ==
    \E kind \in Kinds :
        /\ packets' = Append(packets, kind) /\ disturbed' = disturbed
        /\ Joined(new, old, Line(kind, Len(packets) + 1))
Shrinks(old, new) ==
    /\ packets' = packets /\ disturbed \subseteq disturbed'
    /\ \E q \in Nat : Behind(new, old, q)
Loses(old, new) ==
    /\ packets' = packets
    /\ \E p \in 1 .. Len(old) : AllBut(new, old, p) /\ disturbed' = disturbed \union {old[p].of}

\* Nothing is read.
LEMMA SameStream ==
    ASSUME BytesInv, HeaderRead, Stream' = Stream, UNCHANGED <<rx_buffer, packets, disturbed>>,
           pc = "payload" <=> pc' = "payload"
    PROVE  Shrinks(Unread, Unread')
<1>1. Unread' = Unread
  BY DEF Unread
<1>2. PICK m \in Nat : m = Len(Unread)
  BY UnreadTypes, LenProperties DEF UnreadCells
<1>3. 0 \in Nat /\ m - 0 = m /\ \A x \in 1 .. m : x + 0 = x
  OBVIOUS
<1>4. Behind(Unread, Unread, 0)
  BY <1>2, <1>3 DEF Behind
<1> QED BY <1>1, <1>3, <1>4 DEF Shrinks

LEMMA SendGrows ==
    ASSUME BytesInv, HeaderRead, BytesInv', HeaderRead', NEW kind \in Kinds, ComputerSends(kind)
    PROVE  Grows(Unread, Unread')
<1>1. PICK size \in Nat : size = Len(packets)
  BY StreamTypes
<1>2. PICK more : more = Line(kind, size + 1)
  OBVIOUS
<1>3. /\ packets' = Append(packets, kind) /\ line' = line \o more
      /\ UNCHANGED <<fifo, rx_buffer, pc, disturbed>>
  BY <1>1, <1>2 DEF ComputerSends, readVars, Line
<1>4. /\ more \in Seq(LineTypes) /\ UnreadCells
      /\ fifo \in Seq(LineTypes) /\ line \in Seq(LineTypes) /\ Stream \in Seq(LineTypes)
  BY <1>2, UnreadTypes, LineOfPacket DEF UnreadCells
<1>5. Stream' = Stream \o more
  <2>1. fifo \o (line \o more) = (fifo \o line) \o more
    BY <1>4, AddedBehind
  <2> QED BY <1>3, <2>1 DEF Stream
<1>6. Unread' = Unread \o more
  <2>1. CASE pc # "payload"
    BY <1>3, <1>5, <2>1 DEF Unread
  <2>2. CASE pc = "payload"
    <3>1. PICK head : head = SubSeq(rx_buffer, 1, HeaderSize)
      OBVIOUS
    <3>2. head \in Seq(LineTypes)
      <4>1. PICK held \in Nat : held = Len(rx_buffer) /\ 5 <= held
        BY <2>2, StreamTypes, LenProperties DEF HeaderRead, HeaderSize
      <4>2. 5 \in 0 .. Len(rx_buffer) /\ 1 \in Nat \ {0} /\ rx_buffer \in Seq(LineTypes)
        BY <4>1, StreamTypes
      <4> QED BY <3>1, <4>2, PartOfSequence DEF HeaderSize
    <3>3. head \o (Stream \o more) = (head \o Stream) \o more
      BY <1>4, <3>2, AddedBehind
    <3>4. Unread = head \o Stream /\ Unread' = head \o Stream'
      BY <1>3, <2>2, <3>1 DEF Unread
    <3> QED BY <1>5, <3>3, <3>4
  <2> QED BY <2>1, <2>2
<1>7. Joined(Unread \o more, Unread, more)
  BY <1>4, JoinedCells DEF UnreadCells
<1> QED BY <1>1, <1>2, <1>3, <1>6, <1>7 DEF Grows

LEMMA LostLoses ==
    ASSUME BytesInv, HeaderRead, BytesInv', HeaderRead', ByteLost
    PROVE  Loses(Unread, Unread')
<1>1. /\ line # <<>> /\ line' = Tail(line) /\ disturbed' = disturbed \union {Head(line).of}
      /\ UNCHANGED <<packets, fifo, rx_buffer, pc>>
  BY DEF ByteLost, readVars
<1>2. UnreadCells /\ UnreadCells'
  BY UnreadTypes, UnreadNext
<1>3. PICK f \in Nat, l \in Nat : f = Len(fifo) /\ l = Len(line) /\ l >= 1
  BY <1>1, <1>2, LenProperties DEF UnreadCells
<1>4. Len(line') = l - 1 /\ Head(line) = line[1] /\ \A x \in 1 .. l - 1 : line'[x] = line[x + 1]
  <2>1. line \in Seq(LineTypes)
    BY <1>2 DEF UnreadCells
  <2> QED BY <1>1, <1>3, <2>1, HeadTailProperties
<1>5. PICK p \in Nat : p = f + 1
  OBVIOUS
<1>6. /\ p \in 1 .. f + l /\ Len(Stream) = f + l /\ Len(Stream') = f + l - 1
      /\ Stream[p] = Head(line)
  <2>1. Len(Stream) = f + l /\ Len(Stream') = f + (l - 1)
    BY <1>1, <1>2, <1>3, <1>4 DEF UnreadCells
  <2>2. 1 \in 1 .. l /\ 1 + f = p
    BY <1>3, <1>5
  <2>3. Stream[1 + f] = line[1]
    BY <1>2, <1>3, <2>2 DEF UnreadCells
  <2> QED BY <1>3, <1>4, <1>5, <2>1, <2>2, <2>3
<1>7. ASSUME NEW x \in 1 .. f + l - 1
      PROVE  Stream'[x] = IF x < p THEN Stream[x] ELSE Stream[x + 1]
  <2>1. CASE x < p
    <3>1. x \in 1 .. f
      BY <1>5, <2>1
    <3>2. Stream'[x] = fifo[x] /\ Stream[x] = fifo[x]
      BY <1>1, <1>2, <1>3, <3>1 DEF UnreadCells
    <3> QED BY <2>1, <3>2
  <2>2. CASE ~(x < p)
    <3>1. PICK y \in 1 .. l - 1 : y + f = x
      <4>1. x - f \in 1 .. l - 1 /\ x - f + f = x
        BY <1>5, <2>2
      <4> QED BY <4>1
    <3>2. y + 1 \in 1 .. l /\ y + 1 + f = x + 1
      BY <3>1
    <3>3. Stream'[y + f] = line'[y]
      BY <1>1, <1>2, <1>3, <1>4, <3>1 DEF UnreadCells
    <3>4. Stream[y + 1 + f] = line[y + 1]
      BY <1>2, <1>3, <3>2 DEF UnreadCells
    <3> QED BY <1>4, <2>2, <3>1, <3>2, <3>3, <3>4
  <2> QED BY <2>1, <2>2
<1>8. CASE pc # "payload"
  <2>1. Unread = Stream /\ Unread' = Stream'
    BY <1>1, <1>2, <1>8 DEF UnreadCells
  <2>2. AllBut(Unread', Unread, p)
    BY <1>6, <1>7, <2>1 DEF AllBut
  <2> QED BY <1>1, <1>6, <2>1, <2>2 DEF Loses
<1>9. CASE pc = "payload"
  <2>1. /\ Len(Unread) = 5 + (f + l) /\ Len(Unread') = 5 + (f + l - 1)
        /\ \A x \in 1 .. 5 : Unread[x] = rx_buffer[x] /\ Unread'[x] = rx_buffer[x]
        /\ \A x \in 1 .. f + l : Unread[x + 5] = Stream[x]
        /\ \A x \in 1 .. f + l - 1 : Unread'[x + 5] = Stream'[x]
    BY <1>1, <1>2, <1>6, <1>9 DEF UnreadCells
  <2>2. ASSUME NEW x \in 1 .. 5 + (f + l - 1)
        PROVE  Unread'[x] = IF x < p + 5 THEN Unread[x] ELSE Unread[x + 1]
    <3>1. CASE x <= 5
      <4>1. x \in 1 .. 5 /\ x < p + 5
        BY <1>5, <3>1
      <4> QED BY <2>1, <4>1
    <3>2. CASE ~(x <= 5)
      <4>1. PICK y \in 1 .. f + l - 1 : y + 5 = x
        <5>1. x - 5 \in 1 .. f + l - 1 /\ x - 5 + 5 = x
          BY <3>2
        <5> QED BY <5>1
      <4>2. Unread'[x] = IF y < p THEN Stream[y] ELSE Stream[y + 1]
        BY <1>7, <2>1, <4>1
      <4>3. y \in 1 .. f + l /\ y + 1 \in 1 .. f + l /\ y + 1 + 5 = x + 1 /\ (y < p <=> x < p + 5)
        BY <4>1
      <4>4. Stream[y] = Unread[x] /\ Stream[y + 1] = Unread[x + 1]
        BY <2>1, <4>1, <4>3
      <4> QED BY <4>2, <4>3, <4>4
    <3> QED BY <3>1, <3>2
  <2>3. AllBut(Unread', Unread, p + 5)
    <3>1. 5 + (f + l - 1) = 5 + (f + l) - 1
      BY <1>3
    <3> QED BY <2>1, <2>2, <3>1 DEF AllBut
  <2>4. p + 5 \in 1 .. Len(Unread) /\ Unread[p + 5] = Head(line)
    <3>1. p + 5 \in 1 .. 5 + (f + l)
      BY <1>6
    <3>2. Unread[p + 5] = Stream[p]
      BY <1>6, <2>1
    <3> QED BY <1>6, <2>1, <3>1, <3>2
  <2> QED BY <1>1, <2>3, <2>4 DEF Loses
<1> QED BY <1>8, <1>9

LEMMA ReadHeaderShrinks ==
    ASSUME BytesInv, HeaderRead, BytesInv', HeaderRead', ReadHeader
    PROVE  Shrinks(Unread, Unread')
<1>1. /\ pc = "header" /\ pc' = "payload" /\ packets' = packets /\ disturbed' = disturbed
      /\ fifo' = LeftBy(5) /\ line' = line /\ 5 <= Len(fifo)
      /\ rx_buffer' = Overwrite(0, Taken(5))
  BY StreamTypes, LenProperties DEF ReadHeader, HeaderSize
<1>2. /\ 5 <= Len(Stream) /\ Len(Stream') = Len(Stream) - 5
      /\ \A x \in 1 .. Len(Stream') : Stream'[x] = Stream[x + 5]
      /\ Taken(5) \in Seq(LineTypes) /\ Len(Taken(5)) = 5
      /\ \A x \in 1 .. 5 : Taken(5)[x] = Stream[x]
  BY <1>1, ReadStream
<1>3. UnreadCells /\ UnreadCells'
  BY UnreadTypes, UnreadNext
<1>4. PICK m \in Nat : m = Len(Stream) /\ 5 <= m
  BY <1>2, <1>3, LenProperties DEF UnreadCells
<1>5. /\ Unread = Stream /\ Len(Unread') = 5 + (m - 5)
      /\ \A x \in 1 .. 5 : Unread'[x] = rx_buffer'[x]
      /\ \A x \in 1 .. m - 5 : Unread'[x + 5] = Stream'[x]
  BY <1>1, <1>2, <1>3, <1>4 DEF UnreadCells
<1>6. \A x \in 1 .. 5 : rx_buffer'[x] = Stream[x]
  <2>1. 0 <= Len(rx_buffer) /\ 5 \in Nat /\ 0 \in Nat
    BY StreamTypes, LenProperties
  <2>2. \A x \in 1 .. 5 : rx_buffer'[x + 0] = Taken(5)[x]
    <3>1. Overwritten(Overwrite(0, Taken(5)), 0, Taken(5))
      BY <1>2, <2>1, OverwriteCells
    <3> QED BY <1>1, <1>2, <3>1 DEF Overwritten
  <2>3. ASSUME NEW k \in 1 .. 5 PROVE k + 0 = k
    OBVIOUS
  <2> QED BY <1>2, <2>2, <2>3
<1>7. ASSUME NEW x \in 1 .. m PROVE Unread'[x] = Unread[x + 0]
  <2>1. CASE x <= 5
    <3>1. x \in 1 .. 5 /\ x + 0 = x
      BY <2>1
    <3> QED BY <1>5, <1>6, <3>1
  <2>2. CASE ~(x <= 5)
    <3>1. PICK y \in 1 .. m - 5 : y + 5 = x /\ x + 0 = x
      <4>1. x - 5 \in 1 .. m - 5 /\ x - 5 + 5 = x /\ x + 0 = x
        BY <2>2
      <4> QED BY <4>1
    <3> QED BY <1>2, <1>4, <1>5, <3>1
  <2> QED BY <2>1, <2>2
<1>8. 5 + (m - 5) = m /\ m - 0 = m /\ 0 \in Nat
  BY <1>4
<1>9. Behind(Unread', Unread, 0)
  BY <1>4, <1>5, <1>7, <1>8 DEF Behind
<1> QED BY <1>1, <1>8, <1>9 DEF Shrinks

LEMMA HeaderTimeoutShrinks ==
    ASSUME BytesInv, HeaderRead, BytesInv', HeaderRead', HeaderTimeout
    PROVE  Shrinks(Unread, Unread') /\ Behind(Unread', Unread, Len(fifo))
<1>1. /\ pc = "header" /\ pc' = "header" /\ packets' = packets /\ disturbed \subseteq disturbed'
      /\ fifo' = <<>> /\ line' = line
  BY DEF HeaderTimeout
<1>2. UnreadCells /\ UnreadCells'
  BY UnreadTypes, UnreadNext
<1>3. PICK f \in Nat, l \in Nat : f = Len(fifo) /\ l = Len(line)
  BY <1>2, LenProperties DEF UnreadCells
<1>4. Len(fifo') = 0 /\ Len(line') = l
  BY <1>1, <1>3
<1>5. /\ Unread = Stream /\ Unread' = Stream'
      /\ Len(Stream) = f + l /\ Len(Stream') = 0 + l
      /\ \A x \in 1 .. l : Stream[x + f] = line[x] /\ Stream'[x + 0] = line[x]
  BY <1>1, <1>2, <1>3, <1>4 DEF UnreadCells
<1>6. 0 + l = f + l - f /\ \A x \in 1 .. 0 + l : x \in 1 .. l /\ x + 0 = x
  OBVIOUS
<1>7. Behind(Unread', Unread, f)
  BY <1>5, <1>6 DEF Behind
<1> QED BY <1>1, <1>3, <1>7 DEF Shrinks

\* The first q bytes of a buffer are what is next to be read, and the others stay.
Filled(buffer, q) ==
    \A k \in 1 .. Len(buffer) :
        \/ k <= q /\ buffer[k] = Unread[k]
        \/ k > q /\ k \in 1 .. Len(rx_buffer) /\ buffer[k] = rx_buffer[k]

\* A check looks at what is next to be read, as far as it has come: if in time, all of it.
RecordOf(buffer, inTime) ==
    [iden |-> Iden(buffer), data |-> Data(buffer), of |-> buffer[HeaderSize].of,
     inTime |-> inTime, inStep |-> InStep(buffer)]
Checked(buffer, n, inTime) ==
    /\ buffer \in Seq(LineTypes) /\ buffer \in Seq(SentBytes) /\ Len(buffer) >= n + 5
    /\ n + 5 <= Len(Unread) /\ Behind(Unread', Unread, n + 5)
    /\ \A x \in 1 .. n + 5 : buffer[x] = Unread[x]
    /\ pc = "payload" /\ pc' # "payload" /\ rx_buffer' = buffer /\ Filled(buffer, n + 5)
    /\ n <= Size(buffer) + 1 /\ (inTime => n = Size(buffer) + 1)
    /\ \/ accepted' = accepted
       \/ ChecksumFits(buffer) /\ accepted' = Append(accepted, RecordOf(buffer, inTime))

LEMMA CheckShrinks ==
    ASSUME BytesInv, HeaderRead, BytesInv', HeaderRead', pc = "payload", NEW inTime \in BOOLEAN,
           Check(Size(rx_buffer) + 1, inTime), inTime <=> Len(fifo) > Size(rx_buffer)
    PROVE  \E buffer : \E n \in Nat : Checked(buffer, n, inTime)
<1>1. PICK wanted : wanted = Size(rx_buffer) + 1
  OBVIOUS
<1>2. PICK buffer : buffer = Overwrite(HeaderSize, Taken(wanted))
  OBVIOUS
<1>3. /\ fifo' = LeftBy(wanted) /\ line' = line /\ packets' = packets
      /\ rx_buffer' = buffer /\ pc' # "payload"
      /\ \/ accepted' = accepted /\ pc' = "header"
         \/ /\ pc' = "head" /\ ChecksumFits(buffer)
            /\ accepted' = Append(accepted, RecordOf(buffer, inTime))
  BY <1>1, <1>2 DEF Check, RecordOf
<1>4. /\ UnreadCells /\ UnreadCells'
      /\ rx_buffer \in Seq(LineTypes) /\ rx_buffer \in Seq(SentBytes)
      /\ fifo \in Seq(LineTypes)
  BY UnreadTypes, UnreadNext, StreamTypes DEF BytesInv
<1>5. PICK held \in Nat, f \in Nat, m \in Nat, size \in Nat :
        /\ held = Len(rx_buffer) /\ 5 <= held /\ f = Len(fifo) /\ m = Len(Stream)
        /\ size = Size(rx_buffer)
  <2>1. PICK held \in Nat, f \in Nat : held = Len(rx_buffer) /\ 5 <= held /\ f = Len(fifo)
    BY <1>4, LenProperties DEF HeaderRead, HeaderSize
  <2>2. PICK m \in Nat : m = Len(Stream)
    BY <1>4, LenProperties DEF UnreadCells
  <2>3. Size(rx_buffer) \in Byte
    BY <1>4, CellTypes
  <2>4. PICK size \in Nat : size = Size(rx_buffer)
    BY <2>3 DEF Byte
  <2> QED BY <2>1, <2>2, <2>4
<1>6. PICK n \in Nat : n = (IF f < wanted THEN f ELSE wanted) /\ n <= f /\ n <= size + 1
                       /\ wanted \in Nat /\ (inTime => n = size + 1)
  <2>1. wanted = size + 1 /\ (inTime => f > size)
    BY <1>1, <1>5
  <2> QED BY <2>1
<1>7. Taken(wanted) = Taken(n) /\ LeftBy(wanted) = LeftBy(n)
  <2>1. (IF f < n THEN f ELSE n) = n
    BY <1>6
  <2>2. Taken(wanted) = SubSeq(fifo, 1, n) /\ Taken(n) = SubSeq(fifo, 1, n)
    BY <1>5, <1>6, <2>1 DEF Taken
  <2> QED BY <2>2 DEF LeftBy
<1>8. /\ n <= m /\ Len(Stream') = m - n
      /\ \A x \in 1 .. m - n : Stream'[x] = Stream[x + n]
      /\ Taken(n) \in Seq(LineTypes) /\ Len(Taken(n)) = n
      /\ \A x \in 1 .. n : Taken(n)[x] = Stream[x]
  <2>1. n <= Len(fifo) /\ fifo' = LeftBy(n)
    BY <1>3, <1>5, <1>6, <1>7
  <2> QED BY <1>3, <1>5, <2>1, ReadStream
<1>9. /\ buffer \in Seq(LineTypes) /\ Len(buffer) >= 5 + n
      /\ \A x \in 1 .. 5 : buffer[x] = rx_buffer[x]
      /\ \A x \in 1 .. n : buffer[x + 5] = Stream[x]
      /\ \A x \in 1 .. Len(buffer) :
            x > 5 + n => x \in 1 .. held /\ buffer[x] = rx_buffer[x]
  <2>1. PICK offset \in Nat, bytes \in Seq(LineTypes) :
            /\ offset = 5 /\ bytes = Taken(n) /\ offset <= Len(rx_buffer)
            /\ buffer = Overwrite(offset, bytes) /\ n = Len(bytes)
    BY <1>2, <1>5, <1>7, <1>8 DEF HeaderSize
  <2>2. Overwritten(buffer, offset, bytes)
    BY <2>1, OverwriteCells
  <2> QED BY <1>5, <1>8, <2>1, <2>2 DEF Overwritten
<1>10. buffer \in Seq(SentBytes)
  BY <1>1, <1>2, CheckedBuffer
<1>11. /\ Len(Unread) = 5 + m /\ Unread' = Stream'
       /\ \A x \in 1 .. 5 : Unread[x] = rx_buffer[x]
       /\ \A x \in 1 .. m : Unread[x + 5] = Stream[x]
  BY <1>3, <1>4, <1>5 DEF UnreadCells
<1>12. ASSUME NEW x \in 1 .. n + 5 PROVE buffer[x] = Unread[x]
  <2>1. CASE x <= 5
    <3>1. x \in 1 .. 5
      BY <2>1
    <3> QED BY <1>9, <1>11, <3>1
  <2>2. CASE ~(x <= 5)
    <3>1. PICK y \in 1 .. n : y + 5 = x /\ y \in 1 .. m
      <4>1. x - 5 \in 1 .. n /\ x - 5 + 5 = x /\ x - 5 \in 1 .. m
        BY <1>8, <2>2
      <4> QED BY <4>1
    <3>2. buffer[y + 5] = Stream[y] /\ Unread[y + 5] = Stream[y]
      BY <1>9, <1>11, <3>1
    <3> QED BY <3>1, <3>2
  <2> QED BY <2>1, <2>2
<1>13. Behind(Unread', Unread, n + 5)
  <2>1. 5 + m - (n + 5) = m - n
    OBVIOUS
  <2>2. ASSUME NEW x \in 1 .. m - n PROVE Unread'[x] = Unread[x + (n + 5)]
    <3>1. x + n \in 1 .. m /\ x + n + 5 = x + (n + 5)
      BY <1>8
    <3>2. Unread[x + n + 5] = Stream[x + n]
      BY <1>11, <3>1
    <3> QED BY <1>8, <1>11, <3>1, <3>2
  <2>3. Len(Unread') = m - n /\ Len(Unread) - (n + 5) = m - n
    BY ONLY <1>8, <1>11, <2>1
  <2> QED BY ONLY <2>2, <2>3 DEF Behind
<1>14. Size(buffer) = size
  <2>1. 4 < held /\ 4 < Len(buffer) /\ 4 + 1 = 5 /\ 5 \in 1 .. 5
    BY <1>5, <1>9, LenProperties
  <2>2. Cell(buffer, 4) = buffer[5].value /\ Cell(rx_buffer, 4) = rx_buffer[5].value
    BY <1>5, <2>1 DEF Cell
  <2> QED BY <1>5, <1>9, <2>1, <2>2 DEF Size
<1>15. n + 5 <= 5 + m /\ Len(buffer) >= n + 5
  <2>1. Len(buffer) \in Nat
    BY <1>9, LenProperties
  <2> QED BY <1>8, <1>9, <2>1
<1>16. Filled(buffer, n + 5)
  <2>1. ASSUME NEW k \in 1 .. Len(buffer)
        PROVE  \/ k <= n + 5 /\ buffer[k] = Unread[k]
               \/ k > n + 5 /\ k \in 1 .. held /\ buffer[k] = rx_buffer[k]
    <3>1. CASE k <= n + 5
      <4>1. k \in 1 .. n + 5
        BY <3>1
      <4> QED BY <1>12, <3>1, <4>1
    <3>2. CASE ~(k <= n + 5)
      <4>1. k > 5 + n /\ k > n + 5
        BY <3>2
      <4> QED BY <1>9, <4>1
    <3> QED BY <3>1, <3>2
  <2> QED BY <1>5, <2>1 DEF Filled
<1>17. Checked(buffer, n, inTime)
  BY <1>3, <1>6, <1>9, <1>10, <1>11, <1>12, <1>13, <1>14, <1>15, <1>16 DEF Checked
<1> QED BY <1>17

Checks ==
    /\ packets' = packets /\ disturbed \subseteq disturbed' /\ lost' = lost
    /\ \E inTime \in BOOLEAN : \E buffer : \E n \in Nat : Checked(buffer, n, inTime)

LEMMA PayloadChecks ==
    ASSUME BytesInv, HeaderRead, BytesInv', HeaderRead', ReadPayload \/ PayloadTimeout
    PROVE  Checks
<1>1. CASE ReadPayload
  <2>1. /\ pc = "payload" /\ Check(Size(rx_buffer) + 1, TRUE)
        /\ Len(fifo) > Size(rx_buffer) /\ disturbed' = disturbed
    BY <1>1 DEF ReadPayload
  <2>2. packets' = packets /\ lost' = lost
    BY <2>1 DEF Check
  <2> QED BY <2>1, <2>2, CheckShrinks DEF Checks
<1>2. CASE PayloadTimeout
  <2>1. /\ pc = "payload" /\ Check(Size(rx_buffer) + 1, FALSE)
        /\ Len(fifo) <= Size(rx_buffer) /\ disturbed \subseteq disturbed'
    BY <1>2 DEF PayloadTimeout
  <2>2. packets' = packets /\ lost' = lost
    BY <2>1 DEF Check
  <2>3. ~(Len(fifo) > Size(rx_buffer))
    <3>1. rx_buffer \in Seq(SentBytes) /\ Len(fifo) \in Nat
      BY StreamTypes, LenProperties DEF BytesInv
    <3>2. Size(rx_buffer) \in Byte
      BY <3>1, CellTypes
    <3>3. PICK size \in Nat : size = Size(rx_buffer)
      BY <3>2 DEF Byte
    <3> QED BY <2>1, <3>1, <3>3
  <2> QED BY <2>1, <2>2, <2>3, CheckShrinks DEF Checks
<1> QED BY <1>1, <1>2

\* What happens to what is to be read in any step.  What is accepted, if anything, is what
\* was next.
Moves ==
    \/ Grows(Unread, Unread') /\ accepted' = accepted /\ lost' = lost
    \/ Loses(Unread, Unread') /\ accepted' = accepted /\ lost' = lost + 1
    \/ Shrinks(Unread, Unread') /\ accepted' = accepted /\ lost' = lost
    \/ Checks

LEMMA EveryStepMoves == BytesInv /\ HeaderRead /\ [Next]_vars => Moves
<1> SUFFICES ASSUME BytesInv, HeaderRead, [Next]_vars PROVE Moves
  OBVIOUS
<1>1. BytesInv' /\ HeaderRead'
  BY BytesStep
<1>2. ASSUME NEW kind \in Kinds, ComputerSends(kind) PROVE Moves
  <2>1. accepted' = accepted /\ lost' = lost
    BY <1>2 DEF ComputerSends, readVars
  <2> QED BY <1>1, <1>2, <2>1, SendGrows DEF Moves
<1>3. CASE ByteArrives
  <2>1. /\ line # <<>> /\ fifo' = Append(fifo, Head(line)) /\ line' = Tail(line)
        /\ UNCHANGED <<packets, rx_buffer, pc, disturbed, accepted, lost>>
    BY <1>3 DEF ByteArrives, readVars
  <2>2. Stream' = Stream
    <3>1. fifo \in Seq(LineTypes) /\ line \in Seq(LineTypes)
      BY StreamTypes
    <3> QED BY <2>1, <3>1, Moved DEF Stream
  <2> QED BY <2>1, <2>2, SameStream DEF Moves
<1>4. CASE ByteLost
  <2>1. accepted' = accepted /\ lost' = lost + 1
    BY <1>4 DEF ByteLost, readVars
  <2> QED BY <1>1, <1>4, <2>1, LostLoses DEF Moves
<1>5. CASE ReadHeader
  <2>1. accepted' = accepted /\ lost' = lost
    BY <1>5 DEF ReadHeader
  <2> QED BY <1>1, <1>5, <2>1, ReadHeaderShrinks DEF Moves
<1>6. CASE HeaderTimeout
  <2>1. accepted' = accepted /\ lost' = lost
    BY <1>6 DEF HeaderTimeout
  <2> QED BY <1>1, <1>6, <2>1, HeaderTimeoutShrinks DEF Moves
<1>7. CASE ReadPayload \/ PayloadTimeout
  <2>1. Checks
    BY <1>1, <1>7, PayloadChecks
  <2> QED BY <2>1 DEF Moves
<1>8. CASE FillHead \/ FillData \/ SendPacket \/ PostOther \/ MainHandles \/ UNCHANGED vars
  <2>1. /\ UNCHANGED <<packets, accepted, rx_buffer, disturbed, line, fifo, lost>>
        /\ pc = "payload" <=> pc' = "payload"
    BY <1>8 DEF FillHead, FillData, SendPacket, PostOther, MainHandles, vars, lineVars, readVars
  <2>2. Stream' = Stream
    BY <2>1 DEF Stream
  <2> QED BY <2>1, <2>2, SameStream DEF Moves
<1> QED
  BY <1>2, <1>3, <1>4, <1>5, <1>6, <1>7, <1>8 DEF Next, UartRxTask

LEMMA StillReading ==
    BytesInv /\ HeaderRead /\ ReadingInv /\ [Next]_vars => ReadingInv'
<1> SUFFICES ASSUME BytesInv, HeaderRead, ReadingInv, [Next]_vars PROVE ReadingInv'
  OBVIOUS
<1>1. /\ Unread \in Seq(LineTypes) /\ Unread' \in Seq(LineTypes) /\ packets \in Seq(Kinds)
      /\ Reading(Unread, packets, disturbed) /\ Moves
  <2>1. UnreadCells /\ UnreadCells'
    BY UnreadTypes, UnreadNext, BytesStep
  <2> QED BY <2>1, EveryStepMoves DEF UnreadCells, ReadingInv, BytesInv
<1>2. CASE Grows(Unread, Unread')
  <2>1. PICK kind \in Kinds :
            /\ packets' = Append(packets, kind) /\ disturbed' = disturbed
            /\ Joined(Unread', Unread, Line(kind, Len(packets) + 1))
    BY <1>2 DEF Grows
  <2>2. PICK d \in Nat : OneMore(packets, packets', Len(packets) + 1,
                                 Line(kind, Len(packets) + 1), d)
    BY <1>1, <2>1, PacketMore
  <2>3. Reading(Unread', packets', disturbed)
    BY <1>1, <2>1, <2>2, SendOn
  <2> QED BY <2>1, <2>3 DEF ReadingInv
<1>3. CASE Loses(Unread, Unread')
  <2>1. PICK p \in 1 .. Len(Unread) :
            /\ AllBut(Unread', Unread, p) /\ disturbed' = disturbed \union {Unread[p].of}
            /\ packets' = packets
    BY <1>3 DEF Loses
  <2>2. Reading(Unread', packets, disturbed \union {Unread[p].of})
    BY <1>1, <2>1, LoseOne
  <2> QED BY <2>1, <2>2 DEF ReadingInv
<1>4. ASSUME packets' = packets, disturbed \subseteq disturbed', NEW q \in Nat,
             Behind(Unread', Unread, q)
      PROVE  ReadingInv'
  BY <1>1, <1>4, ReadOn DEF ReadingInv
<1>5. CASE Shrinks(Unread, Unread')
  BY <1>4, <1>5 DEF Shrinks
<1>6. CASE Checks
  <2>1. PICK n \in Nat : Behind(Unread', Unread, n + 5)
    BY <1>6 DEF Checks, Checked
  <2>2. n + 5 \in Nat
    OBVIOUS
  <2> QED BY <1>4, <1>6, <2>1, <2>2 DEF Checks
<1> QED BY <1>1, <1>2, <1>3, <1>5, <1>6 DEF Moves

\* The packet that a check accepts.
LEMMA CheckedPacket ==
    ASSUME BytesInv, HeaderRead, ReadingInv, NEW buffer, NEW n \in Nat, NEW inTime \in BOOLEAN,
           Checked(buffer, n, inTime), NEW packet, packet = RecordOf(buffer, inTime)
    PROVE  /\ 5 <= Len(Unread) /\ packet.of = Unread[5].of
           /\ packet.inStep => Unread[3].of = packet.of /\ Unread[3].at = 3
           /\ IsRequest(packet)
<1>1. PICK m \in Nat : m = Len(Unread) /\ n + 5 <= m
  <2>1. Unread \in Seq(LineTypes)
    BY UnreadTypes DEF UnreadCells
  <2> QED BY <2>1, LenProperties DEF Checked
<1>2. /\ buffer \in Seq(LineTypes) /\ Len(buffer) >= n + 5 /\ Unread \in Seq(LineTypes)
      /\ packets \in Seq(Kinds) /\ Genuine(Unread, packets) /\ Whole(Unread, packets, disturbed)
      /\ \A x \in 1 .. n + 5 : buffer[x] = Unread[x]
      /\ inTime => n = Size(buffer) + 1
  BY UnreadTypes DEF UnreadCells, Checked, ReadingInv, Reading, BytesInv
<1>3. /\ packet.iden = Iden(buffer) /\ packet.data = Data(buffer) /\ packet.inTime = inTime
      /\ packet.of = buffer[5].of /\ packet.inStep = InStep(buffer)
  BY DEF RecordOf, HeaderSize
<1>4. \A x \in 1 .. 5 : buffer[x] = Unread[x] /\ x \in 1 .. m
  BY <1>1, <1>2
<1>5. 5 \in 1 .. Len(Unread) /\ 5 <= Len(Unread) /\ packet.of = Unread[5].of
  BY <1>1, <1>3, <1>4
<1>6. ASSUME packet.inStep
      PROVE  /\ Unread[3].of = packet.of /\ Unread[3].at = 3
             /\ packet.iden = packets[packet.of].iden
             /\ Len(packet.data) = Len(packets[packet.of].data)
             /\ packet.inTime /\ packet.of \notin disturbed => IsPacketSent(packet, packet.of)
  <2>1. PICK of \in 1 .. Len(packets) : of = Unread[5].of
    BY <1>2, <1>5 DEF Genuine
  <2>2. ASSUME NEW k \in 3 .. 5
        PROVE  buffer[k] = ByteOf(packets, of, k) /\ Unread[k].at = k /\ Unread[k].of = of
    <3>1. k \in 1 .. 5 /\ 5 \in 1 .. 5
      OBVIOUS
    <3>2. buffer[k] = Unread[k] /\ buffer[5] = Unread[5] /\ k \in 1 .. Len(Unread)
      BY <1>1, <1>4, <3>1
    <3>3. buffer[k].of = buffer[5].of /\ buffer[k].at = k
      BY <1>3, <1>6 DEF InStep, HeaderSize
    <3>4. Unread[k] = ByteOf(packets, Unread[k].of, Unread[k].at)
      BY <1>2, <3>2 DEF Genuine
    <3> QED BY <2>1, <3>2, <3>3, <3>4
  <2>3. Unread[5].at = 5 /\ Unread[3].at = 3 /\ Unread[3].of = of
    <3>1. 5 \in 3 .. 5 /\ 3 \in 3 .. 5
      OBVIOUS
    <3> QED BY <2>2, <3>1
  <2>4. PICK kind \in Kinds : kind = packets[of]
    BY <1>2, ElementOfSeq
  <2>5. PICK d \in Nat : EncodedAs(kind, d)
    BY EncodedFacts
  <2>6. EncodedAs(packets[of], d) /\ d = Len(packets[of].data) /\ BytesOf(packets, of) = d + 6
    BY <2>4, <2>5 DEF EncodedAs, BytesOf
  <2>7. HeaderReadsAs(buffer, packets, of, d)
    <3>1. PICK five \in Nat : five = 5 /\ Len(buffer) \in Nat
      BY <1>2, LenProperties
    <3>2. five >= 5 /\ Len(buffer) >= five
      BY <1>2, <3>1
    <3>3. InBuffer(buffer, packets, of, five)
      BY <2>2, <3>1, <3>2 DEF InBuffer
    <3> QED BY <1>2, <2>6, <3>2, <3>3, HeaderReads
  <2>8. /\ packet.of = of /\ packet.iden = packets[packet.of].iden
        /\ Size(buffer) = d /\ Len(packet.data) = d
    <3>1. Iden(buffer) = packets[of].iden /\ Size(buffer) = d
      BY <2>7 DEF HeaderReadsAs
    <3>2. Data(buffer) \in [1 .. d -> {Cell(buffer, HeaderSize + x - 1) : x \in 1 .. d}]
      BY <3>1 DEF Data
    <3>3. Data(buffer) \in Seq({Cell(buffer, HeaderSize + x - 1) : x \in 1 .. d})
      BY <3>2, SeqDef
    <3>4. Len(Data(buffer)) = d
      BY <3>2, <3>3, LenProperties
    <3> QED BY <1>3, <1>5, <2>1, <3>1, <3>4
\* In time, and with nothing lost, what is behind the header is the rest of the packet.
  <2>9. ASSUME inTime, of \notin disturbed PROVE IsPacketSent(packet, of)
    <3>1. n = d + 1
      BY <1>2, <2>8, <2>9
    <3>2. ASSUME NEW l \in 5 .. d + 6 PROVE Unread[l] = ByteOf(packets, of, l)
      <4>1. 5 + l - 5 = l
        OBVIOUS
      <4>2. Unread[5 + l - Unread[5].at] = ByteOf(packets, Unread[5].of, l)
        BY <1>2, <1>5, <2>1, <2>3, <2>6, <2>9 DEF Whole
      <4> QED BY <2>1, <2>3, <4>1, <4>2
    <3>3. ASSUME NEW k \in 3 .. d + 6 PROVE buffer[k] = ByteOf(packets, of, k)
      <4>1. CASE k < 5
        <5>1. k \in 3 .. 5
          BY <4>1
        <5> QED BY <2>2, <5>1
      <4>2. CASE ~(k < 5)
        <5>1. k \in 5 .. d + 6 /\ k \in 1 .. n + 5
          BY <3>1, <4>2
        <5> QED BY <1>2, <3>2, <5>1
      <4> QED BY <4>1, <4>2
    <3>4. Len(buffer) >= d + 6
      <4>1. n + 5 = d + 6
        BY <3>1
      <4> QED BY <1>2, <4>1
    <3>5. ReadsAs(buffer, packets, of)
      <4>1. InBuffer(buffer, packets, of, d + 6)
        BY <3>3, <3>4 DEF InBuffer
      <4> QED BY <1>2, <2>6, <4>1, PacketRead
    <3> QED BY <1>3, <3>5 DEF ReadsAs, IsPacketSent
  <2> QED BY <1>3, <2>3, <2>6, <2>8, <2>9
<1> QED BY <1>5, <1>6 DEF IsRequest

\* Every byte of the new sequence is one of the old or of a packet after the last.
FromOld(new, old, last) ==
    \A x \in 1 .. Len(new) : new[x].of > last \/ \E y \in 1 .. Len(old) : new[x] = old[y]

\* What is accepted comes from what was sent, and nothing is before it that is to be read.
AcceptedInv == PassedInv /\ InOrder /\ RequestsAreGenuine

LEMMA BehindIsOld ==
    ASSUME NEW s \in Seq(LineTypes), NEW rest, NEW q \in Nat, Behind(rest, s, q), NEW last
    PROVE  FromOld(rest, s, last)
<1>1. PICK m \in Nat : m = Len(s)
  BY LenProperties
<1>2. PICK n : n = Len(rest) /\ n = m - q
  BY <1>1 DEF Behind
<1>3. ASSUME NEW x \in 1 .. n PROVE x + q \in 1 .. m /\ rest[x] = s[x + q]
  BY <1>1, <1>2 DEF Behind
<1> QED BY <1>1, <1>2, <1>3 DEF FromOld

LEMMA AllButIsOld ==
    ASSUME NEW s \in Seq(LineTypes), NEW rest, NEW p \in 1 .. Len(s), AllBut(rest, s, p), NEW last
    PROVE  FromOld(rest, s, last)
<1>1. PICK m \in Nat : m = Len(s)
  BY LenProperties
<1>2. PICK n : n = Len(rest) /\ n = m - 1
  BY <1>1 DEF AllBut
<1>3. ASSUME NEW x \in 1 .. n PROVE \E y \in 1 .. m : rest[x] = s[y]
  <2>1. x \in 1 .. m /\ x + 1 \in 1 .. m
    BY <1>1, <1>2
  <2> QED BY <1>1, <1>2, <2>1 DEF AllBut
<1> QED BY <1>1, <1>2, <1>3 DEF FromOld

LEMMA JoinedIsOld ==
    ASSUME NEW kind \in Kinds, NEW last \in Nat, NEW s \in Seq(LineTypes), NEW u,
           Joined(u, s, Line(kind, last + 1))
    PROVE  FromOld(u, s, last)
<1>1. PICK more : more = Line(kind, last + 1)
  OBVIOUS
<1>2. PICK m \in Nat, n \in Nat : m = Len(s) /\ n = Len(more) /\ Len(u) = m + n
  <2>1. more \in Seq(LineTypes)
    BY <1>1, LineOfPacket
  <2> QED BY <1>1, <2>1, LenProperties DEF Joined
<1>3. \A x \in 1 .. n : more[x].of = last + 1
  BY <1>1, <1>2 DEF Line
<1>4. ASSUME NEW x \in 1 .. m + n PROVE u[x].of > last \/ \E y \in 1 .. m : u[x] = s[y]
  <2>1. CASE x \in 1 .. m
    BY <1>1, <1>2, <2>1 DEF Joined
  <2>2. CASE x \notin 1 .. m
    <3>1. PICK y \in 1 .. n : y + m = x
      <4>1. x - m \in 1 .. n /\ x - m + m = x
        BY <2>2
      <4> QED BY <4>1
    <3>2. u[x].of = last + 1
      BY <1>1, <1>2, <1>3, <3>1 DEF Joined
    <3> QED BY <3>2
  <2> QED BY <2>1, <2>2
<1> QED BY <1>2, <1>4 DEF FromOld

\* The packets that are recorded.
LEMMA AcceptedFacts ==
    ASSUME RecordInv, StepInv, BytesInv
    PROVE  /\ accepted \in Seq(Accepted) /\ Len(accepted) \in Nat /\ Len(packets) \in Nat
           /\ \A i \in 1 .. Len(accepted) : /\ accepted[i].of \in 1 .. Len(packets)
                                            /\ accepted[i].of \in Nat
<1>1. /\ accepted \in Seq(Accepted) /\ Len(accepted) \in Nat /\ Len(packets) \in Nat
      /\ \A j \in 1 .. Len(accepted) : accepted[j].of <= Len(packets)
  BY StreamTypes, LenProperties DEF RecordInv, StepInv
<1>2. ASSUME NEW i \in 1 .. Len(accepted)
      PROVE  accepted[i].of \in Nat /\ accepted[i].of >= 1
  <2>1. accepted[i] \in Accepted
    BY <1>1, ElementOfSeq
  <2>2. accepted[i].of \in 1 .. MaxPackets
    BY <2>1 DEF Accepted
  <2> QED BY <2>2, BoundsAssumption
<1> QED BY <1>1, <1>2

\* A packet that was read from what was sent is still that when more is sent or lost.
LEMMA StillRequest ==
    ASSUME NEW packet, packet.of \in 1 .. Len(packets), IsRequest(packet),
           disturbed \subseteq disturbed', \A m \in 1 .. Len(packets) : packets'[m] = packets[m]
    PROVE  IsRequest(packet)'
<1>1. packets'[packet.of] = packets[packet.of]
  OBVIOUS
<1> QED BY <1>1 DEF IsRequest, IsPacketSent

\* Nothing is accepted.
LEMMA NothingAccepted ==
    ASSUME BytesInv, RecordInv, StepInv, AcceptedInv, accepted' = accepted,
           Unread' \in Seq(LineTypes), FromOld(Unread', Unread, Len(packets)),
           disturbed \subseteq disturbed',
           \A m \in 1 .. Len(packets) : packets'[m] = packets[m]
    PROVE  AcceptedInv'
<1>1. ASSUME NEW i \in 1 .. Len(accepted), NEW x \in 1 .. Len(Unread')
      PROVE  Passed(accepted[i], Unread'[x])
  <2>1. CASE Unread'[x].of > Len(packets)
    <3>1. accepted[i].of < Unread'[x].of
      <4>1. accepted[i].of \in Nat /\ accepted[i].of <= Len(packets) /\ Len(packets) \in Nat
        BY AcceptedFacts
      <4>2. Unread'[x].of \in Nat
        BY LineFacts
      <4> QED BY <2>1, <4>1, <4>2
    <3> QED BY <3>1 DEF Passed
  <2>2. CASE \E y \in 1 .. Len(Unread) : Unread'[x] = Unread[y]
    BY <2>2 DEF AcceptedInv, PassedInv
  <2> QED BY <2>1, <2>2 DEF FromOld
<1>2. PassedInv'
  BY <1>1 DEF PassedInv
<1>3. InOrder'
  BY DEF AcceptedInv, InOrder
<1>4. RequestsAreGenuine'
  <2>1. ASSUME NEW i \in 1 .. Len(accepted) PROVE IsRequest(accepted[i])'
    <3>1. accepted[i].of \in 1 .. Len(packets) /\ IsRequest(accepted[i])
      BY AcceptedFacts DEF AcceptedInv, RequestsAreGenuine
    <3>2. PICK packet : packet = accepted[i]
      OBVIOUS
    <3>3. IsRequest(packet)'
      BY <3>1, <3>2, StillRequest
    <3> QED BY <3>2, <3>3
  <2> QED BY <2>1 DEF RequestsAreGenuine
<1> QED BY <1>2, <1>3, <1>4 DEF AcceptedInv

\* Before the third byte of a packet that has been passed there are not two to be read.
LEMMA RoomBefore ==
    ASSUME NEW s \in Seq(LineTypes), Ascending(s), 3 <= Len(s), s[3].at = 3,
           NEW packet, packet.of \in Nat, \A x \in 1 .. Len(s) : Passed(packet, s[x])
    PROVE  packet.of < s[3].of
<1>1. 1 \in 1 .. Len(s) /\ 2 \in 1 .. Len(s) /\ 3 \in 1 .. Len(s)
  BY LenProperties
<1>2. Before(s[1], s[2]) /\ Before(s[2], s[3])
  BY <1>1 DEF Ascending
<1>3. PICK of1 \in Nat, of2 \in Nat, of3 \in Nat, at1 \in Nat, at2 \in Nat :
        /\ of1 = s[1].of /\ of2 = s[2].of /\ of3 = s[3].of /\ at1 = s[1].at /\ at2 = s[2].at
  BY <1>1, LineFacts
<1>4. /\ of1 < of2 \/ (of1 = of2 /\ at1 < at2)
      /\ of2 < of3 \/ (of2 = of3 /\ at2 < 3)
  BY <1>2, <1>3 DEF Before
<1>5. /\ packet.of < of1 \/ (packet.of = of1 /\ at1 > 1)
      /\ packet.of < of2 \/ (packet.of = of2 /\ at2 > 1)
      /\ packet.of <= of3
  BY <1>1, <1>3 DEF Passed
<1> QED BY <1>3, <1>4, <1>5

\* A packet is accepted, or the check drops it.
LEMMA PacketAccepted ==
    ASSUME BytesInv, HeaderRead, RecordInv, StepInv, ReadingInv, AcceptedInv,
           Unread' \in Seq(LineTypes), packets' = packets, disturbed \subseteq disturbed',
           NEW buffer, NEW n \in Nat, NEW inTime \in BOOLEAN, Checked(buffer, n, inTime)
    PROVE  AcceptedInv'
<1>1. /\ Unread \in Seq(LineTypes) /\ Genuine(Unread, packets) /\ Ascending(Unread)
      /\ Behind(Unread', Unread, n + 5)
  BY UnreadTypes DEF UnreadCells, ReadingInv, Reading, Checked
<1>2. PICK m \in Nat, left \in Nat : m = Len(Unread) /\ left = Len(Unread') /\ left = m - (n + 5)
  BY <1>1, LenProperties DEF Behind
<1>3. CASE accepted' = accepted
  <2>1. n + 5 \in Nat
    OBVIOUS
  <2>2. FromOld(Unread', Unread, Len(packets))
    BY <1>1, <2>1, BehindIsOld
  <2> QED BY <1>3, <2>2, NothingAccepted
<1>4. ASSUME accepted' = Append(accepted, RecordOf(buffer, inTime)) PROVE AcceptedInv'
  <2>1. PICK packet : packet = RecordOf(buffer, inTime)
    OBVIOUS
  <2>2. PICK len \in Nat : len = Len(accepted)
    BY AcceptedFacts
  <2>3. /\ Len(accepted') = len + 1 /\ accepted'[len + 1] = packet
        /\ \A j \in 1 .. len : accepted'[j] = accepted[j]
    BY <1>4, <2>1, <2>2, AcceptedFacts, AppendToSeq DEF IsSeq
  <2>4. /\ 5 \in 1 .. m /\ packet.of = Unread[5].of /\ IsRequest(packet)
        /\ packet.inStep => Unread[3].of = packet.of /\ Unread[3].at = 3
    BY <1>2, <2>1, CheckedPacket
  <2>5. /\ Unread[5].of \in Nat /\ Unread[5].of \in 1 .. Len(packets)
        /\ Unread[5].at \in Nat /\ Unread[5].at >= 1
    <3>1. /\ Unread[5].of \in Nat /\ Unread[5].of \in 1 .. Len(packets) /\ Unread[5].at \in Nat
          /\ Unread[5].at \in 1 .. BytesOf(packets, Unread[5].of)
      BY <1>1, <1>2, <2>4, LineFacts DEF Genuine
    <3>2. BytesOf(packets, Unread[5].of) \in Nat
      BY <3>1, StreamTypes, KindFacts
    <3> QED BY <3>1, <3>2
  <2>6. \A j \in 1 .. len + 1 : j \in 1 .. len \/ j = len + 1
    OBVIOUS
  <2>7. ASSUME NEW x \in 1 .. left
        PROVE  /\ x + (n + 5) \in 1 .. m /\ Unread'[x] = Unread[x + (n + 5)]
               /\ Passed(packet, Unread'[x])
    <3>1. PICK y \in 1 .. m : y = x + (n + 5) /\ Unread'[x] = Unread[y] /\ 5 < y
      <4>1. x + (n + 5) \in 1 .. m /\ 5 < x + (n + 5)
        BY <1>2
      <4>2. Unread'[x] = Unread[x + (n + 5)]
        BY <1>1, <1>2 DEF Behind
      <4> QED BY <4>1, <4>2
    <3>2. Before(Unread[5], Unread[y])
      BY <1>1, <1>2, <2>4, <3>1 DEF Ascending
    <3>3. Unread[y].of \in Nat /\ Unread[y].at \in Nat
      BY <1>1, <1>2, <3>1, LineFacts
    <3>4. packet.of < Unread[y].of \/ (packet.of = Unread[y].of /\ Unread[5].at < Unread[y].at)
      BY <2>4, <3>2 DEF Before
    <3>5. Passed(packet, Unread[y])
      BY <2>5, <3>3, <3>4 DEF Passed
    <3> QED BY <3>1, <3>5
  <2>8. PassedInv'
    <3>1. ASSUME NEW i \in 1 .. len + 1, NEW x \in 1 .. left
          PROVE  Passed(accepted'[i], Unread'[x])
      <4>1. CASE i = len + 1
        BY <2>3, <2>7, <4>1
      <4>2. CASE i \in 1 .. len
        <5>1. Passed(accepted[i], Unread[x + (n + 5)])
          BY <1>2, <2>2, <2>7, <4>2 DEF AcceptedInv, PassedInv
        <5> QED BY <2>3, <2>7, <4>2, <5>1
      <4> QED BY <2>6, <4>1, <4>2
    <3> QED BY <1>2, <2>3, <3>1 DEF PassedInv
  <2>9. InOrder'
    <3>1. ASSUME NEW i \in 1 .. len + 1, NEW j \in 1 .. len + 1, j < i
          PROVE  /\ accepted'[j].of <= accepted'[i].of
                 /\ accepted'[i].inStep => accepted'[j].of < accepted'[i].of
      <4>1. CASE i \in 1 .. len
        <5>1. j \in 1 .. len
          BY <3>1, <4>1
        <5> QED BY <2>2, <2>3, <3>1, <4>1, <5>1 DEF AcceptedInv, InOrder
      <4>2. CASE i = len + 1
        <5>1. j \in 1 .. len
          BY <3>1, <4>2
        <5>2. accepted[j].of \in Nat /\ \A x \in 1 .. m : Passed(accepted[j], Unread[x])
          BY <1>2, <2>2, <5>1, AcceptedFacts DEF AcceptedInv, PassedInv
        <5>3. accepted[j].of <= packet.of
          BY <2>4, <2>5, <5>2 DEF Passed
        <5>4. ASSUME packet.inStep PROVE accepted[j].of < packet.of
          <6>1. 3 <= m /\ Unread[3].at = 3 /\ Unread[3].of = packet.of
            BY <2>4, <5>4
          <6> QED BY <1>1, <1>2, <5>2, <6>1, RoomBefore
        <5>5. accepted'[i] = packet /\ accepted'[j] = accepted[j]
          BY <2>3, <4>2, <5>1
        <5> QED BY <5>3, <5>4, <5>5
      <4> QED BY <2>6, <4>1, <4>2
    <3> QED BY <2>3, <3>1 DEF InOrder
  <2>10. RequestsAreGenuine'
    <3>1. ASSUME NEW request, request.of \in 1 .. Len(packets), IsRequest(request)
          PROVE  IsRequest(request)'
      BY <3>1, StillRequest
    <3>2. IsRequest(packet)'
      BY <2>4, <2>5, <3>1
    <3>3. ASSUME NEW i \in 1 .. len
          PROVE  IsRequest(accepted[i]) /\ accepted[i].of \in 1 .. Len(packets)
      BY <2>2, AcceptedFacts DEF AcceptedInv, RequestsAreGenuine
    <3>4. ASSUME NEW i \in 1 .. len + 1 PROVE IsRequest(accepted[i])'
      <4>1. CASE i = len + 1
        BY <2>3, <3>2, <4>1 DEF IsRequest, IsPacketSent
      <4>2. CASE i \in 1 .. len
        <5>1. PICK request : request = accepted[i]
          OBVIOUS
        <5>2. IsRequest(request)'
          BY <3>1, <3>3, <4>2, <5>1
        <5> QED BY <2>3, <4>2, <5>1, <5>2 DEF IsRequest, IsPacketSent
      <4> QED BY <2>6, <4>1, <4>2
    <3> QED BY <2>3, <3>4 DEF RequestsAreGenuine
  <2> QED BY <2>8, <2>9, <2>10 DEF AcceptedInv
<1> QED BY <1>3, <1>4 DEF Checked

LEMMA AcceptedStep ==
    BytesInv /\ HeaderRead /\ RecordInv /\ StepInv /\ ReadingInv /\ AcceptedInv /\ [Next]_vars
        => AcceptedInv'
<1> SUFFICES ASSUME BytesInv, HeaderRead, RecordInv, StepInv, ReadingInv, AcceptedInv, [Next]_vars
             PROVE  AcceptedInv'
  OBVIOUS
<1>1. /\ Unread \in Seq(LineTypes) /\ Unread' \in Seq(LineTypes) /\ packets \in Seq(Kinds)
      /\ Moves
  <2>1. UnreadCells /\ UnreadCells'
    BY UnreadTypes, UnreadNext, BytesStep
  <2> QED BY <2>1, EveryStepMoves DEF UnreadCells, BytesInv
<1>2. CASE Grows(Unread, Unread') /\ accepted' = accepted /\ lost' = lost
  <2>1. PICK number \in Nat : number = Len(packets)
    BY StreamTypes
  <2>2. PICK kind \in Kinds :
            /\ packets' = Append(packets, kind) /\ disturbed' = disturbed
            /\ Joined(Unread', Unread, Line(kind, number + 1))
    BY <1>2, <2>1 DEF Grows
  <2>3. FromOld(Unread', Unread, number)
    BY <1>1, <2>2, JoinedIsOld
  <2>4. \A m \in 1 .. number : packets'[m] = packets[m]
    BY <1>1, <2>1, <2>2, AppendProperties
  <2> QED BY <1>1, <1>2, <2>1, <2>2, <2>3, <2>4, NothingAccepted
<1>3. CASE Loses(Unread, Unread') /\ accepted' = accepted /\ lost' = lost + 1
  <2>1. PICK p \in 1 .. Len(Unread) :
            /\ AllBut(Unread', Unread, p) /\ disturbed' = disturbed \union {Unread[p].of}
            /\ packets' = packets
    BY <1>3 DEF Loses
  <2>2. FromOld(Unread', Unread, Len(packets))
    BY <1>1, <2>1, AllButIsOld
  <2> QED BY <1>1, <1>3, <2>1, <2>2, NothingAccepted
<1>4. CASE Shrinks(Unread, Unread') /\ accepted' = accepted /\ lost' = lost
  <2>1. /\ packets' = packets /\ disturbed \subseteq disturbed'
        /\ \E q \in Nat : Behind(Unread', Unread, q)
    BY <1>4 DEF Shrinks
  <2>2. FromOld(Unread', Unread, Len(packets))
    BY <1>1, <2>1, BehindIsOld
  <2> QED BY <1>1, <1>4, <2>1, <2>2, NothingAccepted
<1>5. CASE Checks
  BY <1>1, <1>5, PacketAccepted DEF Checks
<1> QED BY <1>1, <1>2, <1>3, <1>4, <1>5 DEF Moves

LEMMA NothingYet == Init => ReadingInv /\ AcceptedInv
<1> SUFFICES ASSUME Init PROVE ReadingInv /\ AcceptedInv
  OBVIOUS
<1>1. Len(accepted) = 0
  BY DEF Init
<1>2. Len(Unread) = 0
  <2>1. UnreadCells
    BY InitBytes, UnreadTypes
  <2>2. pc = "header" /\ Len(fifo) = 0 /\ Len(line) = 0
    BY DEF Init
  <2> QED BY <2>1, <2>2 DEF UnreadCells
<1>3. ReadingInv
  BY <1>2 DEF ReadingInv, Reading, Genuine, Ascending, Whole
<1> QED BY <1>1, <1>3 DEF AcceptedInv, PassedInv, InOrder, RequestsAreGenuine

\* What the reader accepts when it is in step has the identifier and the size that were sent,
\* and is what was sent if it came in time and none of its bytes was lost, whatever the
\* checksum is (uart_task.c:160-179).
THEOREM RequestsAreAlwaysGenuine == Spec => []RequestsAreGenuine
<1> QED
  BY NothingYet, Initially, Preserved, InitBytes, BytesStep, RecordStep, InStepPreserved,
     InitInStep, StillReading, AcceptedStep, PTL DEF Spec, AcceptedInv

\* Packets are accepted in the order in which they were sent, whatever is lost, whenever the
\* reader is out of step and whatever the checksum is; none that the reader takes from its
\* first byte of header on is accepted twice (uart_task.c:160-179).
THEOREM AcceptedInOrder == Spec => []InOrder
<1> QED
  BY NothingYet, Initially, Preserved, InitBytes, BytesStep, RecordStep, InStepPreserved,
     InitInStep, StillReading, AcceptedStep, PTL DEF Spec, AcceptedInv

----------------------------------------------------------------------------
(* In time *)

\* Bytes of a sequence that ascends are before each other as their places are.
LEMMA PlacesAscend ==
    ASSUME NEW s \in Seq(LineTypes), Ascending(s)
    PROVE  \A x, y \in 1 .. Len(s) : /\ Before(s[x], s[y]) <=> x < y
                                     /\ s[x] = s[y] => x = y
<1>1. ASSUME NEW x \in 1 .. Len(s), NEW y \in 1 .. Len(s)
      PROVE  (Before(s[x], s[y]) <=> x < y) /\ (s[x] = s[y] => x = y)
  <2>1. PICK of1 \in Nat, of2 \in Nat, at1 \in Nat, at2 \in Nat :
          /\ of1 = s[x].of /\ of2 = s[y].of /\ at1 = s[x].at /\ at2 = s[y].at
    BY LineFacts
  <2>2. /\ x < y => of1 < of2 \/ (of1 = of2 /\ at1 < at2)
        /\ y < x => of2 < of1 \/ (of2 = of1 /\ at2 < at1)
    BY <2>1 DEF Ascending, Before
  <2>3. x \in Nat /\ y \in Nat
    BY LenProperties
  <2>4. Before(s[x], s[y]) <=> of1 < of2 \/ (of1 = of2 /\ at1 < at2)
    BY <2>1 DEF Before
  <2>5. s[x] = s[y] => of1 = of2 /\ at1 = at2
    BY <2>1
  <2> QED BY <2>2, <2>3, <2>4, <2>5
<1> QED BY <1>1

LEMMA CountFirst ==
    ASSUME NEW s \in Seq(LineTypes), NEW k \in 0 .. Len(s),
           \A x, y \in 1 .. Len(s) : s[x] = s[y] => x = y,
           NEW T, T = {s[y] : y \in 1 .. k}
    PROVE  IsFiniteSet(T) /\ Cardinality(T) = k
<1>1. PICK f : f = [y \in 1 .. k |-> s[y]]
  OBVIOUS
<1>2. 1 .. k \subseteq 1 .. Len(s) /\ k \in Nat
  BY LenProperties
<1>3. f \in Bijection(1 .. k, T)
  BY <1>1, <1>2 DEF Bijection, Injection, Surjection, IsInjective
<1>4. ExistsBijection(1 .. k, T)
  BY <1>3 DEF ExistsBijection
<1>5. IsFiniteSet(1 .. k) /\ Cardinality(1 .. k) = k
  BY <1>2, FS_Interval
<1> QED BY <1>4, <1>5, FS_Bijection

\* A sequence that ascends is its own elements, sorted.
LEMMA SortedAgain ==
    ASSUME NEW s \in Seq(LineTypes), Ascending(s), NEW S, S = {s[x] : x \in 1 .. Len(s)}
    PROVE  Sorted(S) = s
<1>1. PICK m \in Nat : m = Len(s)
  BY LenProperties
<1>2. /\ \A x, y \in 1 .. m : Before(s[x], s[y]) <=> x < y
      /\ \A x, y \in 1 .. m : s[x] = s[y] => x = y
  BY <1>1, PlacesAscend
<1>3. Cardinality(S) = m
  <2>1. m \in 0 .. Len(s)
    BY <1>1
  <2> QED BY <1>1, <1>2, <2>1, CountFirst
<1>4. ASSUME NEW x \in 1 .. m PROVE Rank(S, s[x]) = x
  <2>1. PICK k \in 0 .. m : k = x - 1 /\ k + 1 = x /\ \A y \in 1 .. m : y < x <=> y \in 1 .. k
    <3>1. x - 1 \in 0 .. m /\ x - 1 + 1 = x /\ \A y \in 1 .. m : y < x <=> y \in 1 .. x - 1
      OBVIOUS
    <3> QED BY <3>1
  <2>2. {a \in S : Before(a, s[x])} = {s[y] : y \in 1 .. k}
    <3>1. 1 .. k \subseteq 1 .. m
      OBVIOUS
    <3> QED BY <1>1, <1>2, <2>1, <3>1
  <2>3. Cardinality({s[y] : y \in 1 .. k}) = k
    BY <1>1, <1>2, CountFirst
  <2> QED BY <2>1, <2>2, <2>3 DEF Rank
<1>5. ASSUME NEW x \in 1 .. m PROVE (CHOOSE b \in S : Rank(S, b) = x) = s[x]
  <2>1. s[x] \in S /\ Rank(S, s[x]) = x
    BY <1>1, <1>4
  <2>2. ASSUME NEW b \in S, Rank(S, b) = x PROVE b = s[x]
    <3>1. PICK y \in 1 .. m : b = s[y]
      BY <1>1
    <3> QED BY <1>4, <2>2, <3>1
  <2> QED BY <2>1, <2>2
<1>6. Sorted(S) = [x \in 1 .. m |-> s[x]]
  BY <1>3, <1>5 DEF Sorted
<1>7. s = [x \in 1 .. m |-> s[x]]
  BY <1>1
<1> QED BY <1>6, <1>7

\* What is to be read is what arrives from its first byte on but for what is missing.
LEMMA ReadingArrives ==
    ASSUME NEW sent \in Seq(Kinds), NEW s \in Seq(LineTypes), Genuine(s, sent), Ascending(s),
           1 <= Len(s)
    PROVE  s = Sorted(Arriving(sent, MissingOf(s, sent), s[1])) /\ s[1] \in AllBytes(sent)
<1>1. PICK m \in Nat : m = Len(s) /\ 1 \in 1 .. m /\ m # 0
  BY LenProperties
<1>2. ASSUME NEW x \in 1 .. m PROVE s[x] \in AllBytes(sent) /\ ~Before(s[x], s[1])
  <2>1. IsSentByte(s[x], sent)
    BY <1>1, GenuineBytes
  <2>2. Before(s[x], s[1]) <=> x < 1
    BY <1>1, PlacesAscend
  <2>3. ~(x < 1)
    OBVIOUS
  <2> QED BY <2>1, <2>2, <2>3 DEF IsSentByte, AllBytes
<1>3. MissingOf(s, sent) = {b \in AllBytes(sent) : ~Before(b, s[1]) /\ \A x \in 1 .. m : s[x] # b}
  BY <1>1 DEF MissingOf
<1>4. Arriving(sent, MissingOf(s, sent), s[1]) = {s[x] : x \in 1 .. m}
  BY <1>2, <1>3 DEF Arriving
<1> QED BY <1>1, <1>2, <1>4, SortedAgain

\* Bytes that were sent, and missing ones, have a number and a place.
LEMMA CellFacts ==
    ASSUME NEW sent \in Seq(Kinds), NEW b \in AllBytes(sent)
    PROVE  IsSentByte(b, sent)
<1>1. PICK n \in 1 .. Len(sent) : \E k \in 1 .. BytesOf(sent, n) : b = ByteOf(sent, n, k)
  BY DEF AllBytes
<1>2. PICK k \in 1 .. BytesOf(sent, n) : b = ByteOf(sent, n, k)
  BY <1>1
<1>3. b.of = n /\ b.at = k
  BY <1>2, BytePlace
<1>4. BytesOf(sent, n) \in Nat /\ n \in Nat /\ k \in Nat
  BY KindFacts
<1> QED BY <1>2, <1>3, <1>4 DEF IsSentByte

\* What is read or lost is not missing, but for the bytes that are lost.
LEMMA MissingLess ==
    ASSUME NEW sent \in Seq(Kinds), NEW s \in Seq(LineTypes), Genuine(s, sent), Ascending(s),
           NEW rest \in Seq(LineTypes),
           \A x \in 1 .. Len(rest) : \E y \in 1 .. Len(s) : rest[x] = s[y],
           NEW extra,
           \A y \in 1 .. Len(s) : \/ s[y] \in extra
                                  \/ \E x \in 1 .. Len(rest) : rest[x] = s[y]
                                  \/ Len(rest) # 0 => Before(s[y], rest[1])
    PROVE  MissingOf(rest, sent) \subseteq MissingOf(s, sent) \union extra
<1> SUFFICES ASSUME NEW b \in MissingOf(rest, sent), b \notin extra PROVE b \in MissingOf(s, sent)
  OBVIOUS
<1>1. /\ Len(rest) # 0 /\ b \in AllBytes(sent) /\ ~Before(b, rest[1])
      /\ \A x \in 1 .. Len(rest) : rest[x] # b
  BY DEF MissingOf
<1>2. \A y \in 1 .. Len(s) : s[y] # b
  BY <1>1
<1>3. PICK y \in 1 .. Len(s) : rest[1] = s[y]
  <2>1. 1 \in 1 .. Len(rest)
    BY <1>1, LenProperties
  <2> QED BY <2>1
<1>4. Len(s) # 0 /\ 1 \in 1 .. Len(s) /\ y \in Nat /\ y >= 1
  BY LenProperties
<1>5. ~Before(b, s[1])
  <2>1. PICK of1 \in Nat, of2 \in Nat, of3 \in Nat, at1 \in Nat, at2 \in Nat, at3 \in Nat :
          /\ of1 = s[1].of /\ of2 = s[y].of /\ at1 = s[1].at /\ at2 = s[y].at
          /\ of3 = b.of /\ at3 = b.at
    <3>1. b.of \in Nat /\ b.at \in Nat
      BY <1>1, CellFacts DEF IsSentByte
    <3> QED BY <1>4, <3>1, LineFacts
  <2>2. y = 1 \/ of1 < of2 \/ (of1 = of2 /\ at1 < at2)
    <3>1. y = 1 \/ 1 < y
      BY <1>4
    <3>2. 1 < y => Before(s[1], s[y])
      BY <1>4 DEF Ascending
    <3> QED BY <2>1, <3>1, <3>2 DEF Before
  <2>3. y = 1 => of1 = of2 /\ at1 = at2
    BY <2>1
  <2>4. ~(of3 < of2 \/ (of3 = of2 /\ at3 < at2))
    BY <1>1, <1>3, <2>1 DEF Before
  <2>5. ~(of3 < of1 \/ (of3 = of1 /\ at3 < at1))
    BY <2>2, <2>3, <2>4
  <2> QED BY <2>1, <2>5 DEF Before
<1> QED BY <1>1, <1>2, <1>4, <1>5 DEF MissingOf

LEMMA BehindMissing ==
    ASSUME NEW sent \in Seq(Kinds), NEW s \in Seq(LineTypes), Genuine(s, sent), Ascending(s),
           NEW rest \in Seq(LineTypes), NEW q \in Nat, Behind(rest, s, q)
    PROVE  MissingOf(rest, sent) \subseteq MissingOf(s, sent)
<1>1. PICK m \in Nat, n \in Nat : m = Len(s) /\ n = Len(rest) /\ n = m - q
  BY LenProperties DEF Behind
<1>2. ASSUME NEW x \in 1 .. n PROVE x + q \in 1 .. m /\ rest[x] = s[x + q]
  BY <1>1 DEF Behind
<1>3. ASSUME NEW y \in 1 .. m
      PROVE  (\E x \in 1 .. n : rest[x] = s[y]) \/ (n # 0 => Before(s[y], rest[1]))
  <2>1. CASE y > q
    <3>1. PICK x \in 1 .. n : x + q = y
      <4>1. y - q \in 1 .. n /\ y - q + q = y
        BY <1>1, <2>1
      <4> QED BY <4>1
    <3> QED BY <1>2, <3>1
  <2>2. CASE y <= q /\ n # 0
    <3>1. 1 \in 1 .. n /\ 1 + q \in 1 .. m /\ y < 1 + q
      BY <1>1, <2>2
    <3> QED BY <1>1, <1>2, <3>1 DEF Ascending
  <2> QED BY <2>1, <2>2
<1>4. \A x \in 1 .. n : \E y \in 1 .. m : rest[x] = s[y]
  BY <1>2
<1>5. MissingOf(rest, sent) \subseteq MissingOf(s, sent) \union {}
  BY <1>1, <1>3, <1>4, MissingLess
<1> QED BY <1>5

LEMMA AllButMissing ==
    ASSUME NEW sent \in Seq(Kinds), NEW s \in Seq(LineTypes), Genuine(s, sent), Ascending(s),
           NEW rest \in Seq(LineTypes), NEW p \in 1 .. Len(s), AllBut(rest, s, p)
    PROVE  MissingOf(rest, sent) \subseteq MissingOf(s, sent) \union {s[p]}
<1>1. PICK m \in Nat, n \in Nat : m = Len(s) /\ n = Len(rest) /\ n = m - 1
  BY LenProperties DEF AllBut
<1>2. ASSUME NEW x \in 1 .. n PROVE \E y \in 1 .. m : rest[x] = s[y]
  <2>1. x \in 1 .. m /\ x + 1 \in 1 .. m
    BY <1>1
  <2> QED BY <1>1, <2>1 DEF AllBut
<1>3. ASSUME NEW y \in 1 .. m PROVE s[y] \in {s[p]} \/ \E x \in 1 .. n : rest[x] = s[y]
  <2>1. CASE y < p
    <3>1. y \in 1 .. n
      BY <1>1, <2>1
    <3> QED BY <1>1, <2>1, <3>1 DEF AllBut
  <2>2. CASE y = p
    BY <2>2
  <2>3. CASE y > p
    <3>1. PICK x \in 1 .. n : x + 1 = y /\ ~(x < p)
      <4>1. y - 1 \in 1 .. n /\ y - 1 + 1 = y /\ ~(y - 1 < p)
        BY <1>1, <2>3
      <4> QED BY <4>1
    <3> QED BY <1>1, <3>1 DEF AllBut
  <2>4. y < p \/ y = p \/ y > p
    BY <1>1
  <2> QED BY <2>1, <2>2, <2>3, <2>4
<1> QED BY <1>1, <1>2, <1>3, MissingLess

LEMMA JoinedMissing ==
    ASSUME NEW sent \in Seq(Kinds), NEW s \in Seq(LineTypes), Genuine(s, sent),
           NEW t, NEW number, NEW more, NEW d \in Nat,
           OneMore(sent, t, number, more, d), NEW u, Joined(u, s, more)
    PROVE  MissingOf(u, t) \subseteq MissingOf(s, sent)
<1> SUFFICES ASSUME NEW b \in MissingOf(u, t) PROVE b \in MissingOf(s, sent)
  OBVIOUS
<1>1. PICK m \in Nat : m = Len(s) /\ Len(u) = m + (d + 6) /\ Len(more) = d + 6
  BY LenProperties DEF Joined, OneMore
<1>2. /\ b \in AllBytes(t) /\ ~Before(b, u[1]) /\ \A x \in 1 .. m + (d + 6) : u[x] # b
  BY <1>1 DEF MissingOf
<1>3. IsSentByte(b, t)
  BY <1>2, CellFacts DEF OneMore
<1>4. number \in Nat /\ number = Len(sent) + 1 /\ Len(t) = number /\ BytesOf(t, number) = d + 6
  BY DEF OneMore
\* The new packet is there.
<1>5. b.of # number
  <2> SUFFICES ASSUME b.of = number PROVE FALSE
    OBVIOUS
  <2>1. b.at \in 1 .. d + 6 /\ b = ByteOf(t, number, b.at)
    BY <1>3, <1>4 DEF IsSentByte
  <2>2. more[b.at] = b
    BY <2>1 DEF OneMore
  <2>3. u[b.at + m] = b /\ b.at + m \in 1 .. m + (d + 6)
    <3>1. PICK k \in 1 .. d + 6 : k = b.at
      BY <2>1
    <3>2. k + m \in 1 .. m + (d + 6)
      OBVIOUS
    <3>3. u[k + m] = more[k]
      BY <1>1 DEF Joined
    <3> QED BY <2>2, <3>1, <3>2, <3>3
  <2> QED BY <1>2, <2>3
<1>6. PICK of \in 1 .. number - 1 : of = b.of
  <2>1. b.of \in 1 .. number /\ b.of \in Nat
    BY <1>3, <1>4 DEF IsSentByte
  <2> QED BY <1>4, <1>5, <2>1
<1>7. b \in AllBytes(sent)
  <2>1. b.at \in 1 .. BytesOf(t, of) /\ b = ByteOf(t, of, b.at)
    BY <1>3, <1>6 DEF IsSentByte
  <2>2. BytesOf(t, of) = BytesOf(sent, of) /\ ByteOf(t, of, b.at) = ByteOf(sent, of, b.at)
    BY <1>6 DEF OneMore
  <2>3. of \in 1 .. Len(sent)
    BY <1>4
  <2> QED BY <2>1, <2>2, <2>3 DEF AllBytes
<1>8. m # 0
  <2> SUFFICES ASSUME m = 0 PROVE FALSE
    OBVIOUS
  <2>1. 1 \in 1 .. d + 6 /\ 1 + m = 1
    OBVIOUS
  <2>2. u[1 + m] = more[1]
    BY <1>1, <2>1 DEF Joined
  <2>3. u[1].of = number
    BY <2>1, <2>2 DEF OneMore
  <2>4. Before(b, u[1])
    BY <1>4, <1>6, <2>3 DEF Before
  <2> QED BY <1>2, <2>4
<1>9. \A x \in 1 .. m : u[x] = s[x] /\ x \in 1 .. m + (d + 6)
  BY <1>1 DEF Joined
<1>10. 1 \in 1 .. m
  BY <1>8
<1> QED BY <1>1, <1>2, <1>7, <1>8, <1>9, <1>10 DEF MissingOf

LEMMA MissingGrows ==
    ASSUME NEW M, NEW n \in Nat, IsFiniteSet(M), Cardinality(M) <= n, NEW x,
           NEW N, N \subseteq M \union {x}
    PROVE  IsFiniteSet(N) /\ Cardinality(N) <= n + 1 /\ (N \subseteq M => Cardinality(N) <= n)
<1>1. PICK L : L = M \union {x}
  OBVIOUS
<1>2. /\ IsFiniteSet(L) /\ Cardinality(M) \in Nat
      /\ Cardinality(L) = IF x \in M THEN Cardinality(M) ELSE Cardinality(M) + 1
  BY <1>1, FS_AddElement, FS_CardinalityType
<1>3. IsFiniteSet(N) /\ Cardinality(N) <= Cardinality(L) /\ Cardinality(N) \in Nat
  <2>1. N \in SUBSET L
    BY <1>1
  <2> QED BY <1>2, <2>1, FS_Subset, FS_CardinalityType
<1>4. N \subseteq M => Cardinality(N) <= Cardinality(M)
  BY FS_Subset
<1> QED BY <1>2, <1>3, <1>4

LEMMA MissingStep ==
    BytesInv /\ HeaderRead /\ RecordInv /\ ReadingInv /\ FewMissing /\ [Next]_vars => FewMissing'
<1> SUFFICES ASSUME BytesInv, HeaderRead, RecordInv, ReadingInv, FewMissing, [Next]_vars
             PROVE  FewMissing'
  OBVIOUS
<1>1. /\ Unread \in Seq(LineTypes) /\ Unread' \in Seq(LineTypes) /\ packets \in Seq(Kinds)
      /\ Genuine(Unread, packets) /\ Ascending(Unread) /\ Moves
  <2>1. UnreadCells /\ UnreadCells'
    BY UnreadTypes, UnreadNext, BytesStep
  <2> QED BY <2>1, EveryStepMoves DEF UnreadCells, BytesInv, ReadingInv, Reading
<1> PICK M, N : M = MissingOf(Unread, packets) /\ N = MissingOf(Unread, packets)'
  OBVIOUS
<1> PICK gone \in Nat : gone = lost
  BY BoundsAssumption DEF RecordInv
<1>2. M = MissingOf(Unread, packets) /\ N = MissingOf(Unread, packets)' /\ gone = lost
  OBVIOUS
<1>3. IsFiniteSet(M) /\ Cardinality(M) <= gone
  BY <1>2 DEF FewMissing
<1>4. ASSUME N \subseteq M, lost' = lost PROVE FewMissing'
  <2>1. N \subseteq M \union {0}
    BY <1>4
  <2>2. IsFiniteSet(N) /\ Cardinality(N) <= gone
    BY <1>3, <1>4, <2>1, MissingGrows
  <2> QED BY <1>2, <1>4, <2>2 DEF FewMissing
<1>5. CASE Grows(Unread, Unread') /\ accepted' = accepted /\ lost' = lost
  <2>1. PICK kind \in Kinds :
            /\ packets' = Append(packets, kind)
            /\ Joined(Unread', Unread, Line(kind, Len(packets) + 1))
    BY <1>5 DEF Grows
  <2>2. PICK d \in Nat : OneMore(packets, packets', Len(packets) + 1,
                                 Line(kind, Len(packets) + 1), d)
    BY <1>1, <2>1, PacketMore
  <2>3. MissingOf(Unread', packets') \subseteq M
    BY <1>1, <1>2, <2>1, <2>2, JoinedMissing
  <2> QED BY <1>2, <1>4, <1>5, <2>3 DEF MissingOf
<1>6. CASE Loses(Unread, Unread') /\ accepted' = accepted /\ lost' = lost + 1
  <2>1. PICK p \in 1 .. Len(Unread) : AllBut(Unread', Unread, p) /\ packets' = packets
    BY <1>6 DEF Loses
  <2>2. MissingOf(Unread', packets) \subseteq M \union {Unread[p]}
    BY <1>1, <1>2, <2>1, AllButMissing
  <2>3. N \subseteq M \union {Unread[p]}
    BY <1>2, <2>1, <2>2 DEF MissingOf
  <2>4. IsFiniteSet(N) /\ Cardinality(N) <= gone + 1
    BY <1>3, <2>3, MissingGrows
  <2> QED BY <1>2, <1>6, <2>4 DEF FewMissing
<1>7. ASSUME packets' = packets, lost' = lost, NEW q \in Nat, Behind(Unread', Unread, q)
      PROVE  FewMissing'
  <2>1. MissingOf(Unread', packets) \subseteq M
    BY <1>1, <1>2, <1>7, BehindMissing
  <2> QED BY <1>2, <1>4, <1>7, <2>1 DEF MissingOf
<1>8. CASE Shrinks(Unread, Unread') /\ accepted' = accepted /\ lost' = lost
  BY <1>7, <1>8 DEF Shrinks
<1>9. CASE Checks
  <2>1. PICK q \in Nat : Behind(Unread', Unread, q + 5)
    BY <1>9 DEF Checks, Checked
  <2>2. q + 5 \in Nat
    OBVIOUS
  <2> QED BY <1>7, <1>9, <2>1, <2>2 DEF Checks
<1> QED BY <1>1, <1>5, <1>6, <1>8, <1>9 DEF Moves

\* The payload of a packet that came in time is the rest of that packet.
InTimeSent(packet) == packet.inTime => packet.inStep /\ IsPacketSent(packet, packet.of)
InTimeInv == \A i \in 1 .. Len(accepted) : InTimeSent(accepted[i])

\* What is next to be read is one of the readings that the checksum is asked about.
LEMMA IsReading ==
    ASSUME BytesInv, HeaderRead, RecordInv, ReadingInv, FewMissing, 1 <= Len(Unread)
    PROVE  packets \in Sendings /\ Unread \in Readings(packets)
<1>1. /\ Unread \in Seq(LineTypes) /\ packets \in Seq(Kinds)
      /\ Genuine(Unread, packets) /\ Ascending(Unread)
  BY UnreadTypes DEF UnreadCells, ReadingInv, Reading, BytesInv
<1>2. Unread = Sorted(Arriving(packets, MissingOf(Unread, packets), Unread[1]))
      /\ Unread[1] \in AllBytes(packets)
  BY <1>1, ReadingArrives
<1>3. packets \in UNION {[1 .. k -> Kinds] : k \in 1 .. MaxPackets}
  <2>1. Unread[1].of \in 1 .. Len(packets)
    <3>1. 1 \in 1 .. Len(Unread)
      BY <1>1, LenProperties
    <3> QED BY <1>1, <3>1 DEF Genuine
  <2>2. Len(packets) \in 1 .. MaxPackets
    BY <2>1, StreamTypes, BoundsAssumption DEF BytesInv
  <2> QED BY <1>1, <2>2
<1>4. /\ MissingOf(Unread, packets) \in SUBSET AllBytes(packets)
      /\ Cardinality(MissingOf(Unread, packets)) <= MaxLost
  <2>1. MissingOf(Unread, packets) \subseteq AllBytes(packets)
    BY DEF MissingOf
  <2>2. /\ Cardinality(MissingOf(Unread, packets)) \in Nat
        /\ Cardinality(MissingOf(Unread, packets)) <= lost
    BY FS_CardinalityType DEF FewMissing
  <2>3. lost \in Nat /\ lost <= MaxLost /\ MaxLost \in Nat
    BY BoundsAssumption DEF RecordInv
  <2> QED BY <2>1, <2>2, <2>3
<1> QED BY <1>2, <1>3, <1>4 DEF Sendings, Readings

\* The checksum fits what is in the buffer.
LEMMA ValuesFit ==
    ASSUME NEW buffer, ChecksumFits(buffer), NEW size \in Nat, size = Size(buffer), NEW values,
           \A k \in 0 .. size + 5 : Cell(buffer, k) = values[k + 1], values[5] = size
    PROVE  Fits(values)
<1>1. Cell(buffer, 5 + size) = values[5 + size + 1]
  <2>1. 5 + size \in 0 .. size + 5
    OBVIOUS
  <2> QED BY <2>1
<1>2. ASSUME NEW i \in 1 .. size + 3 PROVE Cell(buffer, i + 1) = values[i + 2]
  <2>1. i + 1 \in 0 .. size + 5 /\ i + 1 + 1 = i + 2
    OBVIOUS
  <2> QED BY <2>1
<1>3. [i \in 1 .. size + 3 |-> Cell(buffer, i + 1)] = [i \in 1 .. size + 3 |-> values[i + 2]]
  BY <1>2
<1>4. Cell(buffer, 5 + size) = Checksum([i \in 1 .. size + 3 |-> Cell(buffer, i + 1)])
  BY DEF ChecksumFits, HeaderSize
<1>5. values[5 + size + 1] = Checksum([i \in 1 .. size + 3 |-> values[i + 2]])
  BY ONLY <1>1, <1>3, <1>4
<1>6. Fits(values) <=> values[5 + values[5] + 1]
                         = Checksum([x \in 1 .. values[5] + 3 |-> values[x + 2]])
  BY DEF Fits, HeaderSize
<1> QED BY ONLY values[5] = size, <1>5, <1>6

LEMMA CheckedInTime ==
    ASSUME ChecksumTellsPackets, BytesInv, HeaderRead, RecordInv, ReadingInv, FewMissing,
           NEW buffer, NEW n \in Nat, Checked(buffer, n, TRUE), ChecksumFits(buffer),
           NEW packet, packet = RecordOf(buffer, TRUE)
    PROVE  packet.inStep /\ IsPacketSent(packet, packet.of)
<1>1. PICK m \in Nat, held \in Nat :
        m = Len(Unread) /\ held = Len(buffer) /\ n + 5 <= m /\ n + 5 <= held
  <2>1. Unread \in Seq(LineTypes)
    BY UnreadTypes DEF UnreadCells
  <2> QED BY <2>1, LenProperties DEF Checked
<1>2. /\ buffer \in Seq(LineTypes) /\ Unread \in Seq(LineTypes) /\ packets \in Seq(Kinds)
      /\ Genuine(Unread, packets) /\ Ascending(Unread)
      /\ \A x \in 1 .. n + 5 : buffer[x] = Unread[x]
      /\ n = Size(buffer) + 1
  BY UnreadTypes DEF UnreadCells, Checked, ReadingInv, Reading, BytesInv
<1>3. PICK size \in Nat : size = Size(buffer) /\ n = size + 1 /\ size = buffer[5].value
  <2>1. Size(buffer) \in Byte
    BY CellTypes DEF Checked
  <2>2. Size(buffer) \in Nat
    BY <2>1 DEF Byte
  <2>3. 4 < Len(buffer)
    BY <1>1
  <2>4. Size(buffer) = buffer[5].value
    BY <2>3 DEF Size, Cell
  <2> QED BY <1>2, <2>2, <2>4
<1>4. size + 6 = n + 5 /\ size + 6 <= m /\ size + 6 <= held
  BY <1>1, <1>3
<1>5. \A x \in 1 .. size + 6 : buffer[x] = Unread[x]
  BY <1>2, <1>4
<1>6. ASSUME NEW k \in 0 .. size + 5 PROVE Cell(buffer, k) = Unread[k + 1].value
  <2>1. k < held /\ k + 1 \in 1 .. size + 6
    BY <1>4
  <2> QED BY <1>1, <1>5, <2>1 DEF Cell
<1>7. SizeIn(Unread) = size
  <2>1. 5 \in 1 .. size + 6
    OBVIOUS
  <2> QED BY <1>3, <1>5, <2>1 DEF SizeIn, HeaderSize
<1>8. Fits([x \in 1 .. Len(Unread) |-> Unread[x].value])
  <2>1. PICK values : values = [x \in 1 .. m |-> Unread[x].value]
    OBVIOUS
  <2>2. ASSUME NEW k \in 0 .. size + 5 PROVE Cell(buffer, k) = values[k + 1]
    <3>1. k + 1 \in 1 .. m
      BY <1>4
    <3> QED BY <1>6, <2>1, <3>1
  <2>3. values[5] = size
    <3>1. 5 \in 1 .. m
      BY <1>4
    <3> QED BY <1>7, <2>1, <3>1 DEF SizeIn, HeaderSize
  <2>4. \A k \in 0 .. size + 5 : Cell(buffer, k) = values[k + 1]
    BY <2>2
  <2>5. size \in Nat /\ size = Size(buffer)
    BY <1>3
  <2>6. Fits(values)
    BY <2>3, <2>4, <2>5, ValuesFit
  <2>7. values = [x \in 1 .. Len(Unread) |-> Unread[x].value]
    BY <1>1, <2>1
  <2> QED BY ONLY <2>6, <2>7
<1>9. packets \in Sendings /\ Unread \in Readings(packets)
  <2>1. 1 <= Len(Unread)
    BY <1>1, <1>4
  <2> QED BY <2>1, IsReading
<1>10. Len(Unread) >= HeaderSize /\ Len(Unread) > HeaderSize + SizeIn(Unread)
  BY <1>1, <1>4, <1>7 DEF HeaderSize
<1>11. ASSUME NEW x \in 3 .. size + 6 PROVE Unread[x].of = Unread[5].of /\ Unread[x].at = x
  <2>1. \A y \in 3 .. 5 + SizeIn(Unread) + 1 : Unread[y].of = Unread[5].of /\ Unread[y].at = y
    BY <1>8, <1>9, <1>10 DEF ChecksumTellsPackets, HeaderSize
  <2>2. 5 + SizeIn(Unread) + 1 = size + 6
    BY <1>7
  <2> QED BY <2>1, <2>2
<1>12. PICK of \in 1 .. Len(packets) : of = Unread[5].of
  <2>1. 5 \in 1 .. Len(Unread)
    BY <1>1, <1>4
  <2> QED BY <1>2, <2>1 DEF Genuine
<1>13. ASSUME NEW k \in 3 .. size + 6
       PROVE  /\ buffer[k] = ByteOf(packets, of, k)
              /\ buffer[k].of = of /\ buffer[k].at = k
  <2>1. k \in 1 .. size + 6 /\ k \in 1 .. m
    BY <1>4
  <2>2. Unread[k] = ByteOf(packets, Unread[k].of, Unread[k].at)
    BY <1>1, <1>2, <2>1 DEF Genuine
  <2> QED BY <1>5, <1>11, <1>12, <2>1, <2>2
<1>14. InStep(buffer)
  <2>1. \A k \in 3 .. 5 : k \in 3 .. size + 6
    OBVIOUS
  <2>2. 5 \in 3 .. 5
    OBVIOUS
  <2> QED BY <1>13, <2>1, <2>2 DEF InStep, HeaderSize
<1>15. ReadsAs(buffer, packets, of)
  <2>1. PICK kind \in Kinds : kind = packets[of]
    BY <1>2, ElementOfSeq
  <2>2. PICK d \in Nat : EncodedAs(packets[of], d)
    BY <2>1, EncodedFacts
  <2>3. InBuffer(buffer, packets, of, size + 6)
    BY <1>1, <1>4, <1>13 DEF InBuffer
  <2>4. size = d
    <3>1. size + 6 \in Nat /\ size + 6 >= 5
      OBVIOUS
    <3>2. HeaderReadsAs(buffer, packets, of, d)
      BY <1>2, <2>2, <2>3, <3>1, HeaderReads
    <3> QED BY <1>3, <3>2 DEF HeaderReadsAs
  <2> QED BY <1>2, <2>2, <2>3, <2>4, PacketRead
<1> QED BY <1>14, <1>15 DEF RecordOf, ReadsAs, IsPacketSent

LEMMA InTimeStep ==
    ASSUME ChecksumTellsPackets
    PROVE  BytesInv /\ HeaderRead /\ RecordInv /\ StepInv /\ ReadingInv /\ FewMissing /\ InTimeInv
             /\ [Next]_vars => InTimeInv'
<1> SUFFICES ASSUME BytesInv, HeaderRead, RecordInv, StepInv, ReadingInv, FewMissing, InTimeInv,
                    [Next]_vars
             PROVE  InTimeInv'
  OBVIOUS
<1>1. Moves /\ packets \in Seq(Kinds)
  BY EveryStepMoves DEF BytesInv
<1>2. PICK len \in Nat : len = Len(accepted)
  BY AcceptedFacts
<1>3. \A m \in 1 .. Len(packets) : packets'[m] = packets[m]
  BY <1>1, AppendProperties DEF Moves, Grows, Loses, Shrinks, Checks
<1>4. ASSUME NEW i \in 1 .. len, accepted'[i] = accepted[i] PROVE InTimeSent(accepted[i])'
  <2>1. PICK packet : packet = accepted[i] /\ packet.of \in 1 .. Len(packets)
    BY <1>2, AcceptedFacts
  <2>2. packets'[packet.of] = packets[packet.of]
    BY <1>3, <2>1
  <2>3. InTimeSent(packet)
    BY <1>2, <2>1 DEF InTimeInv
  <2>4. InTimeSent(packet)'
    BY <2>2, <2>3 DEF InTimeSent, IsPacketSent
  <2> QED BY <1>4, <2>1, <2>4 DEF InTimeSent, IsPacketSent
<1>5. CASE accepted' = accepted
  BY <1>2, <1>4, <1>5 DEF InTimeInv
<1>6. ASSUME packets' = packets, NEW inTime \in BOOLEAN, NEW buffer, NEW n \in Nat,
             Checked(buffer, n, inTime), ChecksumFits(buffer), NEW packet,
             packet = RecordOf(buffer, inTime), accepted' = Append(accepted, packet)
      PROVE  InTimeInv'
  <2>1. /\ Len(accepted') = len + 1 /\ accepted'[len + 1] = packet
        /\ \A j \in 1 .. len : accepted'[j] = accepted[j]
    BY <1>2, <1>6, AcceptedFacts, AppendToSeq DEF IsSeq
  <2>2. ASSUME packet.inTime PROVE packet.inStep /\ IsPacketSent(packet, packet.of)
    <3>1. inTime = TRUE
      BY <1>6, <2>2 DEF RecordOf
    <3> QED BY <1>6, <3>1, CheckedInTime
  <2>3. InTimeSent(packet)'
    BY <1>6, <2>2 DEF InTimeSent, IsPacketSent
  <2>4. ASSUME NEW i \in 1 .. len + 1 PROVE InTimeSent(accepted[i])'
    <3>1. CASE i \in 1 .. len
      BY <1>4, <2>1, <3>1
    <3>2. CASE i = len + 1
      BY <2>1, <2>3, <3>2 DEF InTimeSent, IsPacketSent
    <3> QED BY <3>1, <3>2
  <2> QED BY <2>1, <2>4 DEF InTimeInv
<1>7. CASE Checks
  BY <1>5, <1>6, <1>7 DEF Checks, Checked
<1> QED BY <1>1, <1>5, <1>7 DEF Moves

LEMMA NothingMissing == Init => FewMissing /\ InTimeInv
<1> SUFFICES ASSUME Init PROVE FewMissing /\ InTimeInv
  OBVIOUS
<1>1. Len(accepted) = 0 /\ lost = 0
  BY DEF Init
<1>2. Len(Unread) = 0
  <2>1. UnreadCells
    BY InitBytes, UnreadTypes
  <2>2. pc = "header" /\ Len(fifo) = 0 /\ Len(line) = 0
    BY DEF Init
  <2> QED BY <2>1, <2>2 DEF UnreadCells
<1>3. MissingOf(Unread, packets) = {}
  BY <1>2 DEF MissingOf
<1> QED BY <1>1, <1>3, FS_EmptySet DEF FewMissing, InTimeInv

\* What is accepted with all of its payload is what was sent, and each such packet is accepted
\* once, in order, if the checksum tells packets from what may be read of them when as many
\* bytes are lost (uart_task.c:160-179).  The condition speaks of the checksum, the packets and
\* the bounds alone, never of a state: TLC evaluates it for those of its run, for which it holds.
THEOREM InTimeIsSent == ChecksumTellsPackets => (Spec => []InTimeAsSent)
<1> SUFFICES ASSUME ChecksumTellsPackets PROVE Spec => []InTimeAsSent
  OBVIOUS
<1>1. RecordInv /\ StepInv /\ BytesInv /\ AcceptedInv /\ InTimeInv => InTimeAsSent
  <2> SUFFICES ASSUME RecordInv, StepInv, BytesInv, AcceptedInv, InTimeInv,
                      NEW i \in 1 .. Len(accepted), accepted[i].inTime
               PROVE  /\ IsPacketSent(accepted[i], accepted[i].of)
                      /\ \A j \in 1 .. i - 1 : accepted[j].of < accepted[i].of
    BY DEF InTimeAsSent
  <2>1. accepted[i].inStep /\ IsPacketSent(accepted[i], accepted[i].of)
    BY DEF InTimeInv, InTimeSent
  <2>2. ASSUME NEW j \in 1 .. i - 1 PROVE accepted[j].of < accepted[i].of
    <3>1. j \in 1 .. Len(accepted) /\ j < i
      BY AcceptedFacts
    <3> QED BY <2>1, <3>1 DEF AcceptedInv, InOrder
  <2> QED BY <2>1, <2>2
<1>2. BytesInv /\ HeaderRead /\ RecordInv /\ StepInv /\ ReadingInv /\ FewMissing /\ InTimeInv
             /\ [Next]_vars => InTimeInv'
  BY InTimeStep
<1> QED
  BY <1>1, <1>2, NothingYet, NothingMissing, Initially, Preserved, InitBytes, BytesStep,
     RecordStep, InStepPreserved, InitInStep, StillReading, AcceptedStep, MissingStep,
     PTL DEF Spec

----------------------------------------------------------------------------
(* What is left in the buffer *)

\* What is in the buffer are bytes that were sent, and what was left there by earlier
\* packets is of none that comes after what is still to be read.
LeftInv ==
    \A k \in 1 .. Len(rx_buffer) :
        /\ IsSentByte(rx_buffer[k], packets)
        /\ pc # "payload" \/ k > 5 =>
            \A x \in 1 .. Len(Unread) : rx_buffer[k].of <= Unread[x].of

\* Packets are added to those that were sent.
MorePackets ==
    /\ Len(packets) \in Nat /\ Len(packets') \in Nat /\ Len(packets) <= Len(packets')
    /\ \A m \in 1 .. Len(packets) : packets'[m] = packets[m]

LEMMA StillSent ==
    ASSUME MorePackets, NEW b, IsSentByte(b, packets)
    PROVE  IsSentByte(b, packets')
<1>1. b.of \in 1 .. Len(packets) /\ b.of \in 1 .. Len(packets')
  BY DEF IsSentByte, MorePackets
<1>2. packets'[b.of] = packets[b.of]
  BY <1>1 DEF MorePackets
<1>3. BytesOf(packets', b.of) = BytesOf(packets, b.of)
      /\ ByteOf(packets', b.of, b.at) = ByteOf(packets, b.of, b.at)
  BY <1>2, Zenon DEF BytesOf, ByteOf
<1> QED BY <1>1, <1>3 DEF IsSentByte

\* Nothing later than a byte is read that is later than all that was there to be read.
LEMMA LaterStays ==
    ASSUME MorePackets, NEW b, IsSentByte(b, packets),
           \A x \in 1 .. Len(Unread) : b.of <= Unread[x].of,
           Unread' \in Seq(LineTypes), FromOld(Unread', Unread, Len(packets))
    PROVE  \A x \in 1 .. Len(Unread') : b.of <= Unread'[x].of
<1> SUFFICES ASSUME NEW x \in 1 .. Len(Unread') PROVE b.of <= Unread'[x].of
  OBVIOUS
<1>1. b.of \in Nat /\ b.of <= Len(packets) /\ Len(packets) \in Nat
  BY DEF IsSentByte, MorePackets
<1>2. Unread'[x].of \in Nat
  BY LineFacts
<1>3. CASE Unread'[x].of > Len(packets)
  BY <1>1, <1>2, <1>3
<1>4. CASE \E y \in 1 .. Len(Unread) : Unread'[x] = Unread[y]
  BY <1>4
<1> QED BY <1>3, <1>4 DEF FromOld

LEMMA LeftStays ==
    ASSUME LeftInv, rx_buffer' = rx_buffer, pc = "payload" <=> pc' = "payload", MorePackets,
           Unread' \in Seq(LineTypes), FromOld(Unread', Unread, Len(packets))
    PROVE  LeftInv'
<1>1. ASSUME NEW k \in 1 .. Len(rx_buffer)
      PROVE  /\ IsSentByte(rx_buffer[k], packets')
             /\ pc' # "payload" \/ k > 5 =>
                    \A x \in 1 .. Len(Unread') : rx_buffer[k].of <= Unread'[x].of
  <2>1. IsSentByte(rx_buffer[k], packets) /\ IsSentByte(rx_buffer[k], packets')
    BY StillSent DEF LeftInv
  <2>2. ASSUME pc' # "payload" \/ k > 5
        PROVE  \A x \in 1 .. Len(Unread') : rx_buffer[k].of <= Unread'[x].of
    <3>1. \A x \in 1 .. Len(Unread) : rx_buffer[k].of <= Unread[x].of
      BY <2>2 DEF LeftInv
    <3> QED BY <2>1, <3>1, LaterStays
  <2> QED BY <2>1, <2>2
<1> QED BY <1>1 DEF LeftInv

\* Bytes are read into the buffer.
LEMMA LeftFilled ==
    ASSUME BytesInv, HeaderRead, ReadingInv, LeftInv, MorePackets, packets' = packets,
           NEW buffer, rx_buffer' = buffer, Len(buffer) \in Nat,
           NEW q \in Nat, q <= Len(Unread), Filled(buffer, q), pc = "payload" => q >= 5,
           Unread' \in Seq(LineTypes), FromOld(Unread', Unread, Len(packets)),
           \/ pc' = "payload" /\ q = 5
           \/ pc' # "payload" /\ Behind(Unread', Unread, q)
    PROVE  LeftInv'
<1>1. /\ Unread \in Seq(LineTypes) /\ packets \in Seq(Kinds)
      /\ Genuine(Unread, packets) /\ Ascending(Unread)
  BY UnreadTypes DEF UnreadCells, ReadingInv, Reading, BytesInv
<1>2. PICK m \in Nat : m = Len(Unread) /\ q <= m
  BY <1>1, LenProperties
<1>3. ASSUME NEW k \in 1 .. Len(buffer)
      PROVE  /\ IsSentByte(buffer[k], packets)
             /\ pc' # "payload" \/ k > 5 =>
                    \A x \in 1 .. Len(Unread') : buffer[k].of <= Unread'[x].of
  <2>1. CASE k <= q /\ buffer[k] = Unread[k]
    <3>1. k \in 1 .. m
      BY <1>2, <2>1
    <3>2. IsSentByte(buffer[k], packets)
      BY <1>1, <1>2, <2>1, <3>1, GenuineBytes
    <3>3. ASSUME pc' # "payload" \/ k > 5, NEW x \in 1 .. Len(Unread')
          PROVE  buffer[k].of <= Unread'[x].of
      <4>1. pc' # "payload" /\ Behind(Unread', Unread, q)
        BY <2>1, <3>3
      <4>2. PICK y \in 1 .. m : Unread'[x] = Unread[y] /\ k < y
        <5>1. Len(Unread') = m - q /\ Unread'[x] = Unread[x + q]
          BY <1>2, <4>1 DEF Behind
        <5>2. x + q \in 1 .. m /\ k < x + q
          BY <1>2, <2>1, <3>3, <5>1
        <5> QED BY <5>1, <5>2
      <4>3. Before(Unread[k], Unread[y])
        BY <1>1, <1>2, <3>1, <4>2 DEF Ascending
      <4>4. Unread[k].of \in Nat /\ Unread[y].of \in Nat
        BY <1>1, <1>2, <3>1, <4>2, LineFacts
      <4>5. Unread[k].of <= Unread[y].of
        BY <4>3, <4>4 DEF Before
      <4> QED BY <2>1, <4>2, <4>5
    <3> QED BY <3>2, <3>3
  <2>2. CASE k > q /\ k \in 1 .. Len(rx_buffer) /\ buffer[k] = rx_buffer[k]
    <3>1. IsSentByte(buffer[k], packets)
      BY <2>2 DEF LeftInv
    <3>2. pc # "payload" \/ k > 5
      BY <2>2
    <3>3. \A x \in 1 .. Len(Unread) : buffer[k].of <= Unread[x].of
      BY <2>2, <3>2 DEF LeftInv
    <3>4. \A x \in 1 .. Len(Unread') : buffer[k].of <= Unread'[x].of
      BY <3>1, <3>3, LaterStays
    <3> QED BY <3>1, <3>4
  <2> QED BY <2>1, <2>2 DEF Filled
<1> QED BY <1>3 DEF LeftInv

\* In every step.
LEMMA OnlyLater ==
    ASSUME BytesInv, HeaderRead, [Next]_vars
    PROVE  MorePackets /\ Unread' \in Seq(LineTypes) /\ FromOld(Unread', Unread, Len(packets))
<1>1. /\ Unread \in Seq(LineTypes) /\ Unread' \in Seq(LineTypes) /\ packets \in Seq(Kinds)
      /\ Moves
  <2>1. UnreadCells /\ UnreadCells'
    BY UnreadTypes, UnreadNext, BytesStep
  <2> QED BY <2>1, EveryStepMoves DEF UnreadCells, BytesInv
<1>2. PICK number \in Nat : number = Len(packets)
  BY StreamTypes
<1>3. ASSUME packets' = packets, NEW q \in Nat, Behind(Unread', Unread, q)
      PROVE  MorePackets /\ FromOld(Unread', Unread, number)
  <2>1. FromOld(Unread', Unread, number)
    BY <1>1, <1>3, BehindIsOld
  <2> QED BY <1>2, <1>3, <2>1 DEF MorePackets
<1>4. CASE Grows(Unread, Unread')
  <2>1. PICK kind \in Kinds :
            /\ packets' = Append(packets, kind) /\ Joined(Unread', Unread, Line(kind, number + 1))
    BY <1>2, <1>4 DEF Grows
  <2>2. FromOld(Unread', Unread, number)
    BY <1>1, <2>1, JoinedIsOld
  <2>3. Len(packets') = number + 1 /\ \A m \in 1 .. number : packets'[m] = packets[m]
    BY <1>1, <1>2, <2>1, AppendProperties
  <2>4. number + 1 \in Nat /\ number <= number + 1
    OBVIOUS
  <2> QED BY <1>1, <1>2, <2>2, <2>3, <2>4 DEF MorePackets
<1>5. CASE Loses(Unread, Unread')
  <2>1. PICK p \in 1 .. Len(Unread) : AllBut(Unread', Unread, p) /\ packets' = packets
    BY <1>5 DEF Loses
  <2>2. FromOld(Unread', Unread, number)
    BY <1>1, <2>1, AllButIsOld
  <2> QED BY <1>1, <1>2, <2>1, <2>2 DEF MorePackets
<1>6. CASE Shrinks(Unread, Unread')
  BY <1>1, <1>2, <1>3, <1>6 DEF Shrinks
<1>7. CASE Checks
  <2>1. PICK n \in Nat : Behind(Unread', Unread, n + 5)
    BY <1>7 DEF Checks, Checked
  <2>2. n + 5 \in Nat
    OBVIOUS
  <2> QED BY <1>1, <1>2, <1>3, <1>7, <2>1, <2>2 DEF Checks
<1> QED BY <1>1, <1>4, <1>5, <1>6, <1>7 DEF Moves

\* Bytes are read to the start of the buffer.
LEMMA FilledFromStart ==
    ASSUME BytesInv, HeaderRead, pc = "header", NEW bytes \in Seq(LineTypes),
           \A x \in 1 .. Len(bytes) : bytes[x] = Stream[x],
           NEW buffer, buffer = Overwrite(0, bytes)
    PROVE  Filled(buffer, Len(bytes)) /\ Len(buffer) \in Nat
<1>1. PICK n \in Nat : n = Len(bytes)
  BY LenProperties
<1>2. Unread = Stream
  BY UnreadTypes DEF UnreadCells
<1>3. Overwritten(buffer, 0, bytes)
  <2>1. 0 \in Nat /\ 0 <= Len(rx_buffer)
    BY StreamTypes, LenProperties
  <2> QED BY <2>1, OverwriteCells
<1>4. PICK held \in Nat : held = Len(buffer)
  BY <1>3, LenProperties DEF Overwritten
<1>5. /\ \A x \in 1 .. n : buffer[x + 0] = bytes[x]
      /\ \A x \in 1 .. held : x > 0 + n => x \in 1 .. Len(rx_buffer) /\ buffer[x] = rx_buffer[x]
  BY <1>1, <1>3, <1>4 DEF Overwritten
<1>6. ASSUME NEW k \in 1 .. held
      PROVE  \/ k <= n /\ buffer[k] = Unread[k]
             \/ k > n /\ k \in 1 .. Len(rx_buffer) /\ buffer[k] = rx_buffer[k]
  <2>1. CASE k <= n
    <3>1. k \in 1 .. n /\ k + 0 = k
      BY <2>1
    <3> QED BY <1>1, <1>2, <1>5, <2>1, <3>1
  <2>2. CASE ~(k <= n)
    <3>1. k > 0 + n /\ k > n
      BY <2>2
    <3> QED BY <1>5, <3>1
  <2> QED BY <2>1, <2>2
<1> QED BY <1>1, <1>4, <1>6 DEF Filled

LEMMA LeftStep ==
    BytesInv /\ HeaderRead /\ ReadingInv /\ LeftInv /\ [Next]_vars => LeftInv'
<1> SUFFICES ASSUME BytesInv, HeaderRead, ReadingInv, LeftInv, [Next]_vars PROVE LeftInv'
  OBVIOUS
<1>1. MorePackets /\ Unread' \in Seq(LineTypes) /\ FromOld(Unread', Unread, Len(packets))
  BY OnlyLater
<1>2. BytesInv' /\ HeaderRead'
  BY BytesStep
<1>3. Unread \in Seq(LineTypes) /\ fifo \in Seq(LineTypes)
      /\ Len(fifo) <= Len(Stream) /\ Len(fifo) \in Nat
  BY UnreadTypes, StreamTypes, LenProperties DEF UnreadCells
<1>4. CASE rx_buffer' = rx_buffer /\ (pc = "payload" <=> pc' = "payload")
  BY <1>1, <1>4, LeftStays
<1>5. CASE ReadHeader
  <2>1. /\ pc = "header" /\ pc' = "payload" /\ packets' = packets /\ 5 <= Len(fifo)
        /\ rx_buffer' = Overwrite(0, Taken(5)) /\ fifo' = LeftBy(5) /\ line' = line
    BY <1>5, <1>3 DEF ReadHeader, HeaderSize
  <2>2. /\ 5 <= Len(Stream) /\ Taken(5) \in Seq(LineTypes) /\ Len(Taken(5)) = 5
        /\ \A x \in 1 .. 5 : Taken(5)[x] = Stream[x]
    BY <2>1, ReadStream
  <2>3. PICK buffer : buffer = Overwrite(0, Taken(5))
    OBVIOUS
  <2>4. Filled(buffer, 5) /\ Len(buffer) \in Nat
    BY <2>1, <2>2, <2>3, FilledFromStart
  <2>5. 5 <= Len(Unread)
    BY <2>1, <2>2, UnreadTypes DEF UnreadCells
  <2> QED BY <1>1, <2>1, <2>3, <2>4, <2>5, LeftFilled
<1>6. CASE HeaderTimeout
  <2>1. pc = "header" /\ pc' = "header" /\ packets' = packets /\ rx_buffer' = Overwrite(0, fifo)
    BY <1>6 DEF HeaderTimeout
  <2>2. PICK buffer : buffer = Overwrite(0, fifo)
    OBVIOUS
  <2>3. Filled(buffer, Len(fifo)) /\ Len(buffer) \in Nat
    BY <1>3, <2>1, <2>2, StreamTypes, FilledFromStart
  <2>4. Behind(Unread', Unread, Len(fifo))
    BY <1>2, <1>6, HeaderTimeoutShrinks
  <2>5. Len(fifo) <= Len(Unread)
    BY <1>3, <2>1, UnreadTypes DEF UnreadCells
  <2> QED BY <1>1, <1>3, <2>1, <2>2, <2>3, <2>4, <2>5, LeftFilled
<1>7. ASSUME packets' = packets, NEW inTime \in BOOLEAN, NEW buffer, NEW n \in Nat,
             Checked(buffer, n, inTime)
      PROVE  LeftInv'
  <2>1. /\ buffer \in Seq(LineTypes) /\ pc' # "payload" /\ rx_buffer' = buffer
        /\ Filled(buffer, n + 5) /\ n + 5 <= Len(Unread) /\ Behind(Unread', Unread, n + 5)
    BY <1>7 DEF Checked
  <2>2. n + 5 \in Nat /\ n + 5 >= 5 /\ Len(buffer) \in Nat
    BY <2>1, LenProperties
  <2> QED BY <1>1, <1>7, <2>1, <2>2, LeftFilled
<1>8. CASE ReadPayload \/ PayloadTimeout
  <2>1. Checks
    BY <1>2, <1>8, PayloadChecks
  <2> QED BY <1>7, <2>1 DEF Checks
<1>9. ASSUME NEW kind \in Kinds, ComputerSends(kind) PROVE LeftInv'
  BY <1>4, <1>9 DEF ComputerSends, readVars
<1>10. CASE \/ ByteArrives \/ ByteLost \/ FillHead \/ FillData \/ SendPacket
            \/ PostOther \/ MainHandles \/ UNCHANGED vars
  BY <1>4, <1>10 DEF ByteArrives, ByteLost, FillHead, FillData, SendPacket, PostOther,
                     MainHandles, vars, readVars
<1> QED
  BY <1>5, <1>6, <1>8, <1>9, <1>10 DEF Next, UartRxTask

\* A packet that is completed from what was left is one of those that were sent.
LEMMA CheckedRepeat ==
    ASSUME ChecksumTellsRepeats, BytesInv, HeaderRead, RecordInv, ReadingInv, FewMissing, LeftInv,
           NEW buffer, NEW n \in Nat, NEW inTime \in BOOLEAN, Checked(buffer, n, inTime),
           ChecksumFits(buffer), NEW packet, packet = RecordOf(buffer, inTime), packet.inStep
    PROVE  \E k \in 1 .. packet.of : IsPacketSent(packet, k)
<1>1. PICK m \in Nat, held \in Nat :
        m = Len(Unread) /\ held = Len(buffer) /\ n + 5 <= m /\ n + 5 <= held
  <2>1. Unread \in Seq(LineTypes)
    BY UnreadTypes DEF UnreadCells
  <2> QED BY <2>1, LenProperties DEF Checked
<1>2. /\ buffer \in Seq(LineTypes) /\ Unread \in Seq(LineTypes) /\ packets \in Seq(Kinds)
      /\ Genuine(Unread, packets) /\ Filled(buffer, n + 5)
      /\ \A x \in 1 .. n + 5 : buffer[x] = Unread[x]
      /\ n <= Size(buffer) + 1 /\ pc = "payload"
  BY UnreadTypes DEF UnreadCells, Checked, ReadingInv, Reading, BytesInv
<1>3. PICK size \in Nat : size = Size(buffer) /\ n <= size + 1 /\ size = buffer[5].value
  <2>1. Size(buffer) \in Byte
    BY CellTypes DEF Checked
  <2>2. Size(buffer) \in Nat
    BY <2>1 DEF Byte
  <2>3. 4 < Len(buffer)
    BY <1>1
  <2>4. Size(buffer) = buffer[5].value
    BY <2>3 DEF Size, Cell
  <2> QED BY <1>2, <2>2, <2>4
<1>4. \A x \in 1 .. 5 : buffer[x] = Unread[x] /\ x \in 1 .. m
  BY <1>1, <1>2
<1>5. SizeIn(Unread) = size
  <2>1. 5 \in 1 .. 5
    OBVIOUS
  <2> QED BY <1>3, <1>4, <2>1 DEF SizeIn, HeaderSize
<1>6. PICK of \in 1 .. Len(packets) : of = Unread[5].of /\ of = packet.of
  <2>1. 5 \in 1 .. m /\ packet.of = Unread[5].of
    BY <1>1, CheckedPacket
  <2> QED BY <1>1, <1>2, <2>1 DEF Genuine
<1>7. InStep(Unread)
  <2>1. packet.inStep = InStep(buffer)
    BY DEF RecordOf
  <2>2. \A k \in 3 .. 5 : buffer[k].of = buffer[5].of /\ buffer[k].at = k
    BY <2>1 DEF InStep, HeaderSize
  <2>3. ASSUME NEW k \in 3 .. 5 PROVE Unread[k].of = Unread[5].of /\ Unread[k].at = k
    <3>1. k \in 1 .. 5 /\ 5 \in 1 .. 5
      OBVIOUS
    <3> QED BY <1>4, <2>2, <3>1
  <2> QED BY <2>3 DEF InStep, HeaderSize
<1>8. PICK left : left = [k \in 5 + n + 1 .. 5 + size + 1 |-> Cell(buffer, k - 1)]
  OBVIOUS
<1>9. left \in [5 + n + 1 .. 5 + size + 1 -> LeftOver(packets, of)]
  <2>1. ASSUME NEW k \in 5 + n + 1 .. 5 + size + 1
        PROVE  Cell(buffer, k - 1) \in LeftOver(packets, of)
    <3>1. CASE k <= held
      <4>1. k \in 1 .. held /\ k - 1 < held /\ k - 1 + 1 = k /\ ~(k <= n + 5) /\ k > 5
        BY <2>1, <3>1
      <4>2. k \in 1 .. Len(rx_buffer) /\ buffer[k] = rx_buffer[k]
        BY <1>1, <1>2, <4>1 DEF Filled
      <4>3. IsSentByte(buffer[k], packets) /\ \A x \in 1 .. m : buffer[k].of <= Unread[x].of
        BY <1>1, <4>1, <4>2 DEF LeftInv
      <4>4. buffer[k].of <= of
        <5>1. 5 \in 1 .. m
          BY <1>1
        <5> QED BY <1>6, <4>3, <5>1
      <4>5. buffer[k] \in AllBytes(packets)
        BY <4>3 DEF IsSentByte, AllBytes
      <4>6. Cell(buffer, k - 1) = buffer[k].value
        BY <1>1, <4>1 DEF Cell
      <4> QED BY <4>4, <4>5, <4>6, Zenon DEF LeftOver
    <3>2. CASE ~(k <= held)
      <4>1. ~(k - 1 < held)
        BY <3>2
      <4>2. Cell(buffer, k - 1) = heap
        BY <1>1, <4>1 DEF Cell
      <4>3. heap \in Heap
        BY DEF RecordInv
      <4> QED BY <4>2, <4>3 DEF LeftOver
    <3> QED BY <3>1, <3>2
  <2> QED BY <1>8, <2>1
<1>10. PICK values : values = CompletedWith(Unread, n, left)
  OBVIOUS
<1>11. ASSUME NEW k \in 0 .. size + 5 PROVE Cell(buffer, k) = values[k + 1]
  <2>1. k + 1 \in 1 .. 5 + size + 1 /\ k + 1 - 1 = k
    OBVIOUS
  <2>2. values[k + 1] = IF k + 1 <= 5 + n THEN Unread[k + 1].value ELSE left[k + 1]
    BY <1>5, <1>10, <2>1 DEF CompletedWith, HeaderSize
  <2>3. CASE k + 1 <= 5 + n
    <3>1. k < held /\ k + 1 \in 1 .. n + 5
      BY <1>1, <2>3
    <3> QED BY <1>1, <1>2, <2>2, <2>3, <3>1 DEF Cell
  <2>4. CASE ~(k + 1 <= 5 + n)
    <3>1. k + 1 \in 5 + n + 1 .. 5 + size + 1
      BY <2>4
    <3>2. left[k + 1] = Cell(buffer, k)
      BY <1>8, <2>1, <3>1
    <3> QED BY <2>2, <2>4, <3>2
  <2> QED BY <2>3, <2>4
<1>12. Fits(values)
  <2>1. values[5] = size
    <3>1. 4 \in 0 .. size + 5 /\ 4 + 1 = 5
      OBVIOUS
    <3> QED BY <1>3, <1>11, <3>1 DEF Size
  <2> QED BY <1>3, <1>11, <2>1, ValuesFit
<1>13. packets \in Sendings /\ Unread \in Readings(packets)
  <2>1. 1 <= Len(Unread)
    BY <1>1
  <2> QED BY <2>1, IsReading
<1>14. PICK k \in 1 .. of :
        /\ packets[k].iden = packets[of].iden
        /\ packets[k].data = [x \in 1 .. SizeIn(Unread) |-> values[5 + x]]
  <2>1. Len(Unread) >= 5 /\ n \in 0 .. SizeIn(Unread) + 1 /\ 5 + n <= Len(Unread)
    BY <1>1, <1>3, <1>5
  <2>2. left \in [5 + n + 1 .. 5 + SizeIn(Unread) + 1 -> LeftOver(packets, Unread[5].of)]
    BY <1>5, <1>6, <1>9
  <2>3. PICK came \in 0 .. SizeIn(Unread) + 1 : came = n /\ 5 + came <= Len(Unread)
    BY <2>1
  <2>4. \A rest \in [5 + came + 1 .. 5 + SizeIn(Unread) + 1 -> LeftOver(packets, Unread[5].of)] :
            Fits(CompletedWith(Unread, came, rest)) =>
                \E k \in 1 .. Unread[5].of :
                    /\ packets[k].iden = packets[Unread[5].of].iden
                    /\ packets[k].data
                        = [x \in 1 .. SizeIn(Unread) |-> CompletedWith(Unread, came, rest)[5 + x]]
    BY <1>7, <1>13, <2>1, <2>3 DEF ChecksumTellsRepeats, HeaderSize
  <2>5. left \in [5 + came + 1 .. 5 + SizeIn(Unread) + 1 -> LeftOver(packets, Unread[5].of)]
    BY <2>2, <2>3
  <2>6. Fits(CompletedWith(Unread, came, left)) /\ values = CompletedWith(Unread, came, left)
    BY <1>10, <1>12, <2>3
  <2> QED BY <1>6, <2>4, <2>5, <2>6
<1>15. packet.iden = packets[of].iden
  <2>1. IsRequest(packet)
    BY CheckedPacket
  <2> QED BY <1>6, <2>1 DEF IsRequest
<1>16. packet.data = [x \in 1 .. size |-> values[5 + x]]
  <2>1. packet.data = Data(buffer)
    BY DEF RecordOf
  <2>2. Data(buffer) = [x \in 1 .. size |-> Cell(buffer, 5 + x - 1)]
    BY <1>3 DEF Data, HeaderSize
  <2>3. ASSUME NEW x \in 1 .. size PROVE Cell(buffer, 5 + x - 1) = values[5 + x]
    <3>1. 5 + x - 1 \in 0 .. size + 5 /\ 5 + x - 1 + 1 = 5 + x
      OBVIOUS
    <3> QED BY <1>11, <3>1
  <2> QED BY <2>1, <2>2, <2>3
<1> QED BY <1>5, <1>6, <1>14, <1>15, <1>16 DEF IsPacketSent

\* A packet that begins where a header was looked for is one of those that were sent.
Repeats(packet) == packet.inStep => \E k \in 1 .. packet.of : IsPacketSent(packet, k)

LEMMA RepeatsStep ==
    ASSUME ChecksumTellsRepeats
    PROVE  BytesInv /\ HeaderRead /\ RecordInv /\ StepInv /\ ReadingInv /\ FewMissing /\ LeftInv
             /\ LateIsARepeat /\ [Next]_vars => LateIsARepeat'
<1> SUFFICES ASSUME BytesInv, HeaderRead, RecordInv, StepInv, ReadingInv, FewMissing, LeftInv,
                    LateIsARepeat, [Next]_vars
             PROVE  LateIsARepeat'
  OBVIOUS
<1>1. Moves /\ MorePackets
  BY EveryStepMoves, OnlyLater
<1>2. PICK len \in Nat : len = Len(accepted)
  BY AcceptedFacts
<1>3. ASSUME NEW packet, packet.of \in 1 .. Len(packets), Repeats(packet)
      PROVE  Repeats(packet)'
  <2>1. \A k \in 1 .. packet.of : packets'[k] = packets[k]
    <3>1. packet.of \in Nat /\ packet.of <= Len(packets) /\ Len(packets) \in Nat
      BY <1>1, <1>3 DEF MorePackets
    <3>2. \A k \in 1 .. packet.of : k \in 1 .. Len(packets)
      BY <3>1
    <3> QED BY <1>1, <3>2 DEF MorePackets
  <2> QED BY <1>3, <2>1 DEF Repeats, IsPacketSent
<1>4. ASSUME NEW i \in 1 .. len PROVE Repeats(accepted[i]) /\ accepted[i].of \in 1 .. Len(packets)
  BY <1>2, AcceptedFacts DEF LateIsARepeat, Repeats
<1>5. ASSUME NEW i \in 1 .. len, accepted'[i] = accepted[i] PROVE Repeats(accepted[i])'
  <2>1. PICK packet : packet = accepted[i]
    OBVIOUS
  <2>2. Repeats(packet)'
    BY <1>3, <1>4, <2>1
  <2> QED BY <1>5, <2>1, <2>2 DEF Repeats, IsPacketSent
<1>6. CASE accepted' = accepted
  BY <1>2, <1>5, <1>6 DEF LateIsARepeat, Repeats
<1>7. ASSUME NEW inTime \in BOOLEAN, NEW buffer, NEW n \in Nat, Checked(buffer, n, inTime),
             ChecksumFits(buffer), NEW packet, packet = RecordOf(buffer, inTime),
             packets' = packets, accepted' = Append(accepted, packet)
      PROVE  LateIsARepeat'
  <2>1. /\ Len(accepted') = len + 1 /\ accepted'[len + 1] = packet
        /\ \A j \in 1 .. len : accepted'[j] = accepted[j]
    BY <1>2, <1>7, AcceptedFacts, AppendToSeq DEF IsSeq
  <2>2. Repeats(packet)
    BY <1>7, CheckedRepeat DEF Repeats
  <2>3. Repeats(packet)'
    BY <1>7, <2>2 DEF Repeats, IsPacketSent
  <2>4. ASSUME NEW i \in 1 .. len + 1 PROVE Repeats(accepted[i])'
    <3>1. CASE i \in 1 .. len
      BY <1>5, <2>1, <3>1
    <3>2. CASE i = len + 1
      BY <2>1, <2>3, <3>2 DEF Repeats, IsPacketSent
    <3> QED BY <3>1, <3>2
  <2> QED BY <2>1, <2>4 DEF LateIsARepeat, Repeats
<1>8. CASE Checks
  BY <1>6, <1>7, <1>8 DEF Checks, Checked
<1> QED BY <1>1, <1>6, <1>8 DEF Moves

LEMMA NoneLeft == Init => LeftInv /\ LateIsARepeat
<1>1. Init => Len(rx_buffer) = 0 /\ Len(accepted) = 0
  BY DEF Init
<1>2. Init => LeftInv
  BY <1>1 DEF LeftInv
<1>3. Init => LateIsARepeat
  BY <1>1 DEF LateIsARepeat
<1> QED BY <1>2, <1>3

\* A packet that is completed from what earlier ones left in the buffer is one of those that
\* were sent, if the checksum tells it from all else that may be left there (uart_task.c:169).
\* This condition too is one that TLC evaluates for the packets of its run.
THEOREM LateIsAlwaysARepeat == ChecksumTellsRepeats => (Spec => []LateIsARepeat)
<1> SUFFICES ASSUME ChecksumTellsRepeats PROVE Spec => []LateIsARepeat
  OBVIOUS
<1>1. BytesInv /\ HeaderRead /\ RecordInv /\ StepInv /\ ReadingInv /\ FewMissing /\ LeftInv
        /\ LateIsARepeat /\ [Next]_vars => LateIsARepeat'
  BY RepeatsStep
<1> QED
  BY <1>1, NothingYet, Initially, Preserved, InitBytes, BytesStep, RecordStep, InStepPreserved,
     InitInStep, StillReading, NothingMissing, MissingStep, NoneLeft, LeftStep, PTL DEF Spec
=============================================================================
