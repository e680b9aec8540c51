-------------------------- MODULE VanReceiveProofs --------------------------
(***************************************************************************)
(* What VanReceive does for every size of its ring and queues.  Although   *)
(* it may find another frame's symbols than it was sent for, it never goes *)
(* back to an older frame: every part of the symbol buffer only ever       *)
(* becomes newer.                                                          *)
(*                                                                         *)
(* A frame is forwarded a second time only in place of one whose symbols it*)
(* has overwritten: if an event of a valid frame was parsed as a later one,*)
(* that later frame had come over it.                                      *)
(*                                                                         *)
(* What is sent to main_task survives a number of lost packets.  Each      *)
(* packet sent since is in the queue behind it or was lost, and each       *)
(* brought the index of the ring one buffer closer; but the buffer at the  *)
(* index counts as overwritten already, as van_rmt_task may be writing it. *)
(***************************************************************************)
EXTENDS VanReceive, TLAPS

\* Each event received was sent for a frame of its own.
Pending == IF pc = "parse" THEN 1 ELSE 0
Counted == Len(parsed) + Pending + Len(receive_queue) <= Len(frames)

\* The symbols an event points to are those of its frame or of a later one.
NotOlder(data) ==
    /\ data.frame <= Len(frames)
    /\ \A p \in 1 .. data.num_symbols : rmt_symbol_buffer[p] >= data.frame

\* What has been decoded is as new as the event, and not newer than the buffer.
Decoded ==
    /\ pc = "parse" => rx_data \in Received
    /\ \A p \in 1 .. Len(temp_array) :
        /\ temp_array[p] \in rx_data.frame .. Len(frames)
        /\ temp_array[p] <= rmt_symbol_buffer[p]

\* Everything forwarded so far is not newer than what will be decoded next.
Bound == IF temp_array = <<>> \/ pc # "parse" THEN rmt_symbol_buffer[1] ELSE temp_array[1]
InOrder == \A i \in 1 .. Len(parsed) : parsed[i].as <= Bound

\* A packet being written has been parsed and is not counted as sent.
Writing == pc \in {"data", "send"} => sent + 1 <= Len(parsed)

\* The inductive invariant.
Inv ==
    /\ TypeOK
    /\ Counted
    /\ \A i \in 1 .. Len(receive_queue) : NotOlder(receive_queue[i])
    /\ NotOlder(rx_data)
    /\ Decoded
    /\ InOrder
    /\ NeverOlder
    /\ Writing

----------------------------------------------------------------------------
(* Lemmas about the state *)

LEMMA StateFacts ==
    ASSUME TypeOK
    PROVE  /\ BuffersNum \in Nat \ {0} /\ MaxParts \in Nat \ {0} /\ MaxFrames \in Nat
           /\ Len(frames) \in Nat /\ Len(parsed) \in Nat /\ Len(receive_queue) \in Nat
           /\ Len(temp_array) \in Nat
           /\ packet_num \in 0 .. BuffersNum - 1 /\ sent \in Nat /\ dropped \in Nat
           /\ \A p \in 1 .. MaxParts : rmt_symbol_buffer[p] \in 0 .. Len(frames)
BY BuffersNumAssumption, BoundsAssumption DEF TypeOK, Buffers

\* An event's number of symbols is a number of parts.
LEMMA DataFacts ==
    ASSUME NEW data \in Received \union {NoData}
    PROVE  /\ data.frame \in Nat /\ data.num_symbols \in Nat
           /\ 1 .. data.num_symbols \subseteq 1 .. MaxParts
<1>1. CASE data \in Received
  BY <1>1, BoundsAssumption DEF Received
<1>2. CASE data = NoData
  BY <1>2, BoundsAssumption DEF NoData
<1> QED
  BY <1>1, <1>2

LEMMA First ==
    ASSUME NEW S, NEW s \in Seq(S), s # <<>>
    PROVE  1 \in 1 .. Len(s) /\ s[1] \in S
OBVIOUS

LEMMA FirstPart ==
    ASSUME TypeOK, temp_array # <<>>
    PROVE  1 \in 1 .. Len(temp_array) /\ temp_array[1] \in 1 .. MaxFrames
<1>1. temp_array \in Seq(1 .. MaxFrames)
  BY DEF TypeOK
<1> QED
  BY <1>1, First

LEMMA ParsedFacts ==
    ASSUME TypeOK, NEW i \in 1 .. Len(parsed)
    PROVE  parsed[i].as \in Nat /\ parsed[i].frame \in Nat
<1>1. parsed[i] \in Outcomes
  BY DEF TypeOK
<1> QED
  BY <1>1 DEF Outcomes

LEMMA InitInv == Init => Inv
<1> SUFFICES ASSUME Init PROVE Inv
  OBVIOUS
<1>1. TypeOK
  <2>1. packet_num \in Buffers /\ van_packets \in [Buffers -> [head : 0 .. 0, data : 0 .. 0]]
    BY BuffersNumAssumption DEF Init, Buffers
  <2>2. rmt_symbol_buffer \in [1 .. MaxParts -> 0 .. Len(frames)]
    BY DEF Init
  <2>3. rx_data \in Received \union {NoData} /\ held \in Events
    BY DEF Init, Events
  <2> QED
    BY <2>1, <2>2, <2>3, QueueLenAssumption, ReceiveQueueLenAssumption, BoundsAssumption
       DEF Init, TypeOK, NoData
<1>2. Counted
  BY DEF Init, Counted, Pending
<1>3. NotOlder(rx_data) /\ Decoded /\ Writing
  BY DEF Init, NotOlder, Decoded, NoData, Writing
<1>4. InOrder /\ NeverOlder /\ receive_queue = <<>>
  BY DEF Init, InOrder, NeverOlder
<1> QED
  BY <1>1, <1>2, <1>3, <1>4 DEF Inv

----------------------------------------------------------------------------
(* The interrupt *)

\* A frame that ends makes no part of the buffer older.
LEMMA FrameEndsInv ==
    ASSUME Inv, NEW frame \in Kinds, FrameEnds(frame)
    PROVE  Inv'
<1>1. TypeOK /\ Counted /\ NotOlder(rx_data) /\ Decoded /\ InOrder /\ NeverOlder /\ Writing
  BY DEF Inv
<1>2. /\ MaxParts \in Nat \ {0} /\ MaxFrames \in Nat
      /\ Len(frames) \in Nat /\ Len(parsed) \in Nat /\ Len(receive_queue) \in Nat
      /\ Len(temp_array) \in Nat
      /\ \A p \in 1 .. MaxParts : rmt_symbol_buffer[p] \in 0 .. Len(frames)
  BY <1>1, StateFacts
<1>3. frame.parts \in 1 .. MaxParts
  BY KindsAssumption
<1>4. PICK number \in 1 .. MaxFrames : number = Len(frames) + 1
  BY <1>2 DEF FrameEnds
<1>5. frames' \in Seq(Kinds) /\ Len(frames') = number
  BY <1>1, <1>4 DEF FrameEnds, TypeOK
<1>6. UNCHANGED <<pc, rx_data, temp_array, parsed, ringVars, mainVars>>
  BY DEF FrameEnds, taskVars
<1>7. rmt_symbol_buffer' = [p \in 1 .. MaxParts |->
                               IF p <= frame.parts THEN number ELSE rmt_symbol_buffer[p]]
  BY <1>4 DEF FrameEnds
<1>8. \A p \in 1 .. MaxParts :
        /\ rmt_symbol_buffer'[p] \in 0 .. number
        /\ rmt_symbol_buffer'[p] >= rmt_symbol_buffer[p]
        /\ p <= frame.parts => rmt_symbol_buffer'[p] = number
  BY <1>2, <1>4, <1>7
<1>9. PICK data \in Received : data = [frame |-> number, num_symbols |-> frame.parts]
  BY <1>3 DEF Received
<1>10. receive_queue' = SendToBack(receive_queue, data, ReceiveQueueLen)
  BY <1>4, <1>9 DEF FrameEnds
<1>11. \/ receive_queue' = receive_queue
       \/ Len(receive_queue) < ReceiveQueueLen /\ receive_queue' = Append(receive_queue, data)
  BY <1>2, <1>10, ReceiveQueueLenAssumption DEF SendToBack, IsFull
<1>12. receive_queue \in Seq(Received) /\ Len(receive_queue) <= ReceiveQueueLen
  BY <1>1 DEF TypeOK
<1>13. /\ receive_queue' \in Seq(Received) /\ Len(receive_queue') <= ReceiveQueueLen
       /\ Len(receive_queue') <= Len(receive_queue) + 1
       /\ \A i \in 1 .. Len(receive_queue') :
            receive_queue'[i] = data \/ (i \in 1 .. Len(receive_queue) /\ receive_queue'[i] = receive_queue[i])
  BY <1>11, <1>12, ReceiveQueueLenAssumption
<1>14. TypeOK'
  <2>1. rmt_symbol_buffer' \in [1 .. MaxParts -> 0 .. Len(frames')]
    BY <1>5, <1>7, <1>8
  <2>2. Len(frames') <= MaxFrames
    BY <1>4, <1>5
  <2> QED
    BY <1>1, <1>5, <1>6, <1>13, <2>1, <2>2 DEF TypeOK, ringVars, mainVars
<1>15. Counted'
  BY <1>1, <1>2, <1>4, <1>5, <1>6, <1>13 DEF Counted, Pending
<1>16. ASSUME NEW d \in Received \union {NoData}, NotOlder(d) PROVE NotOlder(d)'
  <2>1. d.frame \in Nat /\ 1 .. d.num_symbols \subseteq 1 .. MaxParts
    BY DataFacts
  <2>2. d.frame <= Len(frames')
    BY <1>2, <1>4, <1>5, <1>16, <2>1 DEF NotOlder
  <2>3. ASSUME NEW p \in 1 .. d.num_symbols PROVE rmt_symbol_buffer'[p] >= d.frame
    <3>1. p \in 1 .. MaxParts /\ rmt_symbol_buffer[p] >= d.frame
      BY <1>16, <2>1 DEF NotOlder
    <3> QED
      BY <1>2, <1>8, <2>1, <3>1
  <2> QED
    BY <2>2, <2>3 DEF NotOlder
<1>17. NotOlder(data)'
  <2>1. data.frame = number /\ data.num_symbols = frame.parts
    BY <1>9
  <2>2. \A p \in 1 .. frame.parts : rmt_symbol_buffer'[p] >= number
    BY <1>2, <1>3, <1>4, <1>8
  <2> QED
    BY <1>2, <1>4, <1>5, <2>1, <2>2 DEF NotOlder
<1>18. \A i \in 1 .. Len(receive_queue') : NotOlder(receive_queue[i])'
  <2> SUFFICES ASSUME NEW i \in 1 .. Len(receive_queue') PROVE NotOlder(receive_queue[i])'
    OBVIOUS
  <2>1. CASE receive_queue'[i] = data
    BY <1>17, <2>1 DEF NotOlder
  <2>2. CASE i \in 1 .. Len(receive_queue) /\ receive_queue'[i] = receive_queue[i]
    <3>1. receive_queue[i] \in Received /\ NotOlder(receive_queue[i])
      BY <1>12, <2>2 DEF Inv
    <3>2. PICK d \in Received : d = receive_queue[i]
      BY <3>1
    <3>3. NotOlder(d)'
      BY <1>16, <3>1, <3>2
    <3> QED
      BY <2>2, <3>2, <3>3 DEF NotOlder
  <2> QED
    BY <1>13, <2>1, <2>2
<1>19. NotOlder(rx_data)'
  <2>1. PICK d \in Received \union {NoData} : d = rx_data
    BY <1>1 DEF TypeOK
  <2>2. NotOlder(d)'
    BY <1>1, <1>16, <2>1
  <2> QED
    BY <1>6, <2>1, <2>2 DEF NotOlder
<1>20. Decoded'
  <2>1. pc' = "parse" => rx_data' \in Received
    BY <1>1, <1>6 DEF Decoded
  <2>2. ASSUME NEW p \in 1 .. Len(temp_array)
        PROVE  temp_array[p] \in rx_data.frame .. number /\ temp_array[p] <= rmt_symbol_buffer'[p]
    <3>1. temp_array[p] \in rx_data.frame .. Len(frames) /\ temp_array[p] <= rmt_symbol_buffer[p]
      BY <1>1 DEF Decoded
    <3>2. rx_data.frame \in Nat /\ Len(temp_array) <= rx_data.num_symbols /\ rx_data.num_symbols \in Nat
          /\ 1 .. rx_data.num_symbols \subseteq 1 .. MaxParts
      BY <1>1, DataFacts DEF TypeOK
    <3>3. p \in 1 .. MaxParts
      BY <1>2, <3>2
    <3> QED
      BY <1>2, <1>4, <1>8, <3>1, <3>2, <3>3
  <2> QED
    BY <1>5, <1>6, <2>1, <2>2 DEF Decoded
<1>21. InOrder'
  <2>1. Bound \in Nat /\ Bound' >= Bound /\ Bound' \in Nat
    <3>1. 1 \in 1 .. MaxParts
      BY <1>2
    <3>2. CASE temp_array = <<>> \/ pc # "parse"
      BY <1>2, <1>4, <1>6, <1>8, <3>1, <3>2 DEF Bound
    <3>3. CASE ~(temp_array = <<>> \/ pc # "parse")
      <4>1. temp_array[1] \in Nat
        BY <1>1, <3>3, FirstPart
      <4> QED
        BY <1>6, <3>3, <4>1 DEF Bound
    <3> QED
      BY <3>2, <3>3
  <2>2. \A i \in 1 .. Len(parsed) : parsed[i].as \in Nat
    BY <1>1, ParsedFacts
  <2> QED
    BY <1>1, <1>6, <2>1, <2>2 DEF InOrder
<1>22. NeverOlder' /\ Writing'
  BY <1>1, <1>6 DEF NeverOlder, Writing, ringVars
<1> QED
  BY <1>14, <1>15, <1>18, <1>19, <1>20, <1>21, <1>22 DEF Inv

----------------------------------------------------------------------------
(* van_rmt_task *)

\* Taking an event resets the decoder and changes no symbol.
LEMMA ReceiveInv == ASSUME Inv, Receive PROVE Inv'
<1>1. TypeOK /\ Counted /\ NotOlder(rx_data) /\ Decoded /\ InOrder /\ NeverOlder /\ Writing
  BY DEF Inv
<1>2. receive_queue \in Seq(Received) /\ receive_queue # <<>> /\ Len(receive_queue) \in Nat \ {0}
      /\ Len(receive_queue) <= ReceiveQueueLen /\ ReceiveQueueLen \in Nat
  BY <1>1, ReceiveQueueLenAssumption DEF TypeOK, Receive
<1>3. UNCHANGED <<rmt_symbol_buffer, frames, parsed, ringVars, mainVars>>
  BY DEF Receive
<1>4. /\ pc = "receive" /\ pc' = "parse" /\ temp_array' = <<>>
      /\ rx_data' = receive_queue[1] /\ receive_queue' = Tail(receive_queue)
  BY <1>2 DEF Receive, ClearedArray
<1>5. /\ rx_data' \in Received /\ receive_queue' \in Seq(Received)
      /\ Len(receive_queue') = Len(receive_queue) - 1
      /\ \A i \in 1 .. Len(receive_queue') :
           i + 1 \in 1 .. Len(receive_queue) /\ receive_queue'[i] = receive_queue[i + 1]
  BY <1>2, <1>4
<1>6. TypeOK'
  <2>1. temp_array' \in Seq(1 .. MaxFrames) /\ Len(temp_array') = 0
    BY <1>4
  <2>2. rx_data' \in Received \union {NoData} /\ 0 <= rx_data'.num_symbols
    BY <1>5, DataFacts
  <2> QED
    BY <1>1, <1>2, <1>3, <1>4, <1>5, <2>1, <2>2 DEF TypeOK, ringVars, mainVars
<1>7. Counted'
  <2>1. Len(parsed) \in Nat /\ Len(frames) \in Nat
    BY <1>1, StateFacts
  <2> QED
    BY <1>1, <1>2, <1>3, <1>4, <1>5, <2>1 DEF Counted, Pending
<1>8. \A i \in 1 .. Len(receive_queue') : NotOlder(receive_queue[i])'
  <2> SUFFICES ASSUME NEW i \in 1 .. Len(receive_queue') PROVE NotOlder(receive_queue[i])'
    OBVIOUS
  <2>1. NotOlder(receive_queue[i + 1])
    BY <1>5 DEF Inv
  <2> QED
    BY <1>3, <1>5, <2>1 DEF NotOlder
<1>9. NotOlder(rx_data)'
  <2>1. NotOlder(receive_queue[1])
    BY <1>2 DEF Inv
  <2> QED
    BY <1>3, <1>4, <2>1 DEF NotOlder
<1>10. Decoded'
  BY <1>4, <1>5 DEF Decoded
<1>11. InOrder'
  BY <1>1, <1>3, <1>4 DEF InOrder, Bound
<1>12. NeverOlder' /\ Writing'
  BY <1>1, <1>3, <1>4 DEF NeverOlder, Writing
<1> QED
  BY <1>6, <1>7, <1>8, <1>9, <1>10, <1>11, <1>12 DEF Inv

\* The next part is as new as the event, and is what the buffer holds now.
LEMMA ParseSymbolsInv == ASSUME Inv, ParseSymbols PROVE Inv'
<1>1. TypeOK /\ Counted /\ NotOlder(rx_data) /\ Decoded /\ InOrder /\ NeverOlder /\ Writing
  BY DEF Inv
<1>2. /\ rx_data \in Received
      /\ temp_array \in Seq(1 .. MaxFrames) /\ Len(temp_array) \in Nat
      /\ Len(temp_array) < rx_data.num_symbols
      /\ Len(frames) \in Nat /\ Len(frames) <= MaxFrames /\ MaxFrames \in Nat
  BY <1>1, StateFacts DEF Decoded, ParseSymbols, TypeOK
<1>3. rx_data.frame \in 1 .. MaxFrames /\ rx_data.num_symbols \in 1 .. MaxParts /\ MaxParts \in Nat
  BY <1>2, BoundsAssumption DEF Received
<1>4. PICK p \in 1 .. MaxParts : p = Len(temp_array) + 1
  BY <1>2, <1>3
<1>5. PICK part \in 1 .. MaxFrames : part = rmt_symbol_buffer[p] /\ part \in rx_data.frame .. Len(frames)
  <2>1. rmt_symbol_buffer[p] \in 0 .. Len(frames)
    BY <1>1, StateFacts
  <2>2. rmt_symbol_buffer[p] >= rx_data.frame
    BY <1>1, <1>2, <1>3, <1>4 DEF NotOlder
  <2> QED
    BY <1>2, <1>3, <2>1, <2>2
<1>6. temp_array' = Append(temp_array, part)
  BY <1>4, <1>5 DEF ParseSymbols
<1>7. UNCHANGED <<rmt_symbol_buffer, receive_queue, frames, pc, rx_data, parsed, ringVars, mainVars>>
  BY DEF ParseSymbols, busVars
<1>8. /\ temp_array' \in Seq(1 .. MaxFrames) /\ Len(temp_array') = p
      /\ \A q \in 1 .. Len(temp_array') :
           \/ q = p /\ temp_array'[q] = part
           \/ q \in 1 .. Len(temp_array) /\ temp_array'[q] = temp_array[q]
  BY <1>2, <1>4, <1>6
<1>9. TypeOK'
  <2>1. Len(temp_array') <= rx_data'.num_symbols
    BY <1>2, <1>3, <1>4, <1>7, <1>8
  <2> QED
    BY <1>1, <1>7, <1>8, <2>1 DEF TypeOK, ringVars, mainVars
<1>10. Counted' /\ NotOlder(rx_data)' /\ NeverOlder' /\ Writing'
  BY <1>1, <1>7 DEF Counted, Pending, NotOlder, NeverOlder, Writing, ringVars
<1>11. \A i \in 1 .. Len(receive_queue') : NotOlder(receive_queue[i])'
  BY <1>7 DEF Inv, NotOlder
<1>12. Decoded'
  <2> SUFFICES ASSUME NEW q \in 1 .. Len(temp_array')
               PROVE  /\ temp_array'[q] \in rx_data.frame .. Len(frames)
                      /\ temp_array'[q] <= rmt_symbol_buffer[q]
    BY <1>2, <1>7 DEF Decoded
  <2>1. CASE q = p /\ temp_array'[q] = part
    BY <1>5, <2>1
  <2>2. CASE q \in 1 .. Len(temp_array) /\ temp_array'[q] = temp_array[q]
    BY <1>1, <2>2 DEF Decoded
  <2> QED
    BY <1>8, <2>1, <2>2
<1>13. InOrder'
  <2>1. Bound' = Bound
    <3>1. CASE temp_array = <<>>
      <4>1. p = 1 /\ temp_array'[1] = part /\ temp_array' # <<>>
        BY <1>4, <1>8, <3>1
      <4>2. pc' = pc /\ pc = "parse"
        BY <1>7 DEF ParseSymbols
      <4> QED
        BY <1>5, <3>1, <4>1, <4>2 DEF Bound
    <3>2. CASE temp_array # <<>>
      <4>1. 1 \in 1 .. Len(temp_array)
        BY <1>1, <3>2, FirstPart
      <4>2. temp_array'[1] = temp_array[1] /\ temp_array' # <<>>
        BY <1>2, <1>6, <4>1
      <4> QED
        BY <1>7, <3>2, <4>2 DEF Bound
    <3> QED
      BY <3>1, <3>2
  <2> QED
    BY <1>1, <1>7, <2>1 DEF InOrder
<1> QED
  BY <1>9, <1>10, <1>11, <1>12, <1>13 DEF Inv

\* Parsing one more event makes room for the number of one more packet.
LEMMA PacketsTypes ==
    ASSUME NEW n \in Nat, NEW m \in Nat, n <= m,
           NEW packets \in [Buffers -> [head : 0 .. n, data : 0 .. n]],
           NEW b \in Buffers, NEW seq \in 0 .. m
    PROVE  /\ packets \in [Buffers -> [head : 0 .. m, data : 0 .. m]]
           /\ [packets EXCEPT ![b].head = seq] \in [Buffers -> [head : 0 .. m, data : 0 .. m]]
           /\ [packets EXCEPT ![b].data = seq] \in [Buffers -> [head : 0 .. m, data : 0 .. m]]
<1>1. 0 .. n \subseteq 0 .. m
  OBVIOUS
<1>2. packets \in [Buffers -> [head : 0 .. m, data : 0 .. m]]
  BY <1>1
<1> QED
  BY <1>2

\* The end of a frame, a packet or not.
LEMMA ParseEndsInv ==
    ASSUME Inv, ParseEnds, NEW as \in {0, temp_array[1]},
           parsed' = Append(parsed, Outcome(as)),
           pc' \in {"receive", "data"},
           van_packets' \in [Buffers -> [head : 0 .. Len(parsed) + 1, data : 0 .. Len(parsed) + 1]],
           UNCHANGED <<packet_num, sent, dropped>>
    PROVE  Inv'
<1>1. TypeOK /\ Counted /\ NotOlder(rx_data) /\ Decoded /\ InOrder /\ NeverOlder /\ Writing
  BY DEF Inv
<1>2. /\ pc = "parse" /\ pc' # "parse" /\ Len(temp_array) = rx_data.num_symbols
      /\ UNCHANGED <<rmt_symbol_buffer, receive_queue, frames, rx_data, temp_array,
                     main_queue, held>>
  BY DEF ParseEnds, busVars, mainVars
<1>3. /\ rx_data \in Received /\ rx_data.frame \in 1 .. MaxFrames
      /\ rx_data.num_symbols \in 1 .. MaxParts /\ MaxParts \in Nat \ {0}
  BY <1>1, <1>2, BoundsAssumption DEF Decoded, Received
<1>4. /\ Len(frames) \in Nat /\ Len(frames) <= MaxFrames /\ MaxFrames \in Nat
      /\ parsed \in Seq(Outcomes) /\ Len(parsed) \in Nat /\ Len(receive_queue) \in Nat
      /\ rmt_symbol_buffer[1] \in 0 .. Len(frames)
  <2>1. Len(frames) <= MaxFrames /\ parsed \in Seq(Outcomes)
    BY <1>1 DEF TypeOK
  <2>2. MaxFrames \in Nat
    BY BoundsAssumption
  <2>3. Len(frames) \in Nat /\ Len(parsed) \in Nat /\ Len(receive_queue) \in Nat
    BY <1>1, StateFacts
  <2>4. rmt_symbol_buffer[1] \in 0 .. Len(frames)
    <3>1. 1 \in 1 .. MaxParts
      BY <1>3
    <3> QED
      BY <1>1, <3>1, StateFacts
  <2> QED
    BY <2>1, <2>2, <2>3, <2>4
<1>5. /\ temp_array # <<>> /\ 1 \in 1 .. Len(temp_array)
      /\ temp_array[1] \in rx_data.frame .. Len(frames) /\ temp_array[1] <= rmt_symbol_buffer[1]
  <2>1. temp_array # <<>>
    BY <1>2, <1>3
  <2>2. 1 \in 1 .. Len(temp_array)
    BY <1>1, <2>1, FirstPart
  <2> QED
    BY <1>1, <2>1, <2>2 DEF Decoded
<1>a. PICK part \in Nat : part = temp_array[1]
  BY <1>1, <1>5, FirstPart
<1>b. part >= rx_data.frame /\ part <= Len(frames) /\ part <= rmt_symbol_buffer[1]
  <2>1. part \in rx_data.frame .. Len(frames) /\ rx_data.frame \in Int
    BY <1>3, <1>5, <1>a
  <2> QED
    BY <1>4, <1>5, <1>a, <2>1
<1>c. as = 0 \/ as = part
  BY <1>a
<1>6. PICK outcome \in Outcomes : outcome = Outcome(as)
  <2>1. as \in 0 .. MaxFrames
    <3>1. 0 \in 0 .. MaxFrames /\ part \in 0 .. MaxFrames
      BY <1>4, <1>b
    <3> QED
      BY <1>c, <3>1
  <2>2. Len(frames) \in 1 .. MaxFrames
    BY <1>1, <1>3, <1>4 DEF NotOlder
  <2> QED
    BY <1>3, <2>1, <2>2 DEF Outcome, Outcomes
<1>7. outcome.frame = rx_data.frame /\ outcome.as = as
  BY <1>6 DEF Outcome
<1>8. /\ parsed' \in Seq(Outcomes) /\ Len(parsed') = Len(parsed) + 1
      /\ \A i \in 1 .. Len(parsed') :
           \/ i = Len(parsed') /\ parsed'[i] = outcome
           \/ i \in 1 .. Len(parsed) /\ parsed'[i] = parsed[i]
  <2>1. parsed' = Append(parsed, outcome)
    BY <1>6
  <2> QED
    BY <1>4, <2>1
<1>9. \A i \in 1 .. Len(parsed) : parsed[i].as \in Nat /\ parsed[i].as <= part
  BY <1>1, <1>2, <1>5, <1>a, ParsedFacts DEF InOrder, Bound
<1>10. TypeOK' /\ Writing'
  <2>1. sent \in Nat /\ sent <= Len(parsed)
    BY <1>1, StateFacts DEF TypeOK
  <2>2. sent' \in 0 .. Len(parsed') /\ sent' + 1 <= Len(parsed')
    BY <1>4, <1>8, <2>1
  <2>3. van_packets' \in [Buffers -> [head : 0 .. Len(parsed'), data : 0 .. Len(parsed')]]
    BY <1>8
  <2> QED
    BY <1>1, <1>2, <1>8, <2>2, <2>3 DEF TypeOK, Writing
<1>11. Counted'
  BY <1>1, <1>2, <1>4, <1>8 DEF Counted, Pending
<1>12. NotOlder(rx_data)' /\ \A i \in 1 .. Len(receive_queue') : NotOlder(receive_queue[i])'
  BY <1>1, <1>2 DEF Inv, NotOlder
<1>13. Decoded'
  BY <1>1, <1>2 DEF Decoded
<1>14. InOrder'
  <2> SUFFICES ASSUME NEW i \in 1 .. Len(parsed')
               PROVE  parsed'[i].as <= rmt_symbol_buffer[1]
    BY <1>2 DEF InOrder, Bound
  <2>1. CASE i = Len(parsed') /\ parsed'[i] = outcome
    <3>1. 0 <= rmt_symbol_buffer[1] /\ part <= rmt_symbol_buffer[1]
      BY <1>4, <1>b
    <3>2. parsed'[i].as = 0 \/ parsed'[i].as = part
      BY <1>7, <1>c, <2>1
    <3> QED
      BY <3>1, <3>2
  <2>2. CASE i \in 1 .. Len(parsed) /\ parsed'[i] = parsed[i]
    <3>1. parsed[i].as \in Nat /\ parsed[i].as <= part
      BY <1>9, <2>2
    <3> QED
      BY <1>4, <1>b, <2>2, <3>1
  <2> QED
    BY <1>8, <2>1, <2>2
<1>15. NeverOlder'
  <2> SUFFICES ASSUME NEW i \in 1 .. Len(parsed'), parsed'[i].as # 0
               PROVE  /\ parsed'[i].as >= parsed'[i].frame
                      /\ \A j \in 1 .. i - 1 : parsed'[j].as <= parsed'[i].as
    BY DEF NeverOlder
  <2>1. CASE i = Len(parsed') /\ parsed'[i] = outcome
    <3>1. parsed'[i].as = part /\ parsed'[i].frame = rx_data.frame
      BY <1>7, <1>c, <2>1
    <3>2. ASSUME NEW j \in 1 .. i - 1 PROVE parsed'[j].as <= part
      <4>1. j \in 1 .. Len(parsed) /\ j \in 1 .. Len(parsed') /\ j # Len(parsed')
        BY <1>4, <1>8, <2>1
      <4> QED
        BY <1>8, <1>9, <4>1
    <3> QED
      BY <1>b, <3>1, <3>2
  <2>2. CASE i \in 1 .. Len(parsed) /\ parsed'[i] = parsed[i]
    <3>1. ASSUME NEW j \in 1 .. i - 1 PROVE parsed'[j] = parsed[j]
      <4>1. j \in 1 .. Len(parsed') /\ j # Len(parsed')
        BY <1>4, <1>8, <2>2
      <4> QED
        BY <1>8, <4>1
    <3> QED
      BY <1>1, <2>2, <3>1 DEF NeverOlder
  <2> QED
    BY <1>8, <2>1, <2>2
<1> QED
  BY <1>10, <1>11, <1>12, <1>13, <1>14, <1>15 DEF Inv

LEMMA RefusePacketInv == ASSUME Inv, RefusePacket PROVE Inv'
<1>1. TypeOK /\ ParseEnds /\ parsed' = Append(parsed, Outcome(0)) /\ pc' = "receive"
  BY DEF Inv, RefusePacket
<1>2. UNCHANGED <<packet_num, van_packets, sent, dropped>>
  BY DEF RefusePacket, ringVars
<1>3. van_packets' \in [Buffers -> [head : 0 .. Len(parsed) + 1, data : 0 .. Len(parsed) + 1]]
  <2>1. /\ Len(parsed) \in Nat /\ packet_num \in Buffers
        /\ van_packets \in [Buffers -> [head : 0 .. Len(parsed), data : 0 .. Len(parsed)]]
    BY <1>1, StateFacts DEF TypeOK
  <2> QED
    BY <1>2, <2>1, PacketsTypes
<1> QED
  BY <1>1, <1>2, <1>3, ParseEndsInv

LEMMA FillHeadInv == ASSUME Inv, FillHead PROVE Inv'
<1>1. /\ TypeOK /\ ParseEnds /\ parsed' = Append(parsed, Outcome(temp_array[1])) /\ pc' = "data"
      /\ UNCHANGED <<packet_num, sent, dropped>>
      /\ van_packets' = [van_packets EXCEPT ![packet_num].head = sent + 1]
  BY DEF Inv, FillHead
<1>2. van_packets' \in [Buffers -> [head : 0 .. Len(parsed) + 1, data : 0 .. Len(parsed) + 1]]
  <2>1. /\ Len(parsed) \in Nat /\ packet_num \in Buffers /\ sent \in 0 .. Len(parsed)
        /\ van_packets \in [Buffers -> [head : 0 .. Len(parsed), data : 0 .. Len(parsed)]]
    BY <1>1, StateFacts DEF TypeOK
  <2>2. sent + 1 \in 0 .. Len(parsed) + 1
    BY <2>1
  <2> QED
    BY <1>1, <2>1, <2>2, PacketsTypes
<1> QED
  BY <1>1, <1>2, ParseEndsInv

\* What the task does after parsing has no part in what it reads.
LEMMA WriteInv ==
    ASSUME Inv, pc # "parse", pc' # "parse",
           UNCHANGED <<busVars, rx_data, temp_array, parsed, held>>,
           TypeOK', Writing'
    PROVE  Inv'
<1>1. UNCHANGED <<rmt_symbol_buffer, receive_queue, frames, rx_data, temp_array, parsed>>
  BY DEF busVars
<1> QED
  BY <1>1 DEF Inv, Counted, Pending, NotOlder, Decoded, InOrder, Bound, NeverOlder

LEMMA FillDataInv == ASSUME Inv, FillData PROVE Inv'
<1>1. /\ TypeOK /\ pc = "data" /\ pc' = "send" /\ sent + 1 <= Len(parsed)
      /\ UNCHANGED <<busVars, rx_data, temp_array, parsed, packet_num, sent, dropped, mainVars>>
      /\ van_packets' = [van_packets EXCEPT ![packet_num].data = sent + 1]
  BY DEF Inv, FillData, Writing
<1>2. /\ Len(parsed) \in Nat /\ sent \in Nat /\ packet_num \in Buffers
      /\ van_packets \in [Buffers -> [head : 0 .. Len(parsed), data : 0 .. Len(parsed)]]
  BY <1>1, StateFacts DEF TypeOK
<1>3. sent + 1 \in 0 .. Len(parsed)
  BY <1>1, <1>2
<1>4. van_packets' \in [Buffers -> [head : 0 .. Len(parsed), data : 0 .. Len(parsed)]]
  BY <1>1, <1>2, <1>3, PacketsTypes
<1>5. TypeOK'
  BY <1>1, <1>4 DEF TypeOK, busVars, mainVars
<1>6. Writing'
  BY <1>1 DEF Writing
<1> QED
  BY <1>1, <1>5, <1>6, WriteInv DEF mainVars

\* The packet that is sent is an event of the queue, if there is room.
LEMMA SendTypes ==
    ASSUME TypeOK, SendPacket
    PROVE  LET new == [buffer |-> packet_num, seq |-> sent + 1, drops |-> dropped]
           IN  /\ new \in Events /\ IsPacket(new)
               /\ \/ Len(main_queue) < QueueLen /\ main_queue' = Append(main_queue, new)
                     /\ dropped' = dropped
                  \/ Len(main_queue) = QueueLen /\ main_queue' = main_queue
                     /\ dropped' = dropped + 1
<1> DEFINE new == [buffer |-> packet_num, seq |-> sent + 1, drops |-> dropped]
<1>1. /\ sent \in Nat /\ dropped \in Nat /\ packet_num \in Buffers
      /\ Len(main_queue) \in Nat /\ Len(main_queue) <= QueueLen /\ QueueLen \in Nat
  BY StateFacts, QueueLenAssumption DEF TypeOK
<1>2. sent + 1 \in Nat \ {0}
  BY <1>1
<1>3. new \in Events /\ IsPacket(new)
  BY <1>1, <1>2 DEF Events, IsPacket
<1>4. \/ Len(main_queue) < QueueLen /\ main_queue' = Append(main_queue, new) /\ dropped' = dropped
      \/ Len(main_queue) = QueueLen /\ main_queue' = main_queue /\ dropped' = dropped + 1
  BY <1>1 DEF SendPacket, SendToBack, IsFull
<1> QED
  BY <1>3, <1>4

LEMMA SendPacketInv == ASSUME Inv, SendPacket PROVE Inv'
<1>1. /\ TypeOK /\ pc = "send" /\ pc' = "receive" /\ sent + 1 <= Len(parsed) /\ sent' = sent + 1
      /\ UNCHANGED <<busVars, rx_data, temp_array, parsed, van_packets, held>>
      /\ packet_num' = NextPacket(packet_num)
  BY DEF Inv, SendPacket, Writing
<1>2. /\ Len(parsed) \in Nat /\ sent \in Nat /\ dropped \in Nat /\ dropped <= sent
      /\ packet_num \in Buffers
      /\ main_queue \in Seq(Events) /\ Len(main_queue) <= QueueLen /\ QueueLen \in Nat
  BY <1>1, StateFacts, QueueLenAssumption DEF TypeOK
<1>3. packet_num' \in Buffers
  BY <1>1, <1>2, BuffersNumAssumption DEF NextPacket, Buffers
<1> DEFINE event == [buffer |-> packet_num, seq |-> sent + 1, drops |-> dropped]
<1>4. PICK new \in Events :
        \/ Len(main_queue) < QueueLen /\ main_queue' = Append(main_queue, new) /\ dropped' = dropped
        \/ Len(main_queue) = QueueLen /\ main_queue' = main_queue /\ dropped' = dropped + 1
  <2>1. event \in Events
    BY <1>1, SendTypes
  <2>2. \/ /\ Len(main_queue) < QueueLen /\ main_queue' = Append(main_queue, event)
           /\ dropped' = dropped
        \/ Len(main_queue) = QueueLen /\ main_queue' = main_queue /\ dropped' = dropped + 1
    BY <1>1, SendTypes
  <2> HIDE DEF event
  <2> QED
    BY <2>1, <2>2
<1>5. main_queue' \in Seq(Events) /\ Len(main_queue') <= QueueLen
  BY <1>2, <1>4
<1>6. sent' \in 0 .. Len(parsed) /\ dropped' \in 0 .. sent'
  BY <1>1, <1>2, <1>4
<1>7. TypeOK'
  BY <1>1, <1>3, <1>5, <1>6 DEF TypeOK, busVars
<1>8. Writing'
  BY <1>1 DEF Writing
<1> QED
  BY <1>1, <1>7, <1>8, WriteInv

----------------------------------------------------------------------------
(* main_task, and the invariant *)

\* The main queue has no part in what van_rmt_task reads.
LEMMA MainInv ==
    ASSUME Inv, UNCHANGED <<busVars, taskVars, ringVars>>,
           main_queue' \in Seq(Events), Len(main_queue') <= QueueLen, held' \in Events
    PROVE  Inv'
<1>1. UNCHANGED <<rmt_symbol_buffer, receive_queue, frames, pc, rx_data, temp_array, parsed,
                  packet_num, van_packets, sent, dropped>>
  BY DEF busVars, taskVars, ringVars
<1>2. TypeOK'
  BY <1>1 DEF Inv, TypeOK
<1> QED
  BY <1>1, <1>2
     DEF Inv, Counted, Pending, NotOlder, Decoded, InOrder, Bound, NeverOlder, Writing

LEMMA NextInv == Inv /\ [Next]_vars => Inv'
<1> SUFFICES ASSUME Inv, [Next]_vars PROVE Inv'
  OBVIOUS
<1>1. /\ main_queue \in Seq(Events) /\ Len(main_queue) \in Nat /\ Len(main_queue) <= QueueLen
      /\ held \in Events /\ OtherEvent \in Events /\ QueueLen \in Nat
  BY QueueLenAssumption DEF Inv, TypeOK, Events
<1>2. ASSUME NEW frame \in Kinds, FrameEnds(frame) PROVE Inv'
  BY <1>2, FrameEndsInv
<1>3. CASE VanRmtTask
  BY <1>3, ReceiveInv, ParseSymbolsInv, FillHeadInv, FillDataInv, SendPacketInv, RefusePacketInv
     DEF VanRmtTask
<1>4. CASE PostOther \/ PostOtherToFront
  <2>1. UNCHANGED <<busVars, taskVars, ringVars, held>> /\ ~IsFull(main_queue, QueueLen)
    BY <1>4 DEF PostOther, PostOtherToFront
  <2>2. PICK event \in Events : event = OtherEvent
    BY <1>1
  <2>3. main_queue' = Append(main_queue, event) \/ main_queue' = <<event>> \o main_queue
    BY <1>4, <2>1, <2>2 DEF PostOther, PostOtherToFront, SendToBack, SendToFront
  <2>4. main_queue' \in Seq(Events) /\ Len(main_queue') = Len(main_queue) + 1
    <3>1. main_queue \in Seq(Events)
      BY <1>1
    <3>2. CASE main_queue' = Append(main_queue, event)
      BY <3>1, <3>2
    <3>3. CASE main_queue' = <<event>> \o main_queue
      <4>1. <<event>> \in Seq(Events) /\ Len(<<event>>) = 1
        OBVIOUS
      <4> QED
        BY <1>1, <3>1, <3>3, <4>1
    <3> QED
      BY <2>3, <3>2, <3>3
  <2>5. Len(main_queue') <= QueueLen
    BY <1>1, <2>1, <2>4 DEF IsFull
  <2> QED
    BY <1>1, <2>1, <2>4, <2>5, MainInv
<1>5. CASE MainTakes
  <2>1. UNCHANGED <<busVars, taskVars, ringVars>>
    BY <1>5 DEF MainTakes
  <2>2. main_queue' = Tail(main_queue) /\ held' = Head(main_queue) /\ main_queue # <<>>
    BY <1>5 DEF MainTakes
  <2>3. main_queue' \in Seq(Events) /\ Len(main_queue') <= QueueLen /\ held' \in Events
    BY <1>1, <2>2
  <2> QED
    BY <2>1, <2>3, MainInv
<1>6. CASE MainReleases
  BY <1>1, <1>6, MainInv DEF MainReleases
<1>7. CASE UNCHANGED vars
  BY <1>1, <1>7, MainInv DEF vars, mainVars
<1> QED
  BY <1>2, <1>3, <1>4, <1>5, <1>6, <1>7 DEF Next

LEMMA InvariantHolds == Spec => []Inv
<1> QED
  BY InitInv, NextInv, PTL DEF Spec

\* Every variable keeps its type, whatever the sizes of ring, queues and frames.
THEOREM TypeCorrect == Spec => []TypeOK
<1>1. Inv => TypeOK
  BY DEF Inv
<1> QED
  BY <1>1, InvariantHolds, PTL

\* However late van_rmt_task reads the one symbol buffer, what it forwards is never
\* older than what it was told of or forwarded before (van_rmt_task.c:38-57).
THEOREM NothingOlder == Spec => []NeverOlder
<1>1. Inv => NeverOlder
  BY DEF Inv
<1> QED
  BY <1>1, InvariantHolds, PTL

----------------------------------------------------------------------------
(* Each frame for its own event *)

\* Events are received in the order of the bus, and rx_data is the last one received.
InTurn ==
    \A k \in 1 .. Len(receive_queue) :
        /\ rx_data.frame < receive_queue[k].frame
        /\ \A l \in 1 .. k - 1 : receive_queue[l].frame < receive_queue[k].frame

\* An event has the length of the frame it was sent for.
WholeFrame(data) == data.num_symbols = frames[data.frame].parts
Whole ==
    /\ \A k \in 1 .. Len(receive_queue) : WholeFrame(receive_queue[k])
    /\ pc = "parse" => WholeFrame(rx_data)

\* What is settled was received before, and says nothing that was not on the bus yet.
Settled(i) ==
    /\ parsed[i].frame <= rx_data.frame
    /\ pc = "parse" => parsed[i].frame < rx_data.frame
    /\ parsed[i].as <= parsed[i].last
    /\ \A j \in 1 .. i - 1 : parsed[j].frame < parsed[i].frame

\* A frame that nothing overwrote was forwarded if and only if it is valid.
AsValid(i) ==
    ~Overwritten(i) =>
        parsed[i].as = IF frames[parsed[i].frame].valid THEN parsed[i].frame ELSE 0

Once == InTurn /\ Whole /\ \A i \in 1 .. Len(parsed) : Settled(i) /\ AsValid(i)

LEMMA OutcomeFacts ==
    ASSUME TypeOK, NEW i \in 1 .. Len(parsed)
    PROVE  /\ parsed[i].frame \in 1 .. MaxFrames /\ parsed[i].last \in 1 .. MaxFrames
           /\ parsed[i].as \in 0 .. MaxFrames
<1>1. parsed[i] \in Outcomes
  BY DEF TypeOK
<1> QED
  BY <1>1 DEF Outcomes

LEMMA ReceivedFacts ==
    ASSUME Inv, NEW k \in 1 .. Len(receive_queue)
    PROVE  /\ receive_queue[k] \in Received
           /\ receive_queue[k].frame \in 1 .. MaxFrames
           /\ receive_queue[k].frame <= Len(frames)
<1>1. receive_queue[k] \in Received
  BY DEF Inv, TypeOK
<1>2. NotOlder(receive_queue[k])
  BY DEF Inv
<1> QED
  BY <1>1, <1>2 DEF Received, NotOlder

\* Another frame is the last of the order, and changes no frame before it.
LEMMA FrameEndsOnce ==
    ASSUME Inv, Once, NEW frame \in Kinds, FrameEnds(frame)
    PROVE  Once'
<1>1. /\ MaxFrames \in Nat /\ MaxParts \in Nat
      /\ Len(frames) \in Nat /\ Len(parsed) \in Nat /\ Len(receive_queue) \in Nat
      /\ frames \in Seq(Kinds) /\ receive_queue \in Seq(Received)
      /\ rx_data.frame \in Nat /\ rx_data.frame <= Len(frames)
  <2>1. NotOlder(rx_data) /\ rx_data \in Received \union {NoData}
    BY DEF Inv, TypeOK
  <2> QED
    BY <2>1, StateFacts, DataFacts DEF Inv, TypeOK, NotOlder
<1>2. PICK number \in 1 .. MaxFrames : number = Len(frames) + 1
  BY <1>1 DEF FrameEnds
<1>3. frames' = Append(frames, frame) /\ UNCHANGED <<pc, rx_data, parsed>>
  BY DEF FrameEnds, taskVars
<1>4. frames'[number] = frame /\ \A n \in 1 .. Len(frames) : frames'[n] = frames[n]
  BY <1>1, <1>2, <1>3
<1>5. PICK data \in Received : data = [frame |-> number, num_symbols |-> frame.parts]
  BY <1>2, KindsAssumption DEF Received
<1>6. receive_queue' = SendToBack(receive_queue, data, ReceiveQueueLen)
  BY <1>2, <1>5 DEF FrameEnds
<1>7. receive_queue' = receive_queue \/ receive_queue' = Append(receive_queue, data)
  BY <1>6 DEF SendToBack
<1>8. ASSUME NEW k \in 1 .. Len(receive_queue')
      PROVE  \/ /\ k \in 1 .. Len(receive_queue) /\ receive_queue'[k] = receive_queue[k]
                /\ \A l \in 1 .. k - 1 : receive_queue'[l] = receive_queue[l]
             \/ /\ k = Len(receive_queue) + 1 /\ receive_queue'[k] = data
                /\ \A l \in 1 .. k - 1 :
                     l \in 1 .. Len(receive_queue) /\ receive_queue'[l] = receive_queue[l]
  <2>1. CASE receive_queue' = receive_queue
    BY <1>1, <2>1
  <2>2. CASE receive_queue' = Append(receive_queue, data)
    BY <1>1, <2>2
  <2> QED
    BY <1>7, <2>1, <2>2
<1>9. data.frame = number /\ data.num_symbols = frame.parts
  BY <1>5
<1>10. InTurn'
  <2> SUFFICES ASSUME NEW k \in 1 .. Len(receive_queue')
               PROVE  /\ rx_data.frame < receive_queue'[k].frame
                      /\ \A l \in 1 .. k - 1 : receive_queue'[l].frame < receive_queue'[k].frame
    BY <1>3 DEF InTurn
  <2>1. CASE /\ k \in 1 .. Len(receive_queue) /\ receive_queue'[k] = receive_queue[k]
             /\ \A l \in 1 .. k - 1 : receive_queue'[l] = receive_queue[l]
    BY <2>1 DEF Once, InTurn
  <2>2. CASE /\ k = Len(receive_queue) + 1 /\ receive_queue'[k] = data
             /\ \A l \in 1 .. k - 1 :
                  l \in 1 .. Len(receive_queue) /\ receive_queue'[l] = receive_queue[l]
    <3>1. ASSUME NEW l \in 1 .. k - 1 PROVE receive_queue'[l].frame < number
      <4>1. l \in 1 .. Len(receive_queue) /\ receive_queue'[l] = receive_queue[l]
        BY <2>2
      <4>2. receive_queue[l].frame \in 1 .. MaxFrames /\ receive_queue[l].frame <= Len(frames)
        BY <4>1, ReceivedFacts
      <4> QED
        BY <1>1, <1>2, <4>1, <4>2
    <3> QED
      BY <1>1, <1>2, <1>9, <2>2, <3>1
  <2> QED
    BY <1>8, <2>1, <2>2
<1>11. Whole'
  <2>1. ASSUME NEW k \in 1 .. Len(receive_queue') PROVE WholeFrame(receive_queue[k])'
    <3>1. CASE k \in 1 .. Len(receive_queue) /\ receive_queue'[k] = receive_queue[k]
      <4>1. WholeFrame(receive_queue[k])
        BY <3>1 DEF Once, Whole
      <4>2. receive_queue[k].frame \in 1 .. Len(frames)
        BY <1>1, <3>1, ReceivedFacts
      <4> QED
        BY <1>4, <3>1, <4>1, <4>2 DEF WholeFrame
    <3>2. CASE receive_queue'[k] = data
      BY <1>4, <1>9, <3>2 DEF WholeFrame
    <3> QED
      BY <1>8, <3>1, <3>2
  <2>2. ASSUME pc = "parse" PROVE WholeFrame(rx_data)'
    <3>1. WholeFrame(rx_data)
      BY <2>2 DEF Once, Whole
    <3>2. rx_data.frame \in 1 .. Len(frames)
      BY <1>1, <2>2 DEF Inv, Decoded, Received
    <3> QED
      BY <1>3, <1>4, <3>1, <3>2 DEF WholeFrame
  <2> QED
    BY <1>3, <2>1, <2>2 DEF Whole
<1>12. ASSUME NEW i \in 1 .. Len(parsed) PROVE Settled(i)' /\ AsValid(i)'
  <2>1. Settled(i) /\ AsValid(i)
    BY DEF Once
  <2>2. parsed[i].frame \in 1 .. MaxFrames
    BY OutcomeFacts DEF Inv
  <2>3. parsed[i].frame \in 1 .. Len(frames)
    BY <1>1, <2>1, <2>2 DEF Settled
  <2> QED
    BY <1>3, <1>4, <2>1, <2>3 DEF Settled, AsValid, Overwritten
<1> QED
  BY <1>3, <1>10, <1>11, <1>12 DEF Once

\* The event that is received comes behind all that are settled.
LEMMA ReceiveOnce == ASSUME Inv, Once, Receive PROVE Once'
<1>1. receive_queue \in Seq(Received) /\ receive_queue # <<>> /\ Len(receive_queue) \in Nat \ {0}
  BY DEF Inv, TypeOK, Receive
<1>2. /\ pc = "receive" /\ pc' = "parse" /\ rx_data' = receive_queue[1]
      /\ receive_queue' = Tail(receive_queue) /\ UNCHANGED <<frames, parsed>>
  BY <1>1 DEF Receive
<1>3. /\ Len(receive_queue') = Len(receive_queue) - 1
      /\ \A k \in 1 .. Len(receive_queue') :
           k + 1 \in 1 .. Len(receive_queue) /\ receive_queue'[k] = receive_queue[k + 1]
  BY <1>1, <1>2
<1>4. 1 \in 1 .. Len(receive_queue) /\ rx_data.frame < rx_data'.frame
  BY <1>1, <1>2 DEF Once, InTurn
<1>5. InTurn'
  <2> SUFFICES ASSUME NEW k \in 1 .. Len(receive_queue')
               PROVE  /\ rx_data'.frame < receive_queue'[k].frame
                      /\ \A l \in 1 .. k - 1 : receive_queue'[l].frame < receive_queue'[k].frame
    BY DEF InTurn
  <2>1. k + 1 \in 1 .. Len(receive_queue) /\ receive_queue'[k] = receive_queue[k + 1]
    BY <1>3
  <2>2. \A l \in 1 .. (k + 1) - 1 : receive_queue[l].frame < receive_queue[k + 1].frame
    BY <2>1 DEF Once, InTurn
  <2>3. 1 \in 1 .. (k + 1) - 1
    OBVIOUS
  <2>4. ASSUME NEW l \in 1 .. k - 1 PROVE receive_queue'[l].frame < receive_queue'[k].frame
    <3>1. l \in 1 .. Len(receive_queue') /\ l + 1 \in 1 .. (k + 1) - 1
      BY <1>1, <1>3
    <3> QED
      BY <1>3, <2>1, <2>2, <3>1
  <2> QED
    BY <1>2, <2>1, <2>2, <2>3, <2>4
<1>6. Whole'
  <2>1. ASSUME NEW k \in 1 .. Len(receive_queue') PROVE WholeFrame(receive_queue[k])'
    <3>1. k + 1 \in 1 .. Len(receive_queue) /\ receive_queue'[k] = receive_queue[k + 1]
      BY <1>3
    <3>2. WholeFrame(receive_queue[k + 1])
      BY <3>1 DEF Once, Whole
    <3> QED
      BY <1>2, <3>1, <3>2 DEF WholeFrame
  <2>2. WholeFrame(rx_data)'
    <3>1. WholeFrame(receive_queue[1])
      BY <1>4 DEF Once, Whole
    <3> QED
      BY <1>2, <3>1 DEF WholeFrame
  <2> QED
    BY <2>1, <2>2 DEF Whole
<1>7. ASSUME NEW i \in 1 .. Len(parsed) PROVE Settled(i)' /\ AsValid(i)'
  <2>1. Settled(i) /\ AsValid(i)
    BY DEF Once
  <2>2. parsed[i].frame \in Nat /\ rx_data.frame \in Nat /\ rx_data'.frame \in Nat
    <3>1. rx_data \in Received \union {NoData} /\ parsed[i].frame \in Nat
      BY ParsedFacts DEF Inv, TypeOK
    <3>2. rx_data' \in Received \union {NoData}
      BY <1>2, <1>4, ReceivedFacts
    <3> QED
      BY <3>1, <3>2, DataFacts
  <2>3. parsed'[i].frame < rx_data'.frame /\ parsed'[i].frame <= rx_data'.frame
    BY <1>2, <1>4, <2>1, <2>2 DEF Settled
  <2> QED
    BY <1>2, <2>1, <2>3 DEF Settled, AsValid, Overwritten
<1> QED
  BY <1>2, <1>5, <1>6, <1>7 DEF Once

\* When no frame came after the event's own, every part decoded is from that frame.
LEMMA Undisturbed ==
    ASSUME Inv, Once, ParseEnds, Len(frames) <= rx_data.frame
    PROVE  /\ CrcOk(temp_array) <=> frames[rx_data.frame].valid
           /\ temp_array[1] = rx_data.frame
<1>1. /\ pc = "parse" /\ rx_data \in Received /\ Len(temp_array) = rx_data.num_symbols
      /\ rx_data.frame <= Len(frames) /\ Len(frames) \in Nat
  BY StateFacts DEF ParseEnds, Inv, Decoded, NotOlder
<1>2. rx_data.frame \in Nat /\ Len(temp_array) \in Nat \ {0}
  BY <1>1, BoundsAssumption DEF Received
<1>3. \A p \in 1 .. Len(temp_array) : temp_array[p] = rx_data.frame
  <2> SUFFICES ASSUME NEW p \in 1 .. Len(temp_array) PROVE temp_array[p] = rx_data.frame
    OBVIOUS
  <2>1. temp_array[p] \in rx_data.frame .. Len(frames)
    BY DEF Inv, Decoded
  <2> QED
    BY <1>1, <1>2, <2>1
<1>4. Len(temp_array) = frames[rx_data.frame].parts
  BY <1>1 DEF Once, Whole, WholeFrame
<1>5. temp_array[1] = rx_data.frame
  BY <1>2, <1>3
<1> QED
  BY <1>3, <1>4, <1>5 DEF CrcOk

\* The end of a frame settles its event.
LEMMA ParseEndsOnce ==
    ASSUME Inv, Once, FillHead \/ RefusePacket
    PROVE  Once'
<1>1. /\ pc = "parse" /\ pc' # "parse"
      /\ UNCHANGED <<receive_queue, frames, rx_data, temp_array>>
      /\ ParseEnds
  BY DEF FillHead, RefusePacket, ParseEnds, busVars
<1>2. /\ rx_data \in Received /\ rx_data.frame \in 1 .. MaxFrames /\ rx_data.frame <= Len(frames)
      /\ Len(frames) \in Nat /\ Len(parsed) \in Nat /\ MaxFrames \in Nat
  BY <1>1, StateFacts DEF Inv, Decoded, NotOlder, Received
<1>3. PICK part \in 1 .. MaxFrames : part = temp_array[1] /\ part <= Len(frames)
  <2>1. temp_array # <<>>
    BY <1>1, <1>2, BoundsAssumption DEF ParseEnds, Received
  <2>2. temp_array[1] \in 1 .. MaxFrames /\ 1 \in 1 .. Len(temp_array)
    BY <2>1, FirstPart DEF Inv
  <2>3. temp_array[1] \in rx_data.frame .. Len(frames)
    BY <2>2 DEF Inv, Decoded
  <2> QED
    BY <1>2, <2>2, <2>3
<1>4. PICK as \in 0 .. MaxFrames :
        /\ parsed' = Append(parsed, Outcome(as))
        /\ as = IF CrcOk(temp_array) THEN part ELSE 0
  <2>1. CASE FillHead
    <3>1. parsed' = Append(parsed, Outcome(part)) /\ CrcOk(temp_array)
      BY <1>3, <2>1 DEF FillHead
    <3> QED
      BY <1>2, <3>1
  <2>2. CASE RefusePacket
    <3>1. parsed' = Append(parsed, Outcome(0)) /\ ~CrcOk(temp_array)
      BY <2>2 DEF RefusePacket
    <3> QED
      BY <1>2, <3>1
  <2> QED
    BY <2>1, <2>2
<1>5. PICK outcome \in Outcomes :
        /\ parsed' = Append(parsed, outcome)
        /\ outcome.frame = rx_data.frame /\ outcome.as = as /\ outcome.last = Len(frames)
  <2>1. Len(frames) \in 1 .. MaxFrames
    BY <1>2 DEF Inv, TypeOK
  <2>2. Outcome(as) \in Outcomes
    BY <1>2, <2>1 DEF Outcome, Outcomes
  <2> QED
    BY <1>4, <2>2 DEF Outcome
<1>6. parsed \in Seq(Outcomes)
  BY DEF Inv, TypeOK
<1>7. Len(parsed') = Len(parsed) + 1
  BY <1>5, <1>6
<1>8. parsed'[Len(parsed) + 1] = outcome /\ \A j \in 1 .. Len(parsed) : parsed'[j] = parsed[j]
  BY <1>5, <1>6
<1>9. InTurn' /\ Whole'
  BY <1>1 DEF Once, InTurn, Whole, WholeFrame
<1>10. ASSUME NEW i \in 1 .. Len(parsed) PROVE Settled(i)' /\ AsValid(i)'
  <2>1. Settled(i) /\ AsValid(i)
    BY DEF Once
  <2>2. \A j \in 1 .. i - 1 : j \in 1 .. Len(parsed)
    BY <1>2
  <2> QED
    BY <1>1, <1>8, <2>1, <2>2 DEF Settled, AsValid, Overwritten
<1>11. \A j \in 1 .. Len(parsed) : parsed[j].frame < rx_data.frame
  BY <1>1 DEF Once, Settled
<1>12. ASSUME NEW i \in 1 .. Len(parsed'), i = Len(parsed) + 1 PROVE Settled(i)' /\ AsValid(i)'
  <2>1. parsed'[i] = outcome
    BY <1>8, <1>12
  <2>2. ASSUME NEW j \in 1 .. i - 1 PROVE parsed'[j].frame < parsed'[i].frame
    <3>1. j \in 1 .. Len(parsed)
      BY <1>2, <1>12
    <3> QED
      BY <1>5, <1>8, <1>11, <2>1, <3>1
  <2>3. as <= Len(frames)
    BY <1>2, <1>3, <1>4
  <2>4. Settled(i)'
    <3>1. parsed'[i].frame = rx_data'.frame /\ parsed'[i].frame <= rx_data'.frame
      BY <1>1, <1>2, <1>5, <2>1
    <3>2. parsed'[i].as <= parsed'[i].last
      BY <1>5, <2>1, <2>3
    <3> QED
      BY <1>1, <2>2, <3>1, <3>2 DEF Settled
  <2>5. ASSUME ~(Len(frames) > rx_data.frame)
        PROVE  as = IF frames[rx_data.frame].valid THEN rx_data.frame ELSE 0
    <3>1. Len(frames) <= rx_data.frame
      BY <1>2, <2>5
    <3> QED
      BY <1>1, <1>3, <1>4, <3>1, Undisturbed
  <2> QED
    BY <1>1, <1>5, <2>1, <2>4, <2>5 DEF AsValid, Overwritten
<1>13. \A i \in 1 .. Len(parsed') : i \in 1 .. Len(parsed) \/ i = Len(parsed) + 1
  BY <1>2, <1>7
<1> QED
  BY <1>9, <1>10, <1>12, <1>13 DEF Once

LEMMA OnceStep == Inv /\ Once /\ [Next]_vars => Once'
<1> SUFFICES ASSUME Inv, Once, [Next]_vars PROVE Once'
  OBVIOUS
<1>1. CASE UNCHANGED <<receive_queue, frames, rx_data, parsed>> /\ (pc' = "parse" <=> pc = "parse")
  BY <1>1 DEF Once, InTurn, Whole, WholeFrame, Settled, AsValid, Overwritten
<1>2. ASSUME NEW frame \in Kinds, FrameEnds(frame) PROVE Once'
  BY <1>2, FrameEndsOnce
<1>3. CASE Receive
  BY <1>3, ReceiveOnce
<1>4. CASE FillHead \/ RefusePacket
  BY <1>4, ParseEndsOnce
<1>5. CASE ParseSymbols \/ FillData \/ SendPacket
  BY <1>1, <1>5 DEF ParseSymbols, FillData, SendPacket, busVars
<1>6. CASE PostOther \/ PostOtherToFront \/ MainTakes \/ MainReleases
  BY <1>1, <1>6 DEF PostOther, PostOtherToFront, MainTakes, MainReleases, busVars, taskVars
<1>7. CASE UNCHANGED vars
  BY <1>1, <1>7 DEF vars, busVars, taskVars
<1> QED
  BY <1>2, <1>3, <1>4, <1>5, <1>6, <1>7 DEF Next, VanRmtTask

\* Whatever the bus and the tasks do between two symbols: a frame that nothing came
\* after is forwarded if it is valid and only then, and a frame is forwarded a second
\* time only in the place of an older one it has overwritten (van_rmt_rx.c:63-68,
\* van_rmt_task.c:133-144).
THEOREM ForwardedOnce == Spec => []OnceEach
<1>1. Init => Once
  BY DEF Init, Once, InTurn, Whole
<1>2. Inv /\ Once => OnceEach
  <2> SUFFICES ASSUME Inv, Once PROVE OnceEach
    OBVIOUS
  <2>1. ASSUME NEW i \in 1 .. Len(parsed), NEW j \in 1 .. Len(parsed),
               i < j, parsed[i].as = parsed[j].as, parsed[i].as # 0
        PROVE  Overwritten(i) /\ parsed[i].frame < parsed[j].frame
    <3>1. /\ parsed[i].frame \in Nat /\ parsed[j].frame \in Nat
          /\ parsed[i].last \in Nat /\ parsed[i].as \in Nat
      BY OutcomeFacts, BoundsAssumption DEF Inv
    <3>2. parsed[j].as >= parsed[j].frame
      BY <2>1 DEF Inv, NeverOlder
    <3>3. Settled(i) /\ Settled(j)
      BY DEF Once
    <3>4. i \in 1 .. j - 1
      BY <2>1
    <3>5. parsed[i].frame < parsed[j].frame /\ parsed[i].as <= parsed[i].last
      BY <3>3, <3>4 DEF Settled
    <3> QED
      BY <2>1, <3>1, <3>2, <3>5 DEF Overwritten
  <2>2. \A i \in 1 .. Len(parsed) : AsValid(i)
    BY DEF Once
  <2> QED
    BY <2>1, <2>2 DEF OnceEach, AsValid
<1> QED
  BY <1>1, <1>2, OnceStep, InvariantHolds, PTL DEF Spec

----------------------------------------------------------------------------
(* The ring *)

\* Packets sent since the one the event stands for.
Age(event) == sent - event.seq

\* Packets until the index has come round to buffer b.
Gap(from, to) == IF to >= from THEN to - from ELSE to - from + BuffersNum
Distance(b) == Gap(packet_num, b)

\* An event was sent in the past, and at most `room' queued events came after it.
Accounted(event, room) ==
    IsPacket(event) =>
        /\ event.seq <= sent
        /\ event.drops <= dropped
        /\ Age(event) - Overrun(event) <= room

\* A buffer is overwritten when the index has come round to it, and not before.
Fresh(event) ==
    IsPacket(event) /\ Age(event) < BuffersNum - 1 =>
        /\ Intact(event)
        /\ Distance(event.buffer) = BuffersNum - 1 - Age(event)

\* The packet being written is the next one to be sent.
Filled ==
    /\ pc = "data" => van_packets[packet_num].head = sent + 1
    /\ pc = "send" => van_packets[packet_num] = [head |-> sent + 1, data |-> sent + 1]

Ring ==
    /\ \A i \in 1 .. Len(main_queue) :
        Accounted(main_queue[i], Len(main_queue) - i) /\ Fresh(main_queue[i])
    /\ Accounted(held, Len(main_queue))
    /\ Fresh(held)
    /\ Filled
    /\ FramesInOrder

LEMMA EventFacts ==
    ASSUME NEW e \in Events
    PROVE  /\ e.seq \in Nat /\ e.drops \in Nat
           /\ IsPacket(e) => e.buffer \in Buffers
BY DEF Events, IsPacket, OtherEvent

LEMMA RingFacts ==
    ASSUME TypeOK
    PROVE  /\ BuffersNum \in Nat \ {0} /\ QueueLen \in Nat
           /\ packet_num \in Buffers /\ sent \in Nat /\ dropped \in Nat
           /\ van_packets \in [Buffers -> [head : Nat, data : Nat]]
           /\ main_queue \in Seq(Events) /\ Len(main_queue) \in Nat /\ Len(main_queue) <= QueueLen
           /\ held \in Events
<1>1. 0 .. Len(parsed) \subseteq Nat
  OBVIOUS
<1> QED
  BY <1>1, StateFacts, BuffersNumAssumption, QueueLenAssumption DEF TypeOK

\* Moving the index on by one closes the gap to every other buffer by one, and puts the
\* whole ring between it and the buffer it was at.
LEMMA GapStep ==
    ASSUME NEW from \in Buffers, NEW to \in Buffers
    PROVE  /\ to # from => Gap(NextPacket(from), to) = Gap(from, to) - 1
           /\ Gap(NextPacket(from), from) = BuffersNum - 1
<1> USE BuffersNumAssumption DEF Buffers
<1>1. CASE from = BuffersNum - 1
  <2>1. NextPacket(from) = 0
    BY <1>1 DEF NextPacket
  <2> QED
    BY <1>1, <2>1 DEF Gap
<1>2. CASE from # BuffersNum - 1
  <2>1. NextPacket(from) = from + 1
    BY <1>2 DEF NextPacket
  <2> QED
    BY <1>2, <2>1 DEF Gap
<1> QED
  BY <1>1, <1>2

\* A packet that is not yet due is in another buffer than the one at the index.
LEMMA NotAtIndex ==
    ASSUME TypeOK, NEW e \in Events, Fresh(e), IsPacket(e), Age(e) < BuffersNum - 1
    PROVE  e.buffer # packet_num /\ e.buffer \in Buffers
<1>1. Distance(e.buffer) = BuffersNum - 1 - Age(e) /\ Age(e) \in Int /\ BuffersNum \in Nat
  BY RingFacts, EventFacts DEF Fresh, Age
<1>2. Distance(e.buffer) >= 1
  BY <1>1
<1>3. e.buffer \in Buffers /\ packet_num \in Buffers
  BY RingFacts, EventFacts
<1> QED
  BY <1>2, <1>3 DEF Distance, Gap, Buffers

\* What happens to the buffer at the index changes no packet that is not yet due.
LEMMA KeepsPackets ==
    ASSUME TypeOK, UNCHANGED <<packet_num, sent, dropped>>,
           \A b \in Buffers : b # packet_num => van_packets'[b] = van_packets[b],
           NEW e \in Events, NEW room \in Int, NEW more \in Int, room <= more,
           Accounted(e, room), Fresh(e)
    PROVE  Accounted(e, more)' /\ Fresh(e)'
<1>1. Fresh(e)'
  <2> SUFFICES ASSUME IsPacket(e), Age(e)' < BuffersNum - 1
               PROVE  Intact(e)' /\ Distance(e.buffer)' = BuffersNum - 1 - Age(e)'
    BY DEF Fresh
  <2>1. Age(e)' = Age(e) /\ Distance(e.buffer)' = Distance(e.buffer)
    BY DEF Age, Distance
  <2>2. Intact(e) /\ Distance(e.buffer) = BuffersNum - 1 - Age(e)
    BY <2>1 DEF Fresh
  <2>3. van_packets'[e.buffer] = van_packets[e.buffer]
    BY <2>1, NotAtIndex
  <2> QED
    BY <2>1, <2>2, <2>3 DEF Intact
<1>2. Accounted(e, more)'
  <2>1. e.seq \in Nat /\ e.drops \in Nat /\ sent \in Nat /\ dropped \in Nat
    BY EventFacts, RingFacts
  <2> QED
    BY <2>1 DEF Accounted, Age, Overrun
<1> QED
  BY <1>1, <1>2

\* Steps that leave the main queue alone and send nothing.
LEMMA WritesRing ==
    ASSUME TypeOK, Ring, UNCHANGED <<packet_num, sent, dropped, main_queue, held>>,
           \A b \in Buffers : b # packet_num => van_packets'[b] = van_packets[b],
           Filled'
    PROVE  Ring'
<1>1. main_queue \in Seq(Events) /\ Len(main_queue) \in Nat /\ held \in Events
  BY RingFacts
<1>2. ASSUME NEW i \in 1 .. Len(main_queue')
      PROVE  Accounted(main_queue[i], Len(main_queue) - i)' /\ Fresh(main_queue[i])'
  <2>1. PICK e \in Events : e = main_queue[i]
    BY <1>1
  <2>2. PICK room \in Int : room = Len(main_queue) - i
    BY <1>1
  <2>3. Accounted(e, room) /\ Fresh(e)
    BY <2>1, <2>2 DEF Ring
  <2>4. Accounted(e, room)' /\ Fresh(e)'
    BY <2>3, KeepsPackets
  <2>5. main_queue'[i] = e /\ Len(main_queue') - i = room
    BY <2>1, <2>2
  <2> QED
    BY <2>4, <2>5
<1>3. Accounted(held, Len(main_queue))' /\ Fresh(held)'
  <2>1. PICK e \in Events : e = held
    BY <1>1
  <2>2. PICK room \in Int : room = Len(main_queue)
    BY <1>1
  <2>3. Accounted(e, room) /\ Fresh(e)
    BY <2>1, <2>2 DEF Ring
  <2>4. Accounted(e, room)' /\ Fresh(e)'
    BY <2>3, KeepsPackets
  <2> QED
    BY <2>1, <2>2, <2>4
<1>4. FramesInOrder'
  BY DEF Ring, FramesInOrder
<1> QED
  BY <1>2, <1>3, <1>4 DEF Ring

LEMMA FillHeadRing == ASSUME TypeOK, Ring, FillHead PROVE Ring'
<1>1. /\ van_packets' = [van_packets EXCEPT ![packet_num].head = sent + 1]
      /\ UNCHANGED <<packet_num, sent, dropped, main_queue, held>>
      /\ pc' = "data"
  BY DEF FillHead, ParseEnds, mainVars
<1>2. van_packets \in [Buffers -> [head : Nat, data : Nat]] /\ packet_num \in Buffers
  BY RingFacts
<1>3. Filled'
  BY <1>1, <1>2 DEF Filled
<1>4. \A b \in Buffers : b # packet_num => van_packets'[b] = van_packets[b]
  BY <1>1, <1>2
<1> QED
  BY <1>1, <1>3, <1>4, WritesRing

LEMMA FillDataRing == ASSUME TypeOK, Ring, FillData PROVE Ring'
<1>1. /\ van_packets' = [van_packets EXCEPT ![packet_num].data = sent + 1]
      /\ UNCHANGED <<packet_num, sent, dropped, main_queue, held>>
      /\ pc = "data" /\ pc' = "send"
  BY DEF FillData, mainVars
<1>2. van_packets \in [Buffers -> [head : Nat, data : Nat]] /\ packet_num \in Buffers
  BY RingFacts
<1>3. van_packets[packet_num].head = sent + 1
  BY <1>1 DEF Ring, Filled
<1>4. van_packets'[packet_num] = [head |-> sent + 1, data |-> sent + 1]
  <2>1. PICK packet \in [head : Nat, data : Nat] : packet = van_packets[packet_num]
    BY <1>2
  <2>2. packet.head = sent + 1
    BY <1>3, <2>1
  <2>3. [packet EXCEPT !.data = sent + 1] = [head |-> sent + 1, data |-> sent + 1]
    BY <2>2
  <2>4. van_packets'[packet_num] = [packet EXCEPT !.data = sent + 1]
    BY <1>1, <1>2, <2>1
  <2> QED
    BY <2>3, <2>4
<1>5. Filled'
  BY <1>1, <1>4 DEF Filled
<1>6. \A b \in Buffers : b # packet_num => van_packets'[b] = van_packets[b]
  BY <1>1, <1>2
<1> QED
  BY <1>1, <1>5, <1>6, WritesRing

\* A send makes every packet before it one older, and its own the latest.
LEMMA SendPacketRing == ASSUME TypeOK, Ring, SendPacket PROVE Ring'
<1> DEFINE event == [buffer |-> packet_num, seq |-> sent + 1, drops |-> dropped]
<1>1. /\ BuffersNum \in Nat \ {0} /\ packet_num \in Buffers /\ sent \in Nat /\ dropped \in Nat
      /\ main_queue \in Seq(Events) /\ Len(main_queue) \in Nat /\ held \in Events
  BY RingFacts
<1>2. PICK new \in Events :
        /\ new.buffer = packet_num /\ new.seq = sent + 1 /\ new.drops = dropped /\ IsPacket(new)
        /\ \/ main_queue' = Append(main_queue, new) /\ dropped' = dropped
           \/ main_queue' = main_queue /\ dropped' = dropped + 1
  <2>1. event \in Events /\ IsPacket(event)
    BY SendTypes
  <2>2. \/ main_queue' = Append(main_queue, event) /\ dropped' = dropped
        \/ main_queue' = main_queue /\ dropped' = dropped + 1
    BY SendTypes
  <2>3. event.buffer = packet_num /\ event.seq = sent + 1 /\ event.drops = dropped
    OBVIOUS
  <2> HIDE DEF event
  <2> QED
    BY <2>1, <2>2, <2>3
<1>3. /\ sent' = sent + 1 /\ packet_num' = NextPacket(packet_num) /\ held' = held
      /\ van_packets' = van_packets /\ pc = "send" /\ pc' = "receive"
  BY DEF SendPacket
<1>4. ASSUME NEW e \in Events, NEW room \in Int, Accounted(e, room), Fresh(e)
      PROVE  /\ Fresh(e)'
             /\ dropped' = dropped => Accounted(e, room + 1)'
             /\ dropped' = dropped + 1 => Accounted(e, room)'
  <2>1. CASE ~IsPacket(e)
    BY <2>1 DEF Accounted, Fresh, IsPacket
  <2>2. CASE IsPacket(e)
    <3>1. e.seq \in Nat /\ e.drops \in Nat
      BY EventFacts
    <3>2. e.seq <= sent /\ e.drops <= dropped /\ Age(e) - Overrun(e) <= room
      BY <1>4, <2>2 DEF Accounted
    <3>3. Fresh(e)'
      <4> SUFFICES ASSUME Age(e)' < BuffersNum - 1
                   PROVE  Intact(e)' /\ Distance(e.buffer)' = BuffersNum - 1 - Age(e)'
        BY DEF Fresh
      <4>1. Age(e)' = Age(e) + 1 /\ Age(e) \in Int
        BY <1>1, <1>3, <3>1 DEF Age
      <4>2. Age(e) < BuffersNum - 1
        BY <1>1, <4>1
      <4>3. Intact(e) /\ Distance(e.buffer) = BuffersNum - 1 - Age(e)
        BY <1>4, <2>2, <4>2 DEF Fresh
      <4>4. e.buffer # packet_num /\ e.buffer \in Buffers
        BY <1>4, <2>2, <4>2, NotAtIndex
      <4>5. Distance(e.buffer)' = Distance(e.buffer) - 1
        BY <1>1, <1>3, <4>4, GapStep DEF Distance
      <4>6. Intact(e)'
        BY <1>3, <4>3 DEF Intact
      <4> QED
        BY <1>1, <4>1, <4>3, <4>5, <4>6
    <3>4. ASSUME dropped' = dropped PROVE Accounted(e, room + 1)'
      BY <1>1, <1>3, <3>1, <3>2, <3>4 DEF Accounted, Age, Overrun
    <3>5. ASSUME dropped' = dropped + 1 PROVE Accounted(e, room)'
      BY <1>1, <1>3, <3>1, <3>2, <3>5 DEF Accounted, Age, Overrun
    <3> QED
      BY <3>3, <3>4, <3>5
  <2> QED
    BY <2>1, <2>2
<1>5. ASSUME dropped' = dropped PROVE Accounted(new, 0)' /\ Fresh(new)'
  <2>1. Age(new)' = 0 /\ Overrun(new)' = 0
    BY <1>1, <1>2, <1>3, <1>5 DEF Age, Overrun
  <2>2. Intact(new)'
    BY <1>2, <1>3 DEF Ring, Filled, Intact
  <2>3. Distance(new.buffer)' = BuffersNum - 1
    BY <1>1, <1>2, <1>3, GapStep DEF Distance
  <2> QED
    BY <1>1, <1>2, <1>3, <1>5, <2>1, <2>2, <2>3 DEF Accounted, Fresh
<1>6. ASSUME NEW i \in 1 .. Len(main_queue')
      PROVE  Accounted(main_queue[i], Len(main_queue) - i)' /\ Fresh(main_queue[i])'
  <2>1. CASE i \in 1 .. Len(main_queue) /\ main_queue'[i] = main_queue[i]
    <3>1. PICK e \in Events : e = main_queue[i]
      BY <1>1, <2>1
    <3>2. PICK room \in Int : room = Len(main_queue) - i
      BY <1>1
    <3>3. Accounted(e, room) /\ Fresh(e)
      BY <2>1, <3>1, <3>2 DEF Ring
    <3>4. \/ Len(main_queue') - i = room + 1 /\ dropped' = dropped
          \/ Len(main_queue') - i = room /\ dropped' = dropped + 1
      BY <1>1, <1>2, <3>2
    <3>5. /\ Fresh(e)'
          /\ dropped' = dropped => Accounted(e, room + 1)'
          /\ dropped' = dropped + 1 => Accounted(e, room)'
      BY <1>4, <3>3
    <3>6. main_queue'[i] = e
      BY <2>1, <3>1
    <3> QED
      BY <3>4, <3>5, <3>6
  <2>2. CASE dropped' = dropped /\ i = Len(main_queue') /\ main_queue'[i] = new
    <3>1. Len(main_queue') - i = 0
      BY <1>1, <1>2, <2>2
    <3> QED
      BY <1>5, <2>2, <3>1
  <2> QED
    BY <1>1, <1>2, <2>1, <2>2
<1>7. Accounted(held, Len(main_queue))' /\ Fresh(held)'
  <2>1. PICK e \in Events : e = held
    BY <1>1
  <2>2. PICK room \in Int : room = Len(main_queue)
    BY <1>1
  <2>3. Accounted(e, room) /\ Fresh(e)
    BY <2>1, <2>2 DEF Ring
  <2>4. \/ Len(main_queue') = room + 1 /\ dropped' = dropped
        \/ Len(main_queue') = room /\ dropped' = dropped + 1
    BY <1>1, <1>2, <2>2
  <2>5. /\ Fresh(e)'
        /\ dropped' = dropped => Accounted(e, room + 1)'
        /\ dropped' = dropped + 1 => Accounted(e, room)'
    BY <1>4, <2>3
  <2>6. held' = e
    BY <1>3, <2>1
  <2> QED
    BY <2>4, <2>5, <2>6
<1>8. FramesInOrder'
  <2>1. ASSUME NEW e \in Events, NEW room, Accounted(e, room), IsPacket(e)
        PROVE  e.seq < new.seq
    BY <1>1, <1>2, <2>1, EventFacts DEF Accounted
  <2>2. \A i \in 1 .. Len(main_queue) :
          IsPacket(main_queue[i]) => main_queue[i].seq < new.seq
    BY <1>1, <2>1 DEF Ring
  <2>3. IsPacket(held) => held.seq < new.seq
    BY <1>1, <2>1 DEF Ring
  <2>4. CASE main_queue' = main_queue
    BY <1>3, <2>4 DEF Ring, FramesInOrder
  <2>5. CASE main_queue' = Append(main_queue, new)
    <3>1. \A i \in 1 .. Len(main_queue') :
            \/ i = Len(main_queue') /\ main_queue'[i] = new
            \/ i \in 1 .. Len(main_queue) /\ i < Len(main_queue') /\ main_queue'[i] = main_queue[i]
      BY <1>1, <2>5
    <3>2. ASSUME NEW i \in 1 .. Len(main_queue'), NEW j \in 1 .. Len(main_queue'), i < j,
                 IsPacket(main_queue'[i]), IsPacket(main_queue'[j])
          PROVE  main_queue'[i].seq < main_queue'[j].seq
      <4>1. i \in 1 .. Len(main_queue) /\ main_queue'[i] = main_queue[i] /\ IsPacket(main_queue[i])
        BY <1>1, <3>1, <3>2
      <4>2. CASE main_queue'[j] = new
        BY <2>2, <4>1, <4>2
      <4>3. CASE j \in 1 .. Len(main_queue) /\ main_queue'[j] = main_queue[j]
        <5>1. FramesInOrder /\ IsPacket(main_queue[j])
          BY <3>2, <4>3 DEF Ring
        <5>2. main_queue[i].seq < main_queue[j].seq
          BY <3>2, <4>1, <4>3, <5>1 DEF FramesInOrder
        <5> QED
          BY <4>1, <4>3, <5>2
      <4> QED
        BY <3>1, <4>2, <4>3
    <3>3. \A i \in 1 .. Len(main_queue') :
            IsPacket(main_queue'[i]) /\ IsPacket(held') => held'.seq < main_queue'[i].seq
      BY <1>3, <2>3, <3>1 DEF Ring, FramesInOrder
    <3> QED
      BY <3>2, <3>3 DEF FramesInOrder, IsPacket
  <2> QED
    BY <1>2, <2>4, <2>5
<1>9. Filled'
  BY <1>3 DEF Filled
<1> QED
  BY <1>6, <1>7, <1>8, <1>9 DEF Ring

\* An event without a packet satisfies every claim about packets.
LEMMA OtherEventRing ==
    /\ OtherEvent \in Events
    /\ ~IsPacket(OtherEvent)
    /\ \A room : Accounted(OtherEvent, room)' /\ Fresh(OtherEvent)'
BY DEF Events, IsPacket, OtherEvent, Accounted, Fresh

\* Steps of main_task and of those who send it other events: each event of the queue was
\* there before with no more events behind it, or is another event.
LEMMA MainRing ==
    ASSUME TypeOK, Ring, UNCHANGED <<pc, packet_num, van_packets, sent, dropped>>,
           NEW shift \in {-1, 0, 1},
           Len(main_queue') \in Nat,
           \A i \in 1 .. Len(main_queue') :
              \/ main_queue'[i] = OtherEvent
              \/ /\ i + shift \in 1 .. Len(main_queue)
                 /\ main_queue'[i] = main_queue[i + shift]
                 /\ Len(main_queue) - (i + shift) <= Len(main_queue') - i,
           \/ held' = OtherEvent
           \/ held' = held /\ Len(main_queue') >= Len(main_queue)
           \/ /\ held' = main_queue[1] /\ main_queue # <<>>
              /\ shift = 1 /\ Len(main_queue') = Len(main_queue) - 1
    PROVE  Ring'
<1>1. main_queue \in Seq(Events) /\ Len(main_queue) \in Nat /\ held \in Events
  BY RingFacts
<1>2. ASSUME NEW e \in Events, NEW room \in Int, NEW more \in Int, room <= more,
             Accounted(e, room), Fresh(e)
      PROVE  Accounted(e, more)' /\ Fresh(e)'
  BY <1>2, KeepsPackets
<1>3. ASSUME NEW i \in 1 .. Len(main_queue')
      PROVE  Accounted(main_queue[i], Len(main_queue) - i)' /\ Fresh(main_queue[i])'
  <2>1. CASE main_queue'[i] = OtherEvent
    BY <2>1, OtherEventRing
  <2>2. CASE /\ i + shift \in 1 .. Len(main_queue)
             /\ main_queue'[i] = main_queue[i + shift]
             /\ Len(main_queue) - (i + shift) <= Len(main_queue') - i
    <3>1. PICK k \in 1 .. Len(main_queue) : k = i + shift
      BY <2>2
    <3>2. PICK e \in Events : e = main_queue[k]
      BY <1>1
    <3>3. PICK room \in Int : room = Len(main_queue) - k
      <4>1. Len(main_queue) \in Int /\ k \in Int
        BY <1>1
      <4> QED
        BY <4>1
    <3>4. PICK more \in Int : more = Len(main_queue') - i
      OBVIOUS
    <3>5. Accounted(e, room) /\ Fresh(e) /\ room <= more
      BY <2>2, <3>1, <3>2, <3>3, <3>4 DEF Ring
    <3>6. Accounted(e, more)' /\ Fresh(e)'
      BY <1>2, <3>5
    <3>7. main_queue'[i] = e
      BY <2>2, <3>1, <3>2
    <3> QED
      BY <3>4, <3>6, <3>7
  <2> QED
    BY <2>1, <2>2
<1>4. Accounted(held, Len(main_queue))' /\ Fresh(held)'
  <2>1. CASE held' = OtherEvent
    BY <2>1, OtherEventRing
  <2>2. CASE held' = held /\ Len(main_queue') >= Len(main_queue)
    <3>1. PICK e \in Events : e = held
      BY <1>1
    <3>2. PICK room \in Int : room = Len(main_queue)
      BY <1>1
    <3>3. PICK more \in Int : more = Len(main_queue')
      OBVIOUS
    <3>4. Accounted(e, room) /\ Fresh(e) /\ room <= more
      BY <2>2, <3>1, <3>2, <3>3 DEF Ring
    <3>5. Accounted(e, more)' /\ Fresh(e)'
      BY <1>2, <3>4
    <3> QED
      BY <2>2, <3>1, <3>3, <3>5
  <2>3. CASE held' = main_queue[1] /\ main_queue # <<>> /\ Len(main_queue') = Len(main_queue) - 1
    <3>1. 1 \in 1 .. Len(main_queue) /\ main_queue[1] \in Events
      BY <1>1, <2>3, First
    <3>2. PICK e \in Events : e = main_queue[1]
      BY <3>1
    <3>3. PICK room \in Int : room = Len(main_queue) - 1
      BY <1>1
    <3>4. Accounted(e, room) /\ Fresh(e)
      BY <3>1, <3>2, <3>3 DEF Ring
    <3>5. Accounted(e, room)' /\ Fresh(e)'
      BY <1>2, <3>4
    <3> QED
      BY <2>3, <3>2, <3>3, <3>5
  <2> QED
    BY <2>1, <2>2, <2>3
<1>5. FramesInOrder'
  <2>0. FramesInOrder
    BY DEF Ring
  <2>1. ASSUME NEW i \in 1 .. Len(main_queue'), NEW j \in 1 .. Len(main_queue'), i < j,
               IsPacket(main_queue'[i]), IsPacket(main_queue'[j])
        PROVE  main_queue'[i].seq < main_queue'[j].seq
    <3>1. i + shift \in 1 .. Len(main_queue) /\ main_queue'[i] = main_queue[i + shift]
      BY <2>1, OtherEventRing
    <3>2. j + shift \in 1 .. Len(main_queue) /\ main_queue'[j] = main_queue[j + shift]
      BY <2>1, OtherEventRing
    <3>3. i + shift < j + shift
      BY <2>1
    <3> QED
      BY <2>0, <2>1, <3>1, <3>2, <3>3 DEF FramesInOrder
  <2>2. ASSUME NEW i \in 1 .. Len(main_queue'), IsPacket(main_queue'[i]), IsPacket(held')
        PROVE  held'.seq < main_queue'[i].seq
    <3>1. i + shift \in 1 .. Len(main_queue) /\ main_queue'[i] = main_queue[i + shift]
      BY <2>2, OtherEventRing
    <3>2. CASE held' = held
      BY <2>0, <2>2, <3>1, <3>2 DEF FramesInOrder
    <3>3. CASE held' = main_queue[1] /\ main_queue # <<>> /\ shift = 1
      <4>1. 1 \in 1 .. Len(main_queue) /\ 1 < i + shift
        BY <1>1, <3>3, First
      <4> QED
        BY <2>0, <2>2, <3>1, <3>3, <4>1 DEF FramesInOrder
    <3> QED
      BY <2>2, <3>2, <3>3, OtherEventRing
  <2> QED
    BY <2>1, <2>2 DEF FramesInOrder, IsPacket
<1>6. Filled'
  BY DEF Ring, Filled
<1> QED
  BY <1>3, <1>4, <1>5, <1>6 DEF Ring

LEMMA InitRing == Init => Ring
<1> SUFFICES ASSUME Init PROVE Ring
  OBVIOUS
<1>1. main_queue = <<>> /\ ~IsPacket(held) /\ pc = "receive"
  BY DEF Init, IsPacket, OtherEvent
<1> QED
  BY <1>1 DEF Ring, Accounted, Fresh, Filled, FramesInOrder

LEMMA RingStep == Inv /\ Ring /\ [Next]_vars => Ring'
<1> SUFFICES ASSUME Inv, Ring, [Next]_vars PROVE Ring'
  OBVIOUS
<1>1. TypeOK
  BY DEF Inv
<1>2. main_queue \in Seq(Events) /\ Len(main_queue) \in Nat
  BY <1>1, RingFacts
<1>3. CASE /\ UNCHANGED <<packet_num, van_packets, sent, dropped, main_queue, held>>
           /\ pc' = pc \/ pc' \notin {"data", "send"}
  <2>1. Filled'
    BY <1>3 DEF Ring, Filled
  <2> QED
    BY <1>1, <1>3, <2>1, WritesRing
<1>4. ASSUME NEW frame \in Kinds, FrameEnds(frame) PROVE Ring'
  BY <1>3, <1>4 DEF FrameEnds, taskVars, ringVars, mainVars
<1>5. CASE Receive \/ ParseSymbols \/ RefusePacket
  BY <1>3, <1>5 DEF Receive, ParseSymbols, RefusePacket, ParseEnds, ringVars, mainVars
<1>6. CASE FillHead \/ FillData \/ SendPacket
  BY <1>1, <1>6, FillHeadRing, FillDataRing, SendPacketRing
<1>7. CASE PostOther
  <2>1. main_queue' = Append(main_queue, OtherEvent) /\ UNCHANGED <<taskVars, ringVars, held>>
    BY <1>7 DEF PostOther, SendToBack
  <2>2. PICK e \in Events : e = OtherEvent
    BY OtherEventRing
  <2>3. /\ Len(main_queue') = Len(main_queue) + 1
        /\ \A i \in 1 .. Len(main_queue') :
             main_queue'[i] = e \/ (i \in 1 .. Len(main_queue) /\ main_queue'[i] = main_queue[i])
    BY <1>2, <2>1, <2>2
  <2>4. \A i \in 1 .. Len(main_queue') :
          \/ main_queue'[i] = OtherEvent
          \/ /\ i + 0 \in 1 .. Len(main_queue)
             /\ main_queue'[i] = main_queue[i + 0]
             /\ Len(main_queue) - (i + 0) <= Len(main_queue') - i
    BY <1>2, <2>2, <2>3
  <2> QED
    BY <1>1, <1>2, <2>1, <2>3, <2>4, MainRing DEF taskVars, ringVars
<1>8. CASE PostOtherToFront
  <2>1. main_queue' = <<OtherEvent>> \o main_queue /\ UNCHANGED <<taskVars, ringVars, held>>
    BY <1>8 DEF PostOtherToFront, SendToFront
  <2>2. PICK e \in Events : e = OtherEvent
    BY OtherEventRing
  <2>3. /\ Len(main_queue') = Len(main_queue) + 1
        /\ \A i \in 1 .. Len(main_queue') :
             main_queue'[i] = e \/ (i - 1 \in 1 .. Len(main_queue) /\ main_queue'[i] = main_queue[i - 1])
    BY <1>2, <2>1, <2>2
  <2>4. \A i \in 1 .. Len(main_queue') :
          \/ main_queue'[i] = OtherEvent
          \/ /\ i + (-1) \in 1 .. Len(main_queue)
             /\ main_queue'[i] = main_queue[i + (-1)]
             /\ Len(main_queue) - (i + (-1)) <= Len(main_queue') - i
    <3> SUFFICES ASSUME NEW i \in 1 .. Len(main_queue'), main_queue'[i] # OtherEvent
                 PROVE  /\ i + (-1) \in 1 .. Len(main_queue)
                        /\ main_queue'[i] = main_queue[i + (-1)]
                        /\ Len(main_queue) - (i + (-1)) <= Len(main_queue') - i
      OBVIOUS
    <3>1. i - 1 \in 1 .. Len(main_queue) /\ main_queue'[i] = main_queue[i - 1] /\ i + (-1) = i - 1
      BY <2>2, <2>3
    <3> QED
      BY <1>2, <2>3, <3>1
  <2> QED
    BY <1>1, <1>2, <2>1, <2>3, <2>4, MainRing DEF taskVars, ringVars
<1>9. CASE MainTakes
  <2>1. /\ main_queue # <<>> /\ main_queue' = Tail(main_queue) /\ held' = main_queue[1]
        /\ UNCHANGED <<taskVars, ringVars>>
    BY <1>2, <1>9 DEF MainTakes
  <2>2. /\ Len(main_queue') = Len(main_queue) - 1 /\ Len(main_queue') \in Nat
        /\ \A i \in 1 .. Len(main_queue') :
             i + 1 \in 1 .. Len(main_queue) /\ main_queue'[i] = main_queue[i + 1]
    BY <1>2, <2>1
  <2>3. \A i \in 1 .. Len(main_queue') :
          \/ main_queue'[i] = OtherEvent
          \/ /\ i + 1 \in 1 .. Len(main_queue)
             /\ main_queue'[i] = main_queue[i + 1]
             /\ Len(main_queue) - (i + 1) <= Len(main_queue') - i
    BY <1>2, <2>2
  <2> QED
    BY <1>1, <2>1, <2>2, <2>3, MainRing DEF taskVars, ringVars
<1>10. CASE MainReleases
  <2>1. main_queue' = main_queue /\ held' = OtherEvent /\ UNCHANGED <<taskVars, ringVars>>
    BY <1>10 DEF MainReleases
  <2>2. \A i \in 1 .. Len(main_queue') :
          \/ main_queue'[i] = OtherEvent
          \/ /\ i + 0 \in 1 .. Len(main_queue)
             /\ main_queue'[i] = main_queue[i + 0]
             /\ Len(main_queue) - (i + 0) <= Len(main_queue') - i
    BY <1>2, <2>1
  <2> QED
    BY <1>1, <1>2, <2>1, <2>2, MainRing DEF taskVars, ringVars
<1>11. CASE UNCHANGED vars
  BY <1>3, <1>11 DEF vars, taskVars, ringVars, mainVars
<1> QED
  BY <1>4, <1>5, <1>6, <1>7, <1>8, <1>9, <1>10, <1>11 DEF Next, VanRmtTask

LEMMA RingHolds == Spec => []Ring
<1> QED
  BY InitRing, RingStep, InvariantHolds, PTL DEF Spec

\* Although van_rmt_task writes packets while main_task reads others, a queued packet
\* survives every loss of fewer than BuffersNum - QueueLen later ones, and the one being
\* read of one fewer (van_rmt_task.c:72-76, 138-142).
THEOREM FramesAreIntact == Spec => []FramesSurvive
<1>1. ASSUME TypeOK, NEW e \in Events, NEW room \in Int,
             IsPacket(e), Accounted(e, room), Fresh(e),
             room + Overrun(e) < BuffersNum - 1
      PROVE  Intact(e)
  <2>1. Age(e) \in Int /\ Overrun(e) \in Int /\ BuffersNum \in Int
    BY <1>1, EventFacts, RingFacts DEF Age, Overrun
  <2>2. Age(e) - Overrun(e) <= room
    BY <1>1 DEF Accounted
  <2>3. Age(e) < BuffersNum - 1
    BY <1>1, <2>1, <2>2
  <2> QED
    BY <1>1, <2>3 DEF Fresh
<1>2. Inv /\ Ring => FramesSurvive
  <2> SUFFICES ASSUME TypeOK, Ring PROVE FramesSurvive
    BY DEF Inv
  <2>1. /\ main_queue \in Seq(Events) /\ Len(main_queue) \in Nat /\ Len(main_queue) <= QueueLen
        /\ held \in Events /\ QueueLen \in Nat /\ BuffersNum \in Nat /\ dropped \in Nat
    BY RingFacts
  <2>2. ASSUME NEW i \in 1 .. Len(main_queue), IsPacket(main_queue[i]),
               Overrun(main_queue[i]) < BuffersNum - QueueLen
        PROVE  Intact(main_queue[i])
    <3>1. PICK e \in Events : e = main_queue[i]
      BY <2>1
    <3>2. PICK room \in Int : room = Len(main_queue) - i
      <4>1. Len(main_queue) \in Int /\ i \in Int
        BY <2>1
      <4> QED
        BY <4>1
    <3>3. Accounted(e, room) /\ Fresh(e) /\ IsPacket(e)
      BY <2>2, <3>1, <3>2 DEF Ring
    <3>4. Overrun(e) \in Int
      BY <2>1, EventFacts DEF Overrun
    <3>5. room + Overrun(e) < BuffersNum - 1
      BY <2>1, <2>2, <3>1, <3>2, <3>4
    <3> QED
      BY <1>1, <3>1, <3>3, <3>5
  <2>3. ASSUME IsPacket(held), Overrun(held) < BuffersNum - QueueLen - 1 PROVE Intact(held)
    <3>1. PICK e \in Events : e = held
      BY <2>1
    <3>2. PICK room \in Int : room = Len(main_queue)
      BY <2>1
    <3>3. Accounted(e, room) /\ Fresh(e) /\ IsPacket(e)
      BY <2>3, <3>1, <3>2 DEF Ring
    <3>4. Overrun(e) \in Int
      BY <2>1, EventFacts DEF Overrun
    <3>5. room + Overrun(e) < BuffersNum - 1
      BY <2>1, <2>3, <3>1, <3>2, <3>4
    <3> QED
      BY <1>1, <3>1, <3>3, <3>5
  <2> QED
    BY <2>2, <2>3 DEF FramesSurvive
<1> QED
  BY <1>2, InvariantHolds, RingHolds, PTL

\* main_task gets the packets of van_rmt_task in the order they were sent, and each of
\* them once (van_rmt_task.c:140).
THEOREM FramesReadInOrder == Spec => []FramesInOrder
<1>1. Ring => FramesInOrder
  BY DEF Ring
<1> QED
  BY <1>1, RingHolds, PTL
=============================================================================
