------------------------- MODULE CircularQueueProofs -------------------------
(***************************************************************************)
(* The circular queue implements a bounded FIFO, for every size.           *)
(***************************************************************************)
EXTENDS CircularQueue, TLAPS

\* The wrapped successor of an index, without the remainder.
LEMMA NextIndexIs ==
  ASSUME NEW i \in 0 .. size - 1
  PROVE  /\ Next_index(i) \in 0 .. size - 1
         /\ Next_index(i) = IF i + 1 = size THEN 0 ELSE i + 1
  <1>1. CASE i + 1 = size
    BY <1>1, SizeAssumption DEF Next_index
  <1>2. CASE i + 1 # size
    <2>1. (i + 1) % size = i + 1
      BY <1>2, SizeAssumption
    <2> QED BY <2>1, <1>2, SizeAssumption DEF Next_index
  <1> QED BY <1>1, <1>2

----------------------------------------------------------------------------
\* The inductive invariant: TypeOK and RingInv, the correspondence between
\* the ring and the histories.
IInv == TypeOK /\ RingInv

THEOREM InitIInv == Init => IInv
  BY SizeAssumption DEF Init, IInv, TypeOK, RingInv, Used, Slot

\* Every step of either thread, at any point of the other's call, keeps the
\* invariant.
THEOREM NextIInv == IInv /\ [Next]_vars => IInv'
  <1> SUFFICES ASSUME IInv, [Next]_vars PROVE IInv'
    OBVIOUS
  <1> USE SizeAssumption DEF IInv
  <1>0. /\ size \in Nat /\ size >= 2
        /\ tail \in 0 .. size - 1 /\ head \in 0 .. size - 1
        /\ Used \in 0 .. size - 1
        /\ Len(sent) \in Nat /\ Len(received) \in Nat
    BY DEF TypeOK, Used
  <1>1. ASSUME NEW m \in Msg, CheckFull(m) PROVE IInv'
    <2>1. head # IF tail + 1 = size THEN 0 ELSE tail + 1
      BY <1>1, <1>0, NextIndexIs DEF CheckFull
    <2>2. Used < size - 1
      BY <2>1, <1>0 DEF Used
    <2>3. TypeOK'
      BY <1>1 DEF CheckFull, TypeOK
    <2>4. RingInv'
      BY <1>1, <2>2 DEF CheckFull, RingInv, Used, Slot
    <2> QED BY <2>3, <2>4
  <1>2. CASE StoreItem
    <2>1. TypeOK'
      BY <1>2 DEF StoreItem, TypeOK, RingInv
    <2>2. \A k \in 0 .. size - 1 : k < Used => Slot(k) # tail
      BY <1>0 DEF Used, Slot
    <2>3. Used' = Used /\ \A k : Slot(k)' = Slot(k)
      BY <1>2 DEF StoreItem, Used, Slot
    <2>4. ASSUME NEW k \in 0 .. size - 1, k < Used'
          PROVE  objs'[Slot(k)'] = sent'[Len(received') + 1 + k]
      <3>0. k < Used /\ Slot(k) # tail
        BY <2>2, <2>3, <2>4
      <3>1. Slot(k) \in 0 .. size - 1 /\ Slot(k) # tail
        BY <3>0, <1>0 DEF Slot
      <3>2. objs'[Slot(k)] = objs[Slot(k)]
        BY <1>2, <3>1 DEF StoreItem, TypeOK
      <3> QED BY <1>2, <3>2, <2>3, <2>4 DEF StoreItem, RingInv
    <2>5. objs'[tail] = item
      BY <1>2, <1>0 DEF StoreItem, TypeOK
    <2>6. RingInv'
      BY <1>2, <2>3, <2>4, <2>5 DEF StoreItem, RingInv
    <2> QED BY <2>1, <2>6
  <1>3. CASE AdvanceTail
    <2>1. /\ tail' \in 0 .. size - 1
          /\ tail' = IF tail + 1 = size THEN 0 ELSE tail + 1
      BY <1>3, <1>0, NextIndexIs DEF AdvanceTail
    <2>2. item \in Msg /\ Used < size - 1 /\ objs[tail] = item
      BY <1>3 DEF AdvanceTail, RingInv
    <2>3. /\ sent' \in Seq(Msg) /\ Len(sent') = Len(sent) + 1
          /\ sent'[Len(sent) + 1] = item
          /\ \A i \in 1 .. Len(sent) : sent'[i] = sent[i]
      BY <1>3, <2>2 DEF AdvanceTail, TypeOK
    <2>4. TypeOK'
      BY <1>3, <2>1, <2>3 DEF AdvanceTail, TypeOK
    <2>5. Used' = Used + 1 /\ Slot(Used) = tail
      BY <1>3, <2>1, <2>2, <1>0 DEF AdvanceTail, Used, Slot
    <2>6. \A k : Slot(k)' = Slot(k)
      BY <1>3 DEF AdvanceTail, Slot
    <2>7. Len(sent) - Len(received) = Used
      BY DEF RingInv
    <2>8. ASSUME NEW k \in 0 .. size - 1, k < Used'
          PROVE  objs'[Slot(k)'] = sent'[Len(received') + 1 + k]
      <3>1. objs' = objs /\ received' = received
        BY <1>3 DEF AdvanceTail
      <3>2. CASE k < Used
        <4>1. objs[Slot(k)] = sent[Len(received) + 1 + k]
          BY <3>2 DEF RingInv
        <4>2. Len(received) + 1 + k \in 1 .. Len(sent)
          BY <3>2, <2>7, <1>0
        <4> QED BY <4>1, <4>2, <3>1, <2>6, <2>3
      <3>3. CASE k = Used
        BY <3>3, <3>1, <2>2, <2>3, <2>5, <2>6, <2>7, <1>0
      <3> QED BY <3>2, <3>3, <2>8, <2>5, <1>0
    <2>9. RingInv'
      <3>1. (Len(sent) - Len(received) = Used)'
        BY <1>3, <2>3, <2>5, <2>7, <1>0 DEF AdvanceTail
      <3>2. taker' = "advance" => got' = sent'[Len(received') + 1]
        BY <1>3, <2>3, <2>7, <1>0 DEF AdvanceTail, RingInv
      <3>3. adder' = "idle" /\ (taker' # "idle" => Used' > 0)
        BY <1>3, <2>5, <1>0 DEF AdvanceTail
      <3> QED BY <3>1, <3>2, <3>3, <2>8 DEF RingInv
    <2> QED BY <2>4, <2>9
  <1>4. CASE CheckEmpty
    BY <1>4, <1>0 DEF CheckEmpty, TypeOK, RingInv, Used, Slot
  <1>5. CASE LoadItem
    <2>1. Slot(0) = head /\ Used > 0
      BY <1>5, <1>0 DEF LoadItem, RingInv, Slot
    <2>2. objs[head] = sent[Len(received) + 1]
      BY <2>1, <1>0 DEF RingInv
    <2>3. TypeOK'
      BY <1>5, <1>0 DEF LoadItem, TypeOK
    <2>4. RingInv'
      BY <1>5, <2>2 DEF LoadItem, RingInv, Used, Slot
    <2> QED BY <2>3, <2>4
  <1>6. CASE AdvanceHead
    <2>1. /\ head' \in 0 .. size - 1
          /\ head' = IF head + 1 = size THEN 0 ELSE head + 1
      BY <1>6, <1>0, NextIndexIs DEF AdvanceHead
    <2>2. Used > 0 /\ got = sent[Len(received) + 1] /\ Len(sent) - Len(received) = Used
      BY <1>6 DEF AdvanceHead, RingInv
    <2>3. got \in Msg
      BY <2>2, <1>0 DEF TypeOK
    <2>4. received' \in Seq(Msg) /\ Len(received') = Len(received) + 1
      BY <1>6, <2>3 DEF AdvanceHead, TypeOK
    <2>5. TypeOK'
      BY <1>6, <2>1, <2>4 DEF AdvanceHead, TypeOK
    <2>6. Used' = Used - 1
      BY <1>6, <2>1, <2>2, <1>0 DEF AdvanceHead, Used
    <2>7. ASSUME NEW k \in 0 .. size - 1, k < Used'
          PROVE  objs'[Slot(k)'] = sent'[Len(received') + 1 + k]
      <3>1. k + 1 \in 0 .. size - 1 /\ k + 1 < Used
        BY <2>7, <2>6, <1>0
      <3>2. Slot(k)' = Slot(k + 1)
        BY <3>1, <2>1, <1>0 DEF Slot
      <3>3. objs[Slot(k + 1)] = sent[Len(received) + 1 + (k + 1)]
        BY <3>1 DEF RingInv
      <3> QED BY <3>2, <3>3, <2>4, <1>0, <1>6 DEF AdvanceHead
    <2>8. RingInv'
      <3>1. (Len(sent) - Len(received) = Used)'
        BY <1>6, <2>2, <2>4, <2>6, <1>0 DEF AdvanceHead
      <3>2. /\ taker' = "idle"
            /\ adder' # "idle" => item' \in Msg
            /\ adder' = "store" => Used' < size - 1
            /\ adder' = "advance" => Used' < size - 1 /\ objs'[tail'] = item'
        BY <1>6, <2>6, <1>0 DEF AdvanceHead, RingInv
      <3> QED BY <3>1, <3>2, <2>7 DEF RingInv
    <2> QED BY <2>5, <2>8
  <1>7. CASE UNCHANGED vars
    BY <1>7 DEF vars, TypeOK, RingInv, Used, Slot
  <1> QED BY <1>1, <1>2, <1>3, <1>4, <1>5, <1>6, <1>7 DEF Next

\* Indices stay in range, for every size.
THEOREM TypeCorrect == Spec => []TypeOK
  <1>1. Spec => []IInv
    BY InitIInv, NextIInv, PTL DEF Spec
  <1>2. IInv => TypeOK
    BY DEF IInv
  <1> QED BY <1>1, <1>2, PTL

\* The ring always holds exactly the objects queued and not handed out.
THEOREM RingCorrect == Spec => []RingInv
  <1>1. Spec => []IInv
    BY InitIInv, NextIInv, PTL DEF Spec
  <1>2. IInv => RingInv
    BY DEF IInv
  <1> QED BY <1>1, <1>2, PTL

----------------------------------------------------------------------------
\* Every step of the queue is a step of the FIFO or leaves it alone.
LEMMA StepRefines ==
  ASSUME IInv, [Next]_vars
  PROVE  [Fifo!Next]_<<sent, received>>
  <1> USE SizeAssumption DEF IInv
  <1>0. /\ size \in Nat /\ size >= 2
        /\ Len(sent) - Len(received) = Used /\ Used \in 0 .. size - 1
        /\ Len(sent) \in Nat /\ Len(received) \in Nat
    BY DEF TypeOK, Used, RingInv
  <1>1. CASE AdvanceTail
    <2>1. item \in Msg /\ Len(sent) - Len(received) < size - 1
      BY <1>1, <1>0 DEF AdvanceTail, RingInv
    <2>2. Fifo!Send(item)
      BY <1>1, <2>1 DEF AdvanceTail, Fifo!Send
    <2> QED BY <2>1, <2>2 DEF Fifo!Next
  <1>2. CASE AdvanceHead
    <2>1. Len(received) < Len(sent) /\ got = sent[Len(received) + 1]
      BY <1>2, <1>0 DEF AdvanceHead, RingInv
    <2>2. Fifo!Receive
      BY <1>2, <2>1 DEF AdvanceHead, Fifo!Receive
    <2> QED BY <2>2 DEF Fifo!Next
  <1>3. CASE ~AdvanceTail /\ ~AdvanceHead
    <2>1. UNCHANGED <<sent, received>>
      BY <1>3 DEF Next, vars, CheckFull, StoreItem, CheckEmpty, LoadItem
    <2> QED BY <2>1
  <1> QED BY <1>1, <1>2, <1>3

\* enQueue and deQueue, called by one thread each without a lock, implement
\* a FIFO that holds size - 1 objects.
THEOREM QueueImplementsFifo == Spec => ImplementsFifo
  <1>1. Init => Fifo!Init
    BY DEF Init, Fifo!Init
  <1>2. Spec => []IInv
    BY InitIInv, NextIInv, PTL DEF Spec
  <1>3. IInv /\ [Next]_vars => [Fifo!Next]_<<sent, received>>
    BY StepRefines
  <1> QED BY <1>1, <1>2, <1>3, PTL DEF Spec, ImplementsFifo, Fifo!Spec
=============================================================================
