------------------------- MODULE KernelQueueProofs -------------------------
(***************************************************************************)
(* The kernel's message queue implements a FIFO for every MSG_Q_SIZE and   *)
(* any number of requests, if no handler is so short that the other CPU is *)
(* still between the two stores of an index when it has run. Without that  *)
(* hypothesis only the types are proved: the model checker shows a request *)
(* handled twice.                                                          *)
(*                                                                         *)
(* An index that is being advanced counts as wrapped already, and the      *)
(* entry whose place was given back belongs to the popper until it has     *)
(* been read: the pusher cannot reach it, because the ring is full one     *)
(* place earlier.                                                          *)
(***************************************************************************)
EXTENDS KernelQueue, TLAPS

\* The place an index names once it is wrapped.
At(i) == IF i = MSG_Q_SIZE THEN 0 ELSE i

\* Places from h to t, going round the ring.
Distance(t, h) == IF t >= h THEN t - h ELSE t - h + MSG_Q_SIZE

Used == Distance(At(tail), At(head))
Slot(k) == IF At(head) + k < MSG_Q_SIZE THEN At(head) + k ELSE At(head) + k - MSG_Q_SIZE

\* An entry whose place was given back and that has not been read completely.
Reading == popper \in {"wrap", "ptr", "type"}
Taken == IF Reading THEN 1 ELSE 0

Request(o) == [ptr |-> o, type |-> o]

\* The ring holds the requests pushed and not taken, in order.
RingHolds ==
  /\ Len(sent) = Len(received) + Taken + Used
  /\ \A k \in Index : k < Used => entries[Slot(k)] = Request(sent[Len(received) + Taken + 1 + k])

\* What the pushing CPU has established where it is.
PusherAt ==
  /\ pusher # "idle" => obj \in Obj
  /\ pusher \in {"ptr", "type", "inc"} => Used < MSG_Q_SIZE - 1
  /\ pusher \in {"type", "inc"} => entries[tail].ptr = obj
  /\ pusher = "inc" => entries[tail].type = obj
  /\ pusher = "wrap" /\ popper = "idle" => Used > 0

\* What the popping CPU has established where it is.
PopperAt ==
  /\ popper = "inc" => Used > 0 /\ entry_index = head
  /\ Reading =>
       /\ entry_index = IF At(head) = 0 THEN MSG_Q_SIZE - 1 ELSE At(head) - 1
       /\ entries[entry_index] = Request(sent[Len(received) + 1])
  /\ popper = "type" => popped.ptr = sent[Len(received) + 1]

\* What has been handled is a beginning of what was pushed.
InOrder ==
  /\ received \in Seq(Entry)
  /\ \A i \in DOMAIN received : received[i] = Request(sent[i])

KInv == RingHolds /\ PusherAt /\ PopperAt /\ InOrder

----------------------------------------------------------------------------
(* Indices. *)

LEMMA WrapIs ==
  ASSUME NEW i \in 0 .. MSG_Q_SIZE
  PROVE  i % MSG_Q_SIZE = At(i) /\ At(i) \in Index
<1>1. CASE i = MSG_Q_SIZE
  BY <1>1, SizeAssumption DEF At, Index
<1>2. CASE i # MSG_Q_SIZE
  <2>1. i \in Nat /\ i < MSG_Q_SIZE
    BY <1>2, SizeAssumption
  <2>2. i % MSG_Q_SIZE = i
    BY <2>1, SizeAssumption
  <2> QED BY <1>2, <2>1, <2>2, SizeAssumption DEF At, Index
<1> QED BY <1>1, <1>2

LEMMA DistanceSteps ==
  ASSUME NEW t \in Index, NEW h \in Index
  PROVE  /\ Distance(t, h) \in Index
         /\ t # h => Distance(t, h) > 0
         /\ h # At(t + 1) => Distance(t, h) < MSG_Q_SIZE - 1
         /\ Distance(t, h) < MSG_Q_SIZE - 1 => Distance(At(t + 1), h) = Distance(t, h) + 1
         /\ Distance(t, h) > 0 => Distance(t, At(h + 1)) = Distance(t, h) - 1
<1>1. /\ MSG_Q_SIZE \in Int /\ t \in Int /\ h \in Int
      /\ 0 <= t /\ t < MSG_Q_SIZE /\ 0 <= h /\ h < MSG_Q_SIZE
  BY SizeAssumption DEF Index
<1>2. Distance(t, h) \in Index
  BY <1>1 DEF Distance, Index
<1>3. t # h => Distance(t, h) > 0
  BY <1>1 DEF Distance
<1>4. h # At(t + 1) => Distance(t, h) < MSG_Q_SIZE - 1
  BY <1>1 DEF Distance, At
<1>5. Distance(t, h) < MSG_Q_SIZE - 1 => Distance(At(t + 1), h) = Distance(t, h) + 1
  BY <1>1 DEF Distance, At
<1>6. Distance(t, h) > 0 => Distance(t, At(h + 1)) = Distance(t, h) - 1
  BY <1>1 DEF Distance, At
<1> QED BY <1>2, <1>3, <1>4, <1>5, <1>6

LEMMA Places ==
  ASSUME TypeOK
  PROVE  /\ MSG_Q_SIZE \in Nat /\ MSG_Q_SIZE >= 2
         /\ At(tail) \in Index /\ At(head) \in Index /\ Used \in Index
         /\ pusher # "wrap" => At(tail) = tail
         /\ popper # "wrap" => At(head) = head
         /\ \A k \in Index : Slot(k) \in Index /\ (k < Used => Slot(k) # At(tail))
<1>1. MSG_Q_SIZE \in Nat /\ MSG_Q_SIZE >= 2 /\ At(tail) \in Index /\ At(head) \in Index
  BY WrapIs, SizeAssumption DEF TypeOK
<1>2. (pusher # "wrap" => At(tail) = tail) /\ (popper # "wrap" => At(head) = head)
  BY <1>1 DEF TypeOK, At, Index
<1>3. Used \in Index
  BY <1>1, DistanceSteps DEF Used
<1>4. \A k \in Index : Slot(k) \in Index /\ (k < Used => Slot(k) # At(tail))
  BY <1>1, <1>3 DEF Slot, Used, Distance, Index
<1> QED BY <1>1, <1>2, <1>3, <1>4

----------------------------------------------------------------------------
(* Type correctness, whatever the handlers do. *)

TInv == TypeOK /\ (pusher # "idle" => obj \in Obj)

LEMMA InitTInv == Init => TInv
  BY SizeAssumption DEF Init, TInv, TypeOK, Index, Entry

LEMMA NextTInv == TInv /\ [Next]_vars => TInv'
<1> SUFFICES ASSUME TInv, [Next]_vars PROVE TInv'
  OBVIOUS
<1> USE SizeAssumption DEF TInv, TypeOK, Index, pushVars, popVars
<1>1. ASSUME NEW o \in Obj, PushBegin(o) PROVE TInv'
  BY <1>1 DEF PushBegin
<1>2. CASE StorePtr
  BY <1>2 DEF StorePtr, Entry
<1>3. CASE StoreType
  BY <1>3 DEF StoreType, Entry
<1>4. CASE IncrementTail
  BY <1>4 DEF IncrementTail
<1>5. CASE WrapTail
  <2>1. tail' \in Index
    BY <1>5, WrapIs DEF WrapTail
  <2> QED BY <1>5, <2>1 DEF WrapTail
<1>6. CASE PopBegin
  BY <1>6 DEF PopBegin
<1>7. CASE IncrementHead
  BY <1>7 DEF IncrementHead
<1>8. CASE WrapHead
  <2>1. head' \in Index
    BY <1>8, WrapIs DEF WrapHead
  <2> QED BY <1>8, <2>1 DEF WrapHead
<1>9. CASE LoadPtr
  BY <1>9 DEF LoadPtr, Entry
<1>10. CASE LoadType
  BY <1>10 DEF LoadType, Entry
<1>11. CASE HandlerReturns
  BY <1>11 DEF HandlerReturns
<1>12. CASE UNCHANGED vars
  BY <1>12 DEF vars
<1> QED BY <1>1, <1>2, <1>3, <1>4, <1>5, <1>6, <1>7, <1>8, <1>9, <1>10, <1>11, <1>12
        DEF Next, Push, Pop

LEMMA TInvariance == Spec => []TInv
  BY InitTInv, NextTInv, PTL DEF Spec

\* An index of the queue is out of range only between the two stores that
\* advance it, and every access to the entries is in range.
THEOREM TypeCorrect == Spec => []TypeOK
<1>1. TInv => TypeOK
  BY DEF TInv
<1> QED BY <1>1, TInvariance, PTL

----------------------------------------------------------------------------
(* The queue is a FIFO: the steps of the pushing CPU. *)

IInv == TInv /\ KInv

LEMMA Lengths ==
  ASSUME IInv
  PROVE  Len(sent) \in Nat /\ Len(received) \in Nat /\ Taken \in {0, 1}
  BY DEF IInv, TInv, KInv, TypeOK, InOrder, Taken

LEMMA InitKInv == Init => KInv
<1> SUFFICES ASSUME Init PROVE KInv
  OBVIOUS
<1>1. Used = 0 /\ Taken = 0 /\ ~Reading
  BY SizeAssumption DEF Init, Used, Distance, At, Taken, Reading
<1>2. sent = <<>> /\ received = <<>> /\ pusher = "idle" /\ popper = "idle"
  BY DEF Init
<1>3. RingHolds
  BY <1>1, <1>2, SizeAssumption DEF RingHolds, Index
<1>4. InOrder
  BY <1>2 DEF InOrder
<1> QED BY <1>1, <1>2, <1>3, <1>4 DEF KInv, PusherAt, PopperAt

LEMMA PushBeginKeeps ==
  ASSUME IInv, HandlersOutlast, NEW o \in Obj, PushBegin(o)
  PROVE  KInv'
<1> USE DEF IInv, TInv, KInv
<1>1. /\ popper # "wrap" /\ pusher = "idle" /\ NotFull
      /\ pusher' = "ptr" /\ obj' = o
      /\ UNCHANGED <<tail, sent, entries, head, popper, entry_index, popped, received>>
  BY DEF PushBegin, popVars
<1>2. head = At(head) /\ tail = At(tail) /\ tail \in Index
  BY <1>1, Places
<1>3. head # At(tail + 1)
  BY <1>1, <1>2, WrapIs, SizeAssumption DEF NotFull, Index
<1>4. Used < MSG_Q_SIZE - 1
  <2>1. At(tail) \in Index /\ At(head) \in Index
    BY Places
  <2> QED BY <1>2, <1>3, <2>1, DistanceSteps DEF Used
<1>5. Used' = Used /\ Taken' = Taken /\ (Reading' <=> Reading) /\ \A k : Slot(k)' = Slot(k)
  BY <1>1 DEF Used, Distance, Taken, Reading, Slot, At
<1>6. RingHolds'
  BY <1>1, <1>5 DEF RingHolds
<1>7. PusherAt'
  BY <1>1, <1>4, <1>5 DEF PusherAt
<1>8. PopperAt' /\ InOrder'
  BY <1>1, <1>5 DEF PopperAt, InOrder, At
<1> QED BY <1>6, <1>7, <1>8

\* The stores of an entry touch neither the requests queued nor the one being
\* read.
LEMMA StoreKeeps ==
  ASSUME IInv, TInv', pusher \in {"ptr", "type"}, pusher' \in {"type", "inc"},
         UNCHANGED <<tail, sent, obj, popVars>>,
         \A i \in Index \ {tail} : entries'[i] = entries[i]
  PROVE  RingHolds' /\ PopperAt' /\ InOrder'
<1> USE DEF IInv, TInv, KInv
<1>1. UNCHANGED <<head, popper, entry_index, popped, received>>
  BY DEF popVars
<1>2. /\ MSG_Q_SIZE \in Nat /\ At(tail) = tail /\ tail \in Index /\ At(head) \in Index
      /\ Used \in Index /\ Used < MSG_Q_SIZE - 1
  BY Places DEF PusherAt
<1>3. Used' = Used /\ Taken' = Taken /\ (Reading' <=> Reading) /\ \A k : Slot(k)' = Slot(k)
  BY <1>1 DEF Used, Distance, Taken, Reading, Slot, At
<1>4. \A k \in Index : k < Used => Slot(k) \in Index \ {tail}
  BY <1>2, Places
<1>5. RingHolds'
  BY <1>1, <1>3, <1>4 DEF RingHolds
<1>6. Reading => entry_index \in Index \ {tail}
  BY <1>2 DEF PopperAt, Used, Distance, Index
<1>7. PopperAt'
  BY <1>1, <1>3, <1>6 DEF PopperAt, At
<1>8. InOrder'
  BY <1>1 DEF InOrder
<1> QED BY <1>5, <1>7, <1>8

LEMMA StorePtrKeeps ==
  ASSUME IInv, TInv', StorePtr
  PROVE  KInv'
<1> USE DEF IInv, TInv, KInv
<1>1. /\ pusher = "ptr" /\ pusher' = "type" /\ UNCHANGED <<tail, sent, obj, popVars>>
      /\ entries' = [entries EXCEPT ![tail].ptr = obj]
  BY DEF StorePtr
<1>2. tail \in Index /\ entries \in [Index -> Entry]
  BY <1>1 DEF TypeOK
<1>3. entries'[tail].ptr = obj /\ \A i \in Index \ {tail} : entries'[i] = entries[i]
  BY <1>1, <1>2 DEF Entry
<1>4. RingHolds' /\ PopperAt' /\ InOrder'
  BY <1>1, <1>3, StoreKeeps
<1>5. PusherAt'
  BY <1>1, <1>3 DEF PusherAt, Used, At, popVars
<1> QED BY <1>4, <1>5

LEMMA StoreTypeKeeps ==
  ASSUME IInv, TInv', StoreType
  PROVE  KInv'
<1> USE DEF IInv, TInv, KInv
<1>1. /\ pusher = "type" /\ pusher' = "inc" /\ UNCHANGED <<tail, sent, obj, popVars>>
      /\ entries' = [entries EXCEPT ![tail].type = obj]
  BY DEF StoreType
<1>2. tail \in Index /\ entries \in [Index -> Entry]
  BY <1>1 DEF TypeOK
<1>3. /\ entries'[tail].type = obj /\ entries'[tail].ptr = entries[tail].ptr
      /\ \A i \in Index \ {tail} : entries'[i] = entries[i]
  BY <1>1, <1>2 DEF Entry
<1>4. RingHolds' /\ PopperAt' /\ InOrder'
  BY <1>1, <1>3, StoreKeeps
<1>5. PusherAt'
  BY <1>1, <1>3 DEF PusherAt, Used, At, popVars
<1> QED BY <1>4, <1>5

\* The request becomes visible: the ring holds one more.
LEMMA IncrementTailKeeps ==
  ASSUME IInv, TInv', IncrementTail
  PROVE  KInv'
<1> USE DEF IInv, TInv, KInv
<1>1. /\ pusher = "inc" /\ pusher' = "wrap" /\ tail' = tail + 1 /\ sent' = Append(sent, obj)
      /\ UNCHANGED <<obj, entries, head, popper, entry_index, popped, received>>
  BY DEF IncrementTail, popVars
<1>2. /\ MSG_Q_SIZE \in Nat /\ At(tail) = tail /\ tail \in Index /\ At(head) \in Index
      /\ Used \in Index /\ Used < MSG_Q_SIZE - 1
  <2>1. pusher # "wrap" /\ Used < MSG_Q_SIZE - 1
    BY <1>1 DEF PusherAt
  <2> QED BY <2>1, Places
<1>3. Used' = Used + 1
  <2>1. Used' = Distance(At(tail + 1), At(head))
    BY <1>1 DEF Used, At, Distance
  <2> QED BY <1>2, <2>1, DistanceSteps DEF Used
<1>4. Taken' = Taken /\ (Reading' <=> Reading) /\ \A k : Slot(k)' = Slot(k)
  BY <1>1 DEF Taken, Reading, Slot, At
<1>5. /\ obj \in Obj /\ sent \in Seq(Obj) /\ Len(sent) \in Nat /\ Len(received) \in Nat
      /\ Taken \in {0, 1}
      /\ Len(sent') = Len(sent) + 1 /\ sent'[Len(sent) + 1] = obj
      /\ \A i \in 1 .. Len(sent) : sent'[i] = sent[i]
  BY <1>1, Lengths DEF PusherAt, TypeOK
<1>6. Slot(Used) = tail
  BY <1>2 DEF Slot, Used, Distance, Index
<1>7. entries[tail] = Request(obj)
  <2>1. entries[tail] \in Entry /\ entries[tail].ptr = obj /\ entries[tail].type = obj
    BY <1>1, <1>2 DEF PusherAt, TypeOK
  <2> QED BY <2>1 DEF Entry, Request
<1>8. RingHolds'
  <2>1. Len(sent') = Len(received') + Taken' + Used'
    BY <1>1, <1>2, <1>3, <1>4, <1>5, SMTT(30) DEF RingHolds, Index
  <2>2. ASSUME NEW k \in Index, k < Used'
        PROVE  entries'[Slot(k)'] = Request(sent'[Len(received') + Taken' + 1 + k])
    <3>1. CASE k < Used
      <4>1. Len(received) + Taken + 1 + k \in 1 .. Len(sent)
        BY <1>2, <1>5, <3>1 DEF RingHolds, Index
      <4> QED BY <1>1, <1>4, <1>5, <3>1, <4>1 DEF RingHolds
    <3>2. CASE k = Used
      <4>1. Len(received) + Taken + 1 + k = Len(sent) + 1
        BY <1>2, <1>5, <3>2 DEF RingHolds, Index
      <4> QED BY <1>1, <1>4, <1>5, <1>6, <1>7, <3>2, <4>1
    <3> QED BY <1>2, <1>3, <2>2, <3>1, <3>2 DEF Index
  <2> QED BY <2>1, <2>2 DEF RingHolds
<1>9. PusherAt'
  BY <1>1, <1>2, <1>3, <1>5 DEF PusherAt, Index
<1>10. PopperAt'
  <2>1. Reading => Len(received) + 1 \in 1 .. Len(sent)
    BY <1>2, <1>5 DEF RingHolds, Index, Taken
  <2>2. popper = "type" => Reading
    BY DEF Reading
  <2> QED BY <1>1, <1>2, <1>3, <1>4, <1>5, <2>1, <2>2 DEF PopperAt, Index, At
<1>11. InOrder'
  <2>1. Len(received) <= Len(sent) /\ DOMAIN received = 1 .. Len(received)
    BY <1>2, <1>5 DEF RingHolds, Index, InOrder
  <2> QED BY <1>1, <1>5, <2>1 DEF InOrder
<1> QED BY <1>8, <1>9, <1>10, <1>11

LEMMA WrapTailKeeps ==
  ASSUME IInv, WrapTail
  PROVE  KInv'
<1> USE DEF IInv, TInv, KInv
<1>1. /\ pusher = "wrap" /\ pusher' = "idle" /\ tail' = tail % MSG_Q_SIZE
      /\ UNCHANGED <<obj, sent, entries, head, popper, entry_index, popped, received>>
  BY DEF WrapTail, popVars
<1>2. At(tail') = At(tail)
  <2>1. tail' = At(tail) /\ At(tail) \in Index
    BY <1>1, WrapIs DEF TypeOK
  <2> QED BY <2>1, SizeAssumption DEF At, Index
<1>3. Used' = Used /\ Taken' = Taken /\ (Reading' <=> Reading) /\ \A k : Slot(k)' = Slot(k)
  BY <1>1, <1>2 DEF Used, Distance, Taken, Reading, Slot
<1>4. RingHolds'
  BY <1>1, <1>3 DEF RingHolds
<1>5. PusherAt' /\ PopperAt' /\ InOrder'
  BY <1>1, <1>2, <1>3 DEF PusherAt, PopperAt, InOrder
<1> QED BY <1>4, <1>5

----------------------------------------------------------------------------
(* The steps of the popping CPU. *)

LEMMA PopBeginKeeps ==
  ASSUME IInv, PopBegin
  PROVE  KInv'
<1> USE DEF IInv, TInv, KInv
<1>1. /\ popper = "idle" /\ head # tail /\ entry_index' = head /\ popper' = "inc"
      /\ UNCHANGED <<head, popped, received, entries, tail, pusher, obj, sent>>
  BY DEF PopBegin, pushVars
<1>2. Used > 0
  <2>1. CASE pusher = "wrap"
    BY <1>1, <2>1 DEF PusherAt
  <2>2. CASE pusher # "wrap"
    <3>1. At(head) = head /\ At(tail) = tail /\ head \in Index /\ tail \in Index
      BY <1>1, <2>2, Places
    <3> QED BY <1>1, <3>1, DistanceSteps DEF Used
  <2> QED BY <2>1, <2>2
<1>3. Used' = Used /\ Taken' = Taken /\ ~Reading' /\ \A k : Slot(k)' = Slot(k)
  BY <1>1 DEF Used, Distance, Taken, Reading, Slot, At
<1>4. RingHolds'
  BY <1>1, <1>3 DEF RingHolds
<1>5. PusherAt' /\ PopperAt' /\ InOrder'
  BY <1>1, <1>2, <1>3 DEF PusherAt, PopperAt, InOrder
<1> QED BY <1>4, <1>5

\* The place of the first entry is given back; the entry is still to be read.
LEMMA IncrementHeadKeeps ==
  ASSUME IInv, IncrementHead
  PROVE  KInv'
<1> USE DEF IInv, TInv, KInv
<1>1. /\ popper = "inc" /\ popper' = "wrap" /\ head' = head + 1
      /\ UNCHANGED <<entry_index, popped, received, entries, tail, pusher, obj, sent>>
  BY DEF IncrementHead, pushVars
<1>2. /\ MSG_Q_SIZE \in Nat /\ MSG_Q_SIZE >= 2 /\ At(head) = head /\ head \in Index
      /\ At(tail) \in Index /\ Used \in Index /\ Used > 0 /\ entry_index = head
  <2>1. popper # "wrap" /\ Used > 0 /\ entry_index = head
    BY <1>1 DEF PopperAt
  <2> QED BY <2>1, Places
<1>3. Used' = Used - 1
  <2>1. Used' = Distance(At(tail), At(head + 1))
    BY <1>1 DEF Used, At, Distance
  <2> QED BY <1>2, <2>1, DistanceSteps DEF Used
<1>4. Taken = 0 /\ Taken' = 1 /\ Reading' /\ ~Reading
  BY <1>1 DEF Taken, Reading
<1>5. Len(sent) \in Nat /\ Len(received) \in Nat
  BY Lengths
<1>6. RingHolds'
  <2>1. Len(sent') = Len(received') + Taken' + Used'
    BY <1>1, <1>2, <1>3, <1>4, <1>5 DEF RingHolds, Index
  <2>2. ASSUME NEW k \in Index, k < Used'
        PROVE  entries'[Slot(k)'] = Request(sent'[Len(received') + Taken' + 1 + k])
    <3>1. k + 1 \in Index /\ k + 1 < Used
      BY <1>2, <1>3, <2>2 DEF Index
    <3>2. Slot(k)' = Slot(k + 1)
      BY <1>1, <1>2, <3>1 DEF Slot, At, Index
    <3>3. Len(received) + Taken + 1 + (k + 1) = Len(received') + Taken' + 1 + k
      BY <1>1, <1>4, <1>5 DEF Index
    <3> QED BY <1>1, <3>1, <3>2, <3>3 DEF RingHolds
  <2> QED BY <2>1, <2>2 DEF RingHolds
<1>7. PusherAt'
  BY <1>1, <1>2, <1>3 DEF PusherAt, Index
<1>8. PopperAt'
  <2>1. entry_index' = IF At(head') = 0 THEN MSG_Q_SIZE - 1 ELSE At(head') - 1
    BY <1>1, <1>2 DEF At, Index
  <2>2. Slot(0) = head /\ 0 \in Index
    BY <1>2 DEF Slot, Index
  <2>3. entries[Slot(0)] = Request(sent[Len(received) + Taken + 1 + 0])
    BY <1>2, <2>2 DEF RingHolds
  <2>4. entries[head] = Request(sent[Len(received) + 1])
    BY <1>4, <1>5, <2>2, <2>3
  <2> QED BY <1>1, <1>2, <2>1, <2>4 DEF PopperAt
<1>9. InOrder'
  BY <1>1 DEF InOrder
<1> QED BY <1>6, <1>7, <1>8, <1>9

LEMMA WrapHeadKeeps ==
  ASSUME IInv, WrapHead
  PROVE  KInv'
<1> USE DEF IInv, TInv, KInv
<1>1. /\ popper = "wrap" /\ popper' = "ptr" /\ head' = head % MSG_Q_SIZE
      /\ UNCHANGED <<entry_index, popped, received, entries, tail, pusher, obj, sent>>
  BY DEF WrapHead, pushVars
<1>2. At(head') = At(head)
  <2>1. head' = At(head) /\ At(head) \in Index
    BY <1>1, WrapIs DEF TypeOK
  <2> QED BY <2>1, SizeAssumption DEF At, Index
<1>3. Used' = Used /\ Taken' = Taken /\ Reading /\ Reading' /\ \A k : Slot(k)' = Slot(k)
  BY <1>1, <1>2 DEF Used, Distance, Taken, Reading, Slot
<1>4. RingHolds'
  BY <1>1, <1>3 DEF RingHolds
<1>5. PusherAt' /\ PopperAt' /\ InOrder'
  BY <1>1, <1>2, <1>3 DEF PusherAt, PopperAt, InOrder
<1> QED BY <1>4, <1>5

LEMMA LoadPtrKeeps ==
  ASSUME IInv, LoadPtr
  PROVE  KInv'
<1> USE DEF IInv, TInv, KInv
<1>1. /\ popper = "ptr" /\ popper' = "type"
      /\ popped' = [popped EXCEPT !.ptr = entries[entry_index].ptr]
      /\ UNCHANGED <<head, entry_index, received, entries, tail, pusher, obj, sent>>
  BY DEF LoadPtr, pushVars
<1>2. Used' = Used /\ Taken' = Taken /\ Reading /\ Reading' /\ \A k : Slot(k)' = Slot(k)
  BY <1>1 DEF Used, Distance, Taken, Reading, Slot, At
<1>3. popped'.ptr = sent[Len(received) + 1]
  <2>1. popped'.ptr = entries[entry_index].ptr
    BY <1>1 DEF TypeOK, Entry
  <2> QED BY <1>2, <2>1 DEF PopperAt, Request
<1>4. RingHolds'
  BY <1>1, <1>2 DEF RingHolds
<1>5. PusherAt' /\ PopperAt' /\ InOrder'
  BY <1>1, <1>2, <1>3 DEF PusherAt, PopperAt, InOrder, At
<1> QED BY <1>4, <1>5

\* What the handler gets is the next request, whole.
LEMMA LoadedWhole ==
  ASSUME IInv, LoadType
  PROVE  /\ Len(received) + 1 \in DOMAIN sent
         /\ popped' = Request(sent[Len(received) + 1])
         /\ received' = Append(received, popped')
<1> USE DEF IInv, TInv, KInv
<1>1. /\ popper = "type" /\ popped' = [popped EXCEPT !.type = entries[entry_index].type]
      /\ received' = Append(received, popped')
  BY DEF LoadType
<1>2. Reading /\ Taken = 1
  BY <1>1 DEF Reading, Taken
<1>3. Len(received) + 1 \in DOMAIN sent
  <2>1. /\ sent \in Seq(Obj) /\ Len(sent) \in Nat /\ Len(received) \in Nat
        /\ MSG_Q_SIZE \in Nat /\ Used \in Index
    BY Lengths, Places DEF TypeOK
  <2>2. Len(sent) = Len(received) + 1 + Used
    BY <1>2 DEF RingHolds
  <2>3. Len(received) + 1 \in 1 .. Len(sent)
    BY <2>1, <2>2 DEF Index
  <2> QED BY <2>1, <2>3
<1>4. /\ popped.ptr = sent[Len(received) + 1]
      /\ entries[entry_index].type = sent[Len(received) + 1]
  BY <1>1, <1>2 DEF PopperAt, Request
<1>5. popped' = Request(sent[Len(received) + 1])
  BY <1>1, <1>4 DEF TypeOK, Entry, Request
<1> QED BY <1>1, <1>3, <1>5

LEMMA LoadTypeKeeps ==
  ASSUME IInv, TInv', LoadType
  PROVE  KInv'
<1> USE DEF IInv, TInv, KInv
<1>1. /\ popper = "type" /\ popper' = "handler"
      /\ UNCHANGED <<head, entry_index, entries, tail, pusher, obj, sent>>
  BY DEF LoadType, pushVars
<1>2. /\ Used' = Used /\ Taken = 1 /\ Taken' = 0 /\ Reading /\ ~Reading'
      /\ \A k : Slot(k)' = Slot(k)
  BY <1>1 DEF Used, Distance, Taken, Reading, Slot, At
<1>3. /\ popped' = Request(sent[Len(received) + 1])
      /\ received' = Append(received, popped') /\ popped' \in Entry
  BY LoadedWhole DEF TypeOK
<1>4. /\ received' \in Seq(Entry) /\ Len(received') = Len(received) + 1
      /\ received'[Len(received) + 1] = popped'
      /\ \A i \in 1 .. Len(received) : received'[i] = received[i]
  BY <1>3 DEF InOrder
<1>5. Len(received) \in Nat /\ Len(sent) \in Nat /\ Used \in Index /\ MSG_Q_SIZE \in Nat
  BY Lengths, Places
<1>6. RingHolds'
  <2>1. Len(sent') = Len(received') + Taken' + Used'
    BY <1>1, <1>2, <1>4, <1>5 DEF RingHolds, Index
  <2>2. \A k \in Index : Len(received) + Taken + 1 + k = Len(received') + Taken' + 1 + k
    BY <1>2, <1>4, <1>5 DEF Index
  <2> QED BY <1>1, <1>2, <2>1, <2>2 DEF RingHolds
<1>7. PusherAt' /\ PopperAt'
  BY <1>1, <1>2 DEF PusherAt, PopperAt
<1>8. InOrder'
  <2>1. DOMAIN received' = 1 .. Len(received) + 1 /\ DOMAIN received = 1 .. Len(received)
    BY <1>4 DEF InOrder
  <2>2. ASSUME NEW i \in DOMAIN received' PROVE received'[i] = Request(sent'[i])
    <3>1. i \in DOMAIN received \/ i = Len(received) + 1
      BY <1>5, <2>1
    <3> QED BY <1>1, <1>3, <1>4, <2>1, <3>1 DEF InOrder
  <2> QED BY <1>4, <2>2 DEF InOrder
<1> QED BY <1>6, <1>7, <1>8

LEMMA HandlerReturnsKeeps ==
  ASSUME IInv, HandlersOutlast, HandlerReturns
  PROVE  KInv'
<1> USE DEF IInv, TInv, KInv
<1>1. /\ popper = "handler" /\ popper' = "idle" /\ pusher # "wrap"
      /\ UNCHANGED <<head, entry_index, popped, received, entries, tail, pusher, obj, sent>>
  BY DEF HandlerReturns, pushVars
<1>2. Used' = Used /\ Taken' = Taken /\ ~Reading' /\ \A k : Slot(k)' = Slot(k)
  BY <1>1 DEF Used, Distance, Taken, Reading, Slot, At
<1>3. RingHolds'
  BY <1>1, <1>2 DEF RingHolds
<1>4. PusherAt' /\ PopperAt' /\ InOrder'
  BY <1>1, <1>2 DEF PusherAt, PopperAt, InOrder
<1> QED BY <1>3, <1>4

LEMMA NextIInv ==
  ASSUME HandlersOutlast
  PROVE  IInv /\ [Next]_vars => IInv'
<1> SUFFICES ASSUME IInv, [Next]_vars PROVE IInv'
  OBVIOUS
<1>1. TInv'
  BY NextTInv DEF IInv
<1>2. ASSUME NEW o \in Obj, PushBegin(o) PROVE KInv'
  BY <1>2, PushBeginKeeps
<1>3. ASSUME Push PROVE KInv'
  BY <1>1, <1>3, StorePtrKeeps, StoreTypeKeeps, IncrementTailKeeps, WrapTailKeeps DEF Push
<1>4. ASSUME Pop PROVE KInv'
  BY <1>1, <1>4, PopBeginKeeps, IncrementHeadKeeps, WrapHeadKeeps, LoadPtrKeeps, LoadTypeKeeps,
     HandlerReturnsKeeps DEF Pop
<1>5. ASSUME UNCHANGED vars PROVE KInv'
  <2>1. Used' = Used /\ Taken' = Taken /\ (Reading' <=> Reading) /\ \A k : Slot(k)' = Slot(k)
    BY <1>5 DEF vars, Used, Distance, Taken, Reading, Slot, At
  <2> QED BY <1>5, <2>1 DEF IInv, KInv, RingHolds, PusherAt, PopperAt, InOrder, At, vars
<1>6. KInv'
  BY <1>2, <1>3, <1>4, <1>5 DEF Next
<1> QED BY <1>1, <1>6 DEF IInv

----------------------------------------------------------------------------
(* The theorems. *)

LEMMA Invariance ==
  ASSUME HandlersOutlast
  PROVE  Spec => []IInv
<1>1. Init => IInv
  BY InitTInv, InitKInv DEF IInv
<1>2. IInv /\ [Next]_vars => IInv'
  BY NextIInv
<1> QED BY <1>1, <1>2, PTL DEF Spec

\* run_thread never hands a handler the obj_ptr of one request with the
\* obj_type of another, although it reads the entry after the pop.
THEOREM NeverTorn ==
  ASSUME HandlersOutlast
  PROVE  Spec => []NotTorn
<1>1. IInv => NotTorn
  BY DEF IInv, KInv, InOrder, NotTorn, Whole, Request
<1> QED BY <1>1, Invariance, PTL

\* Every step of either CPU is a step of the FIFO or leaves it alone.
LEMMA StepRefines ==
  ASSUME IInv, [Next]_vars
  PROVE  [Fifo!Next]_<<sent, Handled>>
<1>1. CASE IncrementTail
  <2>1. /\ pusher = "inc" /\ sent' = Append(sent, obj) /\ received' = received
    BY <1>1 DEF IncrementTail, popVars
  <2>2. obj \in Obj /\ Used < MSG_Q_SIZE - 1 /\ Len(sent) = Len(received) + Taken + Used
    BY <2>1 DEF IInv, KInv, PusherAt, RingHolds
  <2>3. Len(Handled) = Len(received)
    BY DEF IInv, KInv, InOrder, Handled
  <2>4. Len(sent) - Len(Handled) < MSG_Q_SIZE
    <3>1. /\ Len(sent) \in Nat /\ Len(received) \in Nat /\ MSG_Q_SIZE \in Nat
          /\ Used \in Index /\ Taken \in {0, 1}
      BY Lengths, Places DEF IInv, TInv, Taken
    <3> QED BY <2>2, <2>3, <3>1 DEF Index
  <2>5. Handled' = Handled
    BY <2>1 DEF Handled
  <2> QED BY <2>1, <2>2, <2>4, <2>5 DEF Fifo!Next, Fifo!Send
<1>2. CASE LoadType
  <2>1. /\ Len(received) + 1 \in DOMAIN sent
        /\ popped' = Request(sent[Len(received) + 1])
        /\ received' = Append(received, popped')
    BY <1>2, LoadedWhole
  <2>2. sent' = sent
    BY <1>2 DEF LoadType, pushVars
  <2>3. received \in Seq(Entry) /\ Len(received) \in Nat /\ sent \in Seq(Obj)
    BY Lengths DEF IInv, TInv, TypeOK, KInv, InOrder
  <2>4. Len(Handled) = Len(received) /\ Len(received) < Len(sent)
    BY <2>1, <2>3 DEF Handled
  <2>5. Handled' = Append(Handled, sent[Len(received) + 1])
    BY <2>1, <2>3 DEF Handled, Request
  <2> QED BY <2>2, <2>4, <2>5 DEF Fifo!Next, Fifo!Receive
<1>3. CASE ~IncrementTail /\ ~LoadType
  <2>1. UNCHANGED <<sent, received>>
    BY <1>3 DEF Next, Push, Pop, PushBegin, StorePtr, StoreType, WrapTail, PopBegin,
                IncrementHead, WrapHead, LoadPtr, HandlerReturns, vars, pushVars, popVars
  <2> QED BY <2>1 DEF Handled
<1> QED BY <1>1, <1>2, <1>3

\* __push_obj_to_queue and __pop_obj_from_queue with the reads of run_thread
\* implement a FIFO of MSG_Q_SIZE requests.
THEOREM QueueImplementsFifo ==
  ASSUME HandlersOutlast
  PROVE  Spec => ImplementsFifo
<1>1. Init => Fifo!Init
  BY DEF Init, Fifo!Init, Handled
<1>2. IInv /\ [Next]_vars => [Fifo!Next]_<<sent, Handled>>
  BY StepRefines
<1> QED BY <1>1, <1>2, Invariance, PTL DEF Spec, ImplementsFifo, Fifo!Spec
=============================================================================
