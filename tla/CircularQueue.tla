--------------------------- MODULE CircularQueue ---------------------------
(***************************************************************************)
(* The circular queue of util.containers.c (queue_t, enQueue, deQueue),    *)
(* used without a lock by one thread that adds and one that removes: the   *)
(* in-storage-processing thread queues DMA requests in pending_dma, the    *)
(* NVMe thread takes them (isp.c). A step is one store to shared memory,   *)
(* or the loads a thread makes before it.                                  *)
(***************************************************************************)
EXTENDS Integers, Sequences

CONSTANTS
  size,        \* queue_t.size, the entries of objs
  Msg,         \* the objects queued
  NULL,        \* content of an entry never written
  MaxSent      \* bound: how many objects are queued in a behaviour

ASSUME SizeAssumption == size \in Nat /\ size >= 2
ASSUME BoundAssumption == MaxSent \in Nat

VARIABLES
  tail, head, objs,   \* queue_t
  adder, item,        \* where enQueue's caller is, and its item_ptr
  taker, got,         \* where deQueue's caller is, and its item_ptr
  sent, received      \* history: objects queued and objects handed out

vars == <<tail, head, objs, adder, item, taker, got, sent, received>>

\* Mutant: the index is wrapped one too late.
Next_index_late(i) == (i + 1) % (size + 1)

\* (queue->tail + 1) % queue->size
Next_index(i) == (i + 1) % size

\* DEFINE_CIRCULAR_QUEUE
Init ==
  /\ tail = 0 /\ head = 0
  /\ objs = [i \in 0 .. size - 1 |-> NULL]
  /\ adder = "idle" /\ item = NULL
  /\ taker = "idle" /\ got = NULL
  /\ sent = <<>> /\ received = <<>>

----------------------------------------------------------------------------
(* enQueue *)

\* Mutant: a full queue is not noticed.
CheckFull_missing(m) ==
  /\ adder = "idle" /\ Len(sent) < MaxSent
  /\ adder' = "store" /\ item' = m
  /\ UNCHANGED <<tail, head, objs, taker, got, sent, received>>

\* enQueue returns NULL, and changes nothing, when the queue is full.
CheckFull(m) ==
  /\ adder = "idle" /\ Len(sent) < MaxSent
  /\ head # Next_index(tail)
  /\ adder' = "store" /\ item' = m
  /\ UNCHANGED <<tail, head, objs, taker, got, sent, received>>

StoreItem ==
  /\ adder = "store"
  /\ objs' = [objs EXCEPT ![tail] = item]
  /\ adder' = "advance"
  /\ UNCHANGED <<tail, head, item, taker, got, sent, received>>

AdvanceTail ==
  /\ adder = "advance"
  /\ tail' = Next_index(tail)
  /\ sent' = Append(sent, item)
  /\ adder' = "idle"
  /\ UNCHANGED <<head, objs, item, taker, got, received>>

----------------------------------------------------------------------------
(* deQueue *)

\* Mutant: an empty queue is not noticed.
CheckEmpty_missing ==
  /\ taker = "idle"
  /\ taker' = "load"
  /\ UNCHANGED <<tail, head, objs, adder, item, got, sent, received>>

\* deQueue returns NULL, and changes nothing, when the queue is empty.
CheckEmpty ==
  /\ taker = "idle"
  /\ head # tail
  /\ taker' = "load"
  /\ UNCHANGED <<tail, head, objs, adder, item, got, sent, received>>

LoadItem ==
  /\ taker = "load"
  /\ got' = objs[head]
  /\ taker' = "advance"
  /\ UNCHANGED <<tail, head, objs, adder, item, sent, received>>

AdvanceHead ==
  /\ taker = "advance"
  /\ head' = Next_index(head)
  /\ received' = Append(received, got)
  /\ taker' = "idle"
  /\ UNCHANGED <<tail, objs, adder, item, got, sent>>

Next ==
  \/ \E m \in Msg : CheckFull(m)
  \/ StoreItem \/ AdvanceTail
  \/ CheckEmpty \/ LoadItem \/ AdvanceHead

\* A thread that has started enQueue or deQueue finishes it, and the taker
\* polls its queue: each CPU runs one thread, in a loop that never blocks
\* (run_thread of issd_kernel.c).
Fairness ==
  /\ WF_vars(StoreItem \/ AdvanceTail)
  /\ WF_vars(CheckEmpty \/ LoadItem \/ AdvanceHead)

Spec == Init /\ [][Next]_vars /\ Fairness

----------------------------------------------------------------------------
(* Properties. *)

\* Indices stay inside objs.
TypeOK ==
  /\ tail \in 0 .. size - 1 /\ head \in 0 .. size - 1
  /\ objs \in [0 .. size - 1 -> Msg \cup {NULL}]
  /\ adder \in {"idle", "store", "advance"} /\ item \in Msg \cup {NULL}
  /\ taker \in {"idle", "load", "advance"} /\ got \in Msg \cup {NULL}
  /\ sent \in Seq(Msg) /\ received \in Seq(Msg)

\* Objects in the queue, and the entry that holds the k-th of them.
Used == IF tail >= head THEN tail - head ELSE tail - head + size
Slot(k) == IF head + k < size THEN head + k ELSE head + k - size

\* Why it is correct without a lock: the entries from head to tail hold
\* exactly the objects not handed out yet, whatever the other thread is in
\* the middle of, because each index is written by one thread, in one store,
\* after the entry was written or read.
RingInv ==
  /\ Len(sent) - Len(received) = Used
  /\ \A k \in 0 .. size - 1 : k < Used => objs[Slot(k)] = sent[Len(received) + 1 + k]
  /\ adder # "idle" => item \in Msg
  /\ adder = "store" => Used < size - 1
  /\ adder = "advance" => Used < size - 1 /\ objs[tail] = item
  /\ taker # "idle" => Used > 0
  /\ taker = "advance" => got = sent[Len(received) + 1]

\* The queue implements a FIFO of size - 1 objects: nothing is lost, given
\* out twice or out of order under any interleaving of the two threads.
Fifo == INSTANCE BoundedFifo WITH Capacity <- size - 1

ImplementsFifo == Fifo!Spec

\* Every object that enQueue accepts is eventually handed out.
AllDelivered ==
  \A n \in 1 .. MaxSent : (Len(sent) >= n) ~> (Len(received) >= n)
=============================================================================
