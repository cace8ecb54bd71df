---------------------------- MODULE KernelQueue ----------------------------
(***************************************************************************)
(* The kernel's object queue between two CPUs (issd_kernel.c: obj_queue_t, *)
(* __push_obj_to_queue, __pop_obj_from_queue, and run_thread, which reads  *)
(* the entry after the pop). The firmware is built without optimisation,   *)
(* so each assignment is a store the other CPU can see: an index is        *)
(* incremented by one store and wrapped by the next, and the pusher writes *)
(* obj_ptr and obj_type separately.                                        *)
(***************************************************************************)
EXTENDS Integers, Sequences

CONSTANTS
  MSG_Q_SIZE,       \* entries of a queue (global_macro.h)
  Obj,              \* the requests pushed; a request has one obj_type
  NoObj,            \* content of an entry never written
  MaxSent,          \* bound: how many requests are pushed
  HandlersOutlast   \* no handler is so short that the other CPU is still
                    \* between the two stores of an index when it has run

ASSUME SizeAssumption ==
  MSG_Q_SIZE \in Nat /\ MSG_Q_SIZE >= 2 /\ MaxSent \in Nat /\ HandlersOutlast \in BOOLEAN

VARIABLES
  tail, head, entries,   \* obj_queue_t
  pusher, obj,           \* where the pushing CPU is, and its obj_ptr
  popper, entry_index, popped,   \* where the popping CPU is, entry it read
  sent, received         \* history: requests pushed, requests handled

vars == <<tail, head, entries, pusher, obj, popper, entry_index, popped, sent, received>>
pushVars == <<tail, pusher, obj, sent>>
popVars == <<head, popper, entry_index, popped, received>>

Index == 0 .. MSG_Q_SIZE - 1
Entry == [ptr: Obj \cup {NoObj}, type: Obj \cup {NoObj}]

\* sys_create_obj_queue
Init ==
  /\ tail = 0 /\ head = 0
  /\ entries = [i \in Index |-> [ptr |-> NoObj, type |-> NoObj]]
  /\ pusher = "idle" /\ obj = NoObj
  /\ popper = "idle" /\ entry_index = 0 /\ popped = [ptr |-> NoObj, type |-> NoObj]
  /\ sent = <<>> /\ received = <<>>

----------------------------------------------------------------------------
(* __push_obj_to_queue *)

\* Mutant: a full queue is not noticed.
NotFull_missing == TRUE

NotFull == head # (tail + 1) % MSG_Q_SIZE

\* A push to a full queue returns -1 and changes nothing; sent counts the
\* pushes that return 0.
PushBegin(o) ==
  /\ pusher = "idle" /\ Len(sent) < MaxSent
  /\ HandlersOutlast => popper # "wrap"
  /\ NotFull
  /\ pusher' = "ptr" /\ obj' = o
  /\ UNCHANGED <<tail, sent, entries, popVars>>

StorePtr ==
  /\ pusher = "ptr"
  /\ entries' = [entries EXCEPT ![tail].ptr = obj]
  /\ pusher' = "type"
  /\ UNCHANGED <<tail, obj, sent, popVars>>

StoreType ==
  /\ pusher = "type"
  /\ entries' = [entries EXCEPT ![tail].type = obj]
  /\ pusher' = "inc"
  /\ UNCHANGED <<tail, obj, sent, popVars>>

\* queues[queue].tail ++: from here on the popping CPU can take the entry.
IncrementTail ==
  /\ pusher = "inc"
  /\ tail' = tail + 1
  /\ sent' = Append(sent, obj)
  /\ pusher' = "wrap"
  /\ UNCHANGED <<obj, entries, popVars>>

\* Mutant: the tail is wrapped one too late.
WrapTail_late ==
  /\ pusher = "wrap"
  /\ tail' = tail % (MSG_Q_SIZE + 1)
  /\ pusher' = "idle"
  /\ UNCHANGED <<obj, sent, entries, popVars>>

WrapTail ==
  /\ pusher = "wrap"
  /\ tail' = tail % MSG_Q_SIZE
  /\ pusher' = "idle"
  /\ UNCHANGED <<obj, sent, entries, popVars>>

----------------------------------------------------------------------------
(* __pop_obj_from_queue and the part of run_thread that uses its result *)

PopBegin ==
  /\ popper = "idle"
  /\ head # tail
  /\ entry_index' = head
  /\ popper' = "inc"
  /\ UNCHANGED <<head, popped, received, entries, pushVars>>

IncrementHead ==
  /\ popper = "inc"
  /\ head' = head + 1
  /\ popper' = "wrap"
  /\ UNCHANGED <<entry_index, popped, received, entries, pushVars>>

WrapHead ==
  /\ popper = "wrap"
  /\ head' = head % MSG_Q_SIZE
  /\ popper' = "ptr"
  /\ UNCHANGED <<entry_index, popped, received, entries, pushVars>>

\* The entry is read only now, when its place has been given back.
LoadPtr ==
  /\ popper = "ptr"
  /\ popped' = [popped EXCEPT !.ptr = entries[entry_index].ptr]
  /\ popper' = "type"
  /\ UNCHANGED <<head, entry_index, received, entries, pushVars>>

LoadType ==
  /\ popper = "type"
  /\ popped' = [popped EXCEPT !.type = entries[entry_index].type]
  /\ received' = Append(received, popped')
  /\ popper' = "handler"
  /\ UNCHANGED <<head, entry_index, entries, pushVars>>

HandlerReturns ==
  /\ popper = "handler"
  /\ HandlersOutlast => pusher # "wrap"
  /\ popper' = "idle"
  /\ UNCHANGED <<head, entry_index, popped, received, entries, pushVars>>

Push == StorePtr \/ StoreType \/ IncrementTail \/ WrapTail
Pop == PopBegin \/ IncrementHead \/ WrapHead \/ LoadPtr \/ LoadType \/ HandlerReturns

Next == (\E o \in Obj : PushBegin(o)) \/ Push \/ Pop

\* Each CPU runs its thread in an endless loop and handlers return.
Spec == Init /\ [][Next]_vars /\ WF_vars(Push) /\ WF_vars(Pop)

----------------------------------------------------------------------------
(* Properties. *)

\* An index is out of range only between the two stores that advance it.
TypeOK ==
  /\ tail \in 0 .. MSG_Q_SIZE /\ (pusher # "wrap" => tail \in Index)
  /\ head \in 0 .. MSG_Q_SIZE /\ (popper # "wrap" => head \in Index)
  /\ entries \in [Index -> Entry]
  /\ pusher \in {"idle", "ptr", "type", "inc", "wrap"} /\ obj \in Obj \cup {NoObj}
  /\ popper \in {"idle", "inc", "wrap", "ptr", "type", "handler"}
  /\ entry_index \in Index /\ popped \in Entry
  /\ sent \in Seq(Obj)

\* The requests handled, if each entry was read whole.
Whole == \A i \in DOMAIN received : received[i].ptr = received[i].type
Handled == [i \in DOMAIN received |-> received[i].ptr]

\* The queue is a FIFO that holds one request more than the ring, the one
\* whose place has been given back and that is being read.
Fifo == INSTANCE BoundedFifo WITH
          Msg <- Obj, Capacity <- MSG_Q_SIZE, received <- Handled
ImplementsFifo == Fifo!Spec

\* What a handler gets is one request, never the obj_ptr of one with the
\* obj_type of another, although the entry is read after its place was given
\* back to the pusher.
NotTorn == Whole

\* Every request pushed is eventually handled.
AllHandled == \A n \in 1 .. MaxSent : (Len(sent) >= n) ~> (Len(received) >= n)

\* "init fifo queue" (issd_kernel.c:204): the requests handled are the first
\* of those pushed, in order. With handlers of any length this fails.
HandledInOrder ==
  Len(received) <= Len(sent) /\ \A i \in DOMAIN received : received[i].ptr = sent[i]
=============================================================================
