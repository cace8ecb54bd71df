------------------------------ MODULE IspProofs ------------------------------
(***************************************************************************)
(* In-storage processing loses no command and no request object, and ends  *)
(* no function early for the host, for every size of the queues and of the *)
(* pool, every applet and any number of functions, whatever the order in   *)
(* which the control commands, their recycling, the messages of the ISP    *)
(* thread and the FTL's answers come. All of it under HostSlow: a host that *)
(* overtakes the end of a function gets two functions on one thread, and   *)
(* the second then finds cmplt_dma filled and loses its object.            *)
(*                                                                         *)
(* The two depend on each other: a command that finds the driver's slots   *)
(* taken would overwrite the object in them, and a command that finds the  *)
(* pool empty has no object to wait in.                                    *)
(***************************************************************************)
EXTENDS Isp, FiniteSetTheorems, SequenceTheorems, TLAPS

Elems(s) == {s[i] : i \in 1 .. Len(s)}
Only(o) == IF o = NULL THEN {} ELSE {o}
Num(o) == IF o = NULL THEN 0 ELSE 1

Transfer == {"READ_HOST", "WRITE_HOST"}

\* A message about a request names it.
Told == {m \in Message : m.type # "EXIT" => m.obj # NULL}
TInv == TypeOK /\ msg_out \in Seq(Told)

\* Where the command the host waits for is.
CommandAt ==
  /\ sqe # "none" => nvme.ctrl = NULL /\ nvme.pc = "free" /\ host.pc = "sent"
  /\ nvme.ctrl # NULL => sqe = "none" /\ nvme.pc = "free" /\ host.pc = "sent"
  /\ nvme.pc = "transfer" => sqe = "none" /\ nvme.ctrl = NULL /\ host.pc = "sent"
  /\ host.pc = "sent" => sqe # "none" \/ nvme.ctrl # NULL \/ nvme.pc = "transfer"
  /\ nvme.req # NULL <=> nvme.pc = "transfer"

\* What a handler relies on without looking: the function in the middle of a
\* call has its request, one that was started has the flash request, and a
\* host that was told to move data finds the request of that answer.
Ready ==
  /\ isp.dma # NULL <=> isp.pc \in {"posted", "wait"}
  /\ isp.pc \in {"posted", "wait", "nand"} => isp.fn # <<>>
  /\ isp.pc # "idle" \/ msg_in # <<>> => nvme.nand # NULL
  /\ host.code.msg \in Transfer => nvme.active # NULL
  /\ sqe = "TX" => host.code.msg \in Transfer

\* Each object is in one place, and the queue of DMA requests keeps no more
\* than its share: then the pool is never empty when a command arrives.
Pool ==
  /\ Len(free) + Len(cmplt) + Num(nvme.ctrl) + Num(nvme.req) + Num(nvme.nand) + Num(isp.dma)
       = O_SIZE - 1
  /\ Elems(free) \cup Elems(cmplt) \cup Only(nvme.ctrl) \cup Only(nvme.req)
       \cup Only(nvme.nand) \cup Only(isp.dma) = Object
  /\ Len(cmplt) + Num(isp.dma) <= QUEUE_SIZE - 1

\* function_exited tells the truth, and so does every message and answer that
\* reports an end; an execute command finds the thread done and silent.
Ended ==
  /\ exited => msg_in = <<>> /\ isp.pc \in {"idle", "exit"}
  /\ msg_in # <<>> => isp.pc = "idle" /\ Len(msg_in) = 1
  /\ Ending => exited
  /\ host.pc = "idle" => exited
  /\ host.pc = "answered" /\ host.code.msg = "EXIT" => exited
  /\ sqe = "EXEC" => exited /\ ~Ending

IInv == TInv /\ CommandAt /\ Ready /\ Pool

USE QueueAssumption

----------------------------------------------------------------------------
(* Sequences and records. *)

LEMMA NullIsNone == NULL \notin Object
BY DEF NULL, Object

LEMMA ElemsAppend ==
  ASSUME NEW S, NEW s \in Seq(S), NEW x \in S
  PROVE  /\ Append(s, x) \in Seq(S) /\ Len(Append(s, x)) = Len(s) + 1
         /\ Elems(Append(s, x)) = Elems(s) \cup {x}
<1>1. Len(s) \in Nat
  OBVIOUS
<1>2. \A i \in 1 .. Len(s) + 1 : Append(s, x)[i] = IF i <= Len(s) THEN s[i] ELSE x
  BY <1>1
<1>3. Len(Append(s, x)) = Len(s) + 1 /\ Append(s, x) \in Seq(S)
  OBVIOUS
<1> QED BY <1>1, <1>2, <1>3 DEF Elems

LEMMA ElemsHead ==
  ASSUME NEW S, NEW s \in Seq(S), s # <<>>
  PROVE  /\ Head(s) \in S /\ Tail(s) \in Seq(S) /\ Len(Tail(s)) = Len(s) - 1
         /\ Len(s) >= 1
         /\ Elems(s) = {Head(s)} \cup Elems(Tail(s))
<1>1. Len(s) \in Nat /\ Len(s) >= 1
  OBVIOUS
<1>2. /\ Head(s) = s[1] /\ Head(s) \in S
      /\ Tail(s) \in Seq(S) /\ Len(Tail(s)) = Len(s) - 1
  BY <1>1
<1>3. \A i \in 1 .. Len(s) - 1 : Tail(s)[i] = s[i + 1]
  BY <1>1, <1>2
<1>4. Elems(s) \subseteq {Head(s)} \cup Elems(Tail(s))
  <2> SUFFICES ASSUME NEW i \in 1 .. Len(s), i # 1 PROVE s[i] \in Elems(Tail(s))
    BY <1>2 DEF Elems
  <2>1. i - 1 \in 1 .. Len(s) - 1 /\ s[i] = Tail(s)[i - 1]
    BY <1>1, <1>3
  <2> QED BY <2>1, <1>2 DEF Elems
<1>5. {Head(s)} \cup Elems(Tail(s)) \subseteq Elems(s)
  <2>1. \A i \in 1 .. Len(s) - 1 : i + 1 \in 1 .. Len(s)
    BY <1>1
  <2>2. 1 \in 1 .. Len(s)
    BY <1>1
  <2> QED BY <2>1, <2>2, <1>2, <1>3 DEF Elems
<1> QED BY <1>1, <1>2, <1>4, <1>5

LEMMA ElemsConcat ==
  ASSUME NEW S, NEW s \in Seq(S), NEW t \in Seq(S)
  PROVE  /\ s \o t \in Seq(S) /\ Len(s \o t) = Len(s) + Len(t)
         /\ Elems(s \o t) = Elems(s) \cup Elems(t)
<1>1. Len(s) \in Nat /\ Len(t) \in Nat
  OBVIOUS
<1>2. Len(s \o t) = Len(s) + Len(t) /\ s \o t \in Seq(S)
  OBVIOUS
<1>3. \A i \in 1 .. Len(s) + Len(t) :
        (s \o t)[i] = IF i <= Len(s) THEN s[i] ELSE t[i - Len(s)]
  BY <1>1
<1>4. Elems(s \o t) \subseteq Elems(s) \cup Elems(t)
  <2> SUFFICES ASSUME NEW i \in 1 .. Len(s) + Len(t)
               PROVE  (s \o t)[i] \in Elems(s) \cup Elems(t)
    BY <1>2 DEF Elems
  <2>1. i <= Len(s) => i \in 1 .. Len(s)
    BY <1>1
  <2>2. ~(i <= Len(s)) => i - Len(s) \in 1 .. Len(t)
    BY <1>1
  <2> QED BY <2>1, <2>2, <1>3 DEF Elems
<1>5. Elems(s) \subseteq Elems(s \o t)
  BY <1>1, <1>2, <1>3 DEF Elems
<1>6. Elems(t) \subseteq Elems(s \o t)
  <2> SUFFICES ASSUME NEW i \in 1 .. Len(t) PROVE t[i] \in Elems(s \o t)
    BY DEF Elems
  <2>1. /\ i + Len(s) \in 1 .. Len(s) + Len(t)
        /\ (s \o t)[i + Len(s)] = t[i]
    BY <1>1, <1>3
  <2> QED BY <2>1, <1>2 DEF Elems
<1> QED BY <1>2, <1>4, <1>5, <1>6

LEMMA ElemsOne ==
  ASSUME NEW o \in Object \cup {NULL}
  PROVE  One(o) \in Seq(Object) /\ Len(One(o)) = Num(o) /\ Elems(One(o)) = Only(o)
<1>1. CASE o = NULL
  BY <1>1 DEF One, Num, Only, Elems
<1>2. CASE o # NULL
  <2>1. One(o) = <<o>> /\ o \in Object /\ Num(o) = 1 /\ Only(o) = {o}
    BY <1>2 DEF One, Num, Only
  <2>2. Elems(<<o>>) = {o}
    BY DEF Elems
  <2> QED BY <2>1, <2>2
<1> QED BY <1>1, <1>2

\* execute_command's exchange of objects between pool and queue keeps them all.
LEMMA RefillKeeps ==
  ASSUME NEW S, NEW s \in Seq(S), Len(s) >= QUEUE_SIZE
  PROVE  /\ Refill(s).cmplt \in Seq(S) /\ Refill(s).free \in Seq(S)
         /\ Len(Refill(s).cmplt) = QUEUE_SIZE - 1
         /\ Len(Refill(s).free) = Len(s) - QUEUE_SIZE + 1
         /\ Elems(Refill(s).cmplt) \cup Elems(Refill(s).free) = Elems(s)
<1> DEFINE N == Len(s)
           a == SubSeq(s, 1, QUEUE_SIZE - 1)
           b == SubSeq(s, QUEUE_SIZE + 1, N)
           x == s[QUEUE_SIZE]
<1>0. Refill(s).cmplt = a /\ Refill(s).free = Append(b, x)
  BY DEF Refill
<1>1. N \in Nat /\ N >= QUEUE_SIZE /\ QUEUE_SIZE \in 1 .. N
  OBVIOUS
<1>2. a \in Seq(S) /\ Len(a) = QUEUE_SIZE - 1 /\ \A i \in 1 .. QUEUE_SIZE - 1 : a[i] = s[i]
  BY <1>1
<1>3. b \in Seq(S) /\ Len(b) = N - QUEUE_SIZE
      /\ \A i \in 1 .. N - QUEUE_SIZE : b[i] = s[QUEUE_SIZE + i]
  BY <1>1
<1>4. x \in S
  BY <1>1
<1> HIDE DEF a, b, x
<1>5. /\ Append(b, x) \in Seq(S) /\ Len(Append(b, x)) = N - QUEUE_SIZE + 1
      /\ Elems(Append(b, x)) = Elems(b) \cup {x}
  <2>1. b \in Seq(S) /\ Len(b) = N - QUEUE_SIZE
    BY <1>3
  <2>2. \A u \in Seq(S), y \in S :
          /\ Append(u, y) \in Seq(S) /\ Len(Append(u, y)) = Len(u) + 1
          /\ Elems(Append(u, y)) = Elems(u) \cup {y}
    BY ElemsAppend
  <2> QED BY <2>1, <2>2, <1>4
<1>6. Elems(s) \subseteq Elems(a) \cup Elems(b) \cup {x}
  <2> SUFFICES ASSUME NEW i \in 1 .. N PROVE s[i] \in Elems(a) \cup Elems(b) \cup {x}
    BY DEF Elems
  <2>1. CASE i < QUEUE_SIZE
    <3>1. i \in 1 .. QUEUE_SIZE - 1
      BY <2>1, <1>1
    <3> QED BY <3>1, <1>2 DEF Elems
  <2>2. CASE i = QUEUE_SIZE
    BY <2>2 DEF x
  <2>3. CASE i > QUEUE_SIZE
    <3>1. i - QUEUE_SIZE \in 1 .. N - QUEUE_SIZE /\ s[i] = b[i - QUEUE_SIZE]
      BY <2>3, <1>1, <1>3
    <3> QED BY <3>1, <1>3 DEF Elems
  <2> QED BY <2>1, <2>2, <2>3, <1>1
<1>7. Elems(a) \subseteq Elems(s)
  BY <1>1, <1>2 DEF Elems
<1>8. Elems(b) \subseteq Elems(s)
  <2> SUFFICES ASSUME NEW i \in 1 .. N - QUEUE_SIZE PROVE b[i] \in Elems(s)
    BY <1>3 DEF Elems
  <2>1. QUEUE_SIZE + i \in 1 .. N
    BY <1>1
  <2> QED BY <2>1, <1>3 DEF Elems
<1>9. x \in Elems(s)
  BY <1>1 DEF Elems, x
<1>10. Len(a) = QUEUE_SIZE - 1 /\ N - QUEUE_SIZE + 1 = Len(s) - QUEUE_SIZE + 1
  BY <1>2
<1> QED BY <1>0, <1>2, <1>5, <1>6, <1>7, <1>8, <1>9, <1>10

----------------------------------------------------------------------------
(* Types. *)

LEMMA TellKeeps ==
  ASSUME NEW q \in Seq(Told), NEW m \in Told
  PROVE  Append(q, m) \in Seq(Told) /\ Append(q, m) \in Seq(Message)
<1>1. Append(q, m) \in Seq(Told)
  OBVIOUS
<1>2. q \in Seq(Message) /\ m \in Message
  <2>1. Told \subseteq Message
    BY DEF Told
  <2>2. Len(q) \in Nat /\ q \in [1 .. Len(q) -> Told]
    OBVIOUS
  <2>3. q \in [1 .. Len(q) -> Message]
    BY <2>1, <2>2
  <2> QED BY <2>1, <2>2, <2>3, SeqDef
<1> QED BY <1>1, <1>2

\* Changes of a request object that its type allows.
LEMMA ObjKeeps ==
  ASSUME NEW x \in ObjRecord
  PROVE  \A g \in Stage : [x EXCEPT !.stage = g] \in ObjRecord
BY DEF ObjRecord, Stage

LEMMA SetupKeeps ==
  ASSUME NEW os \in [Object -> ObjRecord], NEW o \in Object
  PROVE  SetupIoReq(o, os) \in [Object -> ObjRecord]
<1>1. [Unused EXCEPT !.stage = "INUSE"] \in ObjRecord
  BY DEF Unused, ObjRecord, Stage
<1> QED BY <1>1 DEF SetupIoReq

LEMMA SetFreeKeeps ==
  ASSUME NEW os \in [Object -> ObjRecord], NEW X
  PROVE  SetFree(X, os) \in [Object -> ObjRecord]
<1>1. \A o \in Object : [os[o] EXCEPT !.stage = "FREE"] \in ObjRecord
  BY ObjKeeps DEF Stage
<1> QED BY <1>1 DEF SetFree

LEMMA StageKeeps ==
  ASSUME NEW os \in [Object -> ObjRecord], NEW o,
         NEW g \in Stage
  PROVE  [os EXCEPT ![o].stage = g] \in [Object -> ObjRecord]
<1>1. \A p \in Object : [os[p] EXCEPT !.stage = g] \in ObjRecord
  BY ObjKeeps
<1> QED BY <1>1

\* The answer to a command that holds object r, when r is in no other place:
\* r goes to the pool.
LEMMA AnswerKeeps ==
  ASSUME NEW r \in Object, NEW code \in Code, NEW os \in [Object -> ObjRecord],
         NEW fr \in Seq(Object), Answer(r, code, os, fr)
  PROVE  /\ host' \in [pc: {"idle", "sent", "answered"}, code: Code]
         /\ host'.pc = "answered" /\ host'.code = code
         /\ obj' \in [Object -> ObjRecord]
         /\ free' \in Seq(Object) /\ Len(free') = Len(fr) + 1
         /\ Elems(free') = Elems(fr) \cup {r}
<1>1. host' = [pc |-> "answered", code |-> code]
  BY DEF Answer
<1>2. obj' \in [Object -> ObjRecord]
  BY SetFreeKeeps DEF Answer
<1>3. free' = Append(fr, r)
  BY DEF Answer
<1>4. free' \in Seq(Object) /\ Len(free') = Len(fr) + 1 /\ Elems(free') = Elems(fr) \cup {r}
  BY <1>3, ElemsAppend
<1> QED BY <1>1, <1>2, <1>4

LEMMA PlainCode ==
  \A m \in {"RECYCLE", "EXIT", "STARTED", "DONE", "none"} :
    Plain(m) \in Code /\ Plain(m).msg = m /\ m \notin Transfer
BY DEF Plain, Code, Transfer

LEMMA DtxIsCode ==
  ASSUME TypeOK, NEW o \in Object
  PROVE  DtxCode(o) \in Code
<1>1. obj[o] \in ObjRecord
  BY DEF TypeOK
<1> QED BY <1>1 DEF DtxCode, Code, ObjRecord

----------------------------------------------------------------------------
(* The host and the start. *)

LEMMA InitIInv == Init => IInv
<1> SUFFICES ASSUME Init PROVE IInv
  OBVIOUS
<1>1. Unused \in ObjRecord
  BY DEF Unused, ObjRecord, Stage
<1>2. obj \in [Object -> ObjRecord]
  BY <1>1 DEF Init
<1>3. free \in Seq(Object) /\ Len(free) = O_SIZE - 1 /\ Elems(free) = Object
  <2>1. free = [o \in 1 .. O_SIZE - 1 |-> o] /\ O_SIZE - 1 \in Nat
    BY DEF Init, Object
  <2>2. free \in [1 .. O_SIZE - 1 -> Object]
    BY <2>1 DEF Object
  <2>3. free \in Seq(Object)
    BY <2>1, <2>2, SeqDef
  <2>4. Len(free) = O_SIZE - 1
    BY <2>1, <2>2, <2>3
  <2> QED BY <2>1, <2>3, <2>4 DEF Elems, Object
<1>4. nvme \in Nvme /\ isp \in IspThread
  BY DEF Init, Nvme, IspThread
<1>5. host \in [pc: {"idle", "sent", "answered"}, code: Code] /\ host.code.msg = "none"
  BY PlainCode DEF Init, Plain
<1>6. TInv
  BY <1>2, <1>3, <1>4, <1>5, SizeAssumption DEF Init, TInv, TypeOK
<1>7. CommandAt /\ Ready
  BY <1>5 DEF Init, CommandAt, Ready, Transfer
<1>8. Elems(cmplt) = {} /\ Len(cmplt) = 0
  BY DEF Init, Elems
<1>9. Pool
  BY <1>3, <1>8 DEF Init, Pool, Num, Only
<1> QED BY <1>6, <1>7, <1>9 DEF IInv

LEMMA HostExecuteKeeps == IInv /\ HostExecute => IInv'
<1> SUFFICES ASSUME IInv, HostExecute PROVE IInv'
  OBVIOUS
<1> USE DEF HostExecute, ispVars
<1>1. host' \in [pc: {"idle", "sent", "answered"}, code: Code] /\ host'.pc = "sent"
      /\ host'.code = host.code
  BY DEF IInv, TInv, TypeOK
<1>2. execs' \in 0 .. MaxExec
  <2>1. execs \in 0 .. MaxExec /\ execs < MaxExec /\ execs' = execs + 1
    BY DEF IInv, TInv, TypeOK
  <2> QED BY <2>1, SizeAssumption
<1>3. TInv'
  BY <1>1, <1>2 DEF IInv, TInv, TypeOK
<1>4. CommandAt'
  BY <1>1 DEF IInv, TInv, TypeOK, Nvme, CommandAt
<1>5. Ready'
  BY <1>1 DEF IInv, Ready
<1>6. Pool'
  BY DEF IInv, Pool
<1> QED BY <1>3, <1>4, <1>5, <1>6 DEF IInv

LEMMA HostAnsweredKeeps == IInv /\ HostAnswered => IInv'
<1> SUFFICES ASSUME IInv, HostAnswered PROVE IInv'
  OBVIOUS
<1> USE DEF HostAnswered, ispVars
<1>1. host' \in [pc: {"idle", "sent", "answered"}, code: Code] /\ host'.code = host.code
  BY DEF IInv, TInv, TypeOK
<1>2. \/ host'.pc = "idle" /\ sqe' = sqe
      \/ host'.pc = "sent" /\ sqe' = "TX" /\ host.code.msg \in Transfer
      \/ host'.pc = "sent" /\ sqe' = "CTRL"
  BY DEF IInv, TInv, TypeOK, Transfer
<1>3. TInv'
  BY <1>1, <1>2 DEF IInv, TInv, TypeOK
<1>4. CommandAt'
  BY <1>1, <1>2 DEF IInv, TInv, TypeOK, Nvme, CommandAt
<1>5. Ready'
  BY <1>1, <1>2 DEF IInv, Ready, CommandAt
<1>6. Pool'
  BY DEF IInv, Pool
<1> QED BY <1>3, <1>4, <1>5, <1>6 DEF IInv

----------------------------------------------------------------------------
(* The ISP thread. *)

\* Its steps do not touch the host's command.
LEMMA IspLeavesCommand ==
  ASSUME IInv, UNCHANGED <<host, sqe, nvme>>
  PROVE  CommandAt'
BY DEF IInv, CommandAt

\* An object moves between the queue of DMA requests and the thread.
LEMMA PoolMoves ==
  ASSUME Pool, cmplt \in Seq(Object), cmplt' \in Seq(Object), UNCHANGED <<free, nvme>>,
         Len(cmplt') + Num(isp'.dma) = Len(cmplt) + Num(isp.dma),
         Elems(cmplt') \cup Only(isp'.dma) = Elems(cmplt) \cup Only(isp.dma),
         free \in Seq(Object)
  PROVE  Pool'
<1>1. /\ Len(free) \in Int /\ Len(cmplt) \in Int /\ Len(cmplt') \in Int
      /\ Num(nvme.ctrl) \in Int /\ Num(nvme.req) \in Int /\ Num(nvme.nand) \in Int
      /\ Num(isp.dma) \in Int /\ Num(isp'.dma) \in Int
  BY DEF Num
<1>2. /\ Len(free) + Len(cmplt') + Num(nvme.ctrl) + Num(nvme.req) + Num(nvme.nand) + Num(isp'.dma)
           = O_SIZE - 1
      /\ Len(cmplt') + Num(isp'.dma) <= QUEUE_SIZE - 1
  <2> DEFINE a == Len(free)  b == Len(cmplt)  c == Len(cmplt')  x == Num(isp.dma)
             y == Num(isp'.dma)  k == Num(nvme.ctrl)  l == Num(nvme.req)  m == Num(nvme.nand)
  <2>1. a + b + k + l + m + x = O_SIZE - 1 /\ b + x <= QUEUE_SIZE - 1 /\ c + y = b + x
    BY DEF Pool
  <2>2. /\ a \in Int /\ b \in Int /\ c \in Int /\ x \in Int /\ y \in Int
        /\ k \in Int /\ l \in Int /\ m \in Int
    BY <1>1
  <2>3. a + c + k + l + m + y = O_SIZE - 1 /\ c + y <= QUEUE_SIZE - 1
    <3> HIDE DEF a, b, c, x, y, k, l, m
    <3> QED BY <2>1, <2>2
  <2> QED BY <2>3
<1>3. Elems(free) \cup Elems(cmplt') \cup Only(nvme.ctrl) \cup Only(nvme.req)
       \cup Only(nvme.nand) \cup Only(isp'.dma) = Object
  BY DEF Pool
<1> QED BY <1>2, <1>3 DEF Pool

LEMMA NextCallKeeps ==
  ASSUME IInv, isp' = NextCall, isp.fn # <<>>
  PROVE  isp' \in IspThread /\ isp'.pc = "run" /\ isp'.dma = NULL
<1>1. isp.fn \in Seq([fn: Fns, page: Nat, size: Nat])
  BY DEF IInv, TInv, TypeOK, IspThread
<1>2. Tail(isp.fn) \in Seq([fn: Fns, page: Nat, size: Nat])
  BY <1>1
<1> QED BY <1>2 DEF NextCall, IInv, TInv, TypeOK, IspThread

LEMMA CallIs ==
  ASSUME IInv, isp.fn # <<>>
  PROVE  Call \in [fn: Fns, page: Nat, size: Nat]
<1>1. isp.fn \in Seq([fn: Fns, page: Nat, size: Nat])
  BY DEF IInv, TInv, TypeOK, IspThread
<1> DEFINE C == [fn: Fns, page: Nat, size: Nat]
<1> HIDE DEF C
<1>2. isp.fn \in Seq(C)
  BY <1>1 DEF C
<1>3. Head(isp.fn) \in C
  BY <1>2
<1> QED BY <1>3 DEF Call, C

LEMMA CallFunctionKeeps == IInv /\ CallFunction => IInv'
<1> SUFFICES ASSUME IInv, CallFunction PROVE IInv'
  OBVIOUS
<1>0. PICK a \in Applets : isp' = [pc |-> "run", fn |-> a, done |-> 0, dma |-> NULL]
  BY DEF CallFunction
<1>1. isp' \in IspThread /\ isp'.dma = NULL /\ isp'.pc = "run"
  BY <1>0, AppletAssumption DEF IspThread
<1>2. msg_in' \in Seq({"EXECUTE_FTN"})
  BY DEF CallFunction, IInv, TInv, TypeOK
<1> USE DEF CallFunction
<1>3. TInv'
  BY <1>1, <1>2 DEF IInv, TInv, TypeOK
<1>4. CommandAt'
  BY IspLeavesCommand
<1>5. Ready'
  BY <1>1 DEF IInv, Ready
<1>6. Pool'
  BY <1>1 DEF IInv, Pool, Ready
<1> QED BY <1>3, <1>4, <1>5, <1>6 DEF IInv

LEMMA AllocKeeps == IInv /\ AllocPageBuffer => IInv'
<1> SUFFICES ASSUME IInv, AllocPageBuffer PROVE IInv'
  OBVIOUS
<1> USE DEF AllocPageBuffer
<1>1. isp' \in IspThread /\ isp'.pc = "run" /\ isp'.dma = NULL
  BY NextCallKeeps
<1>2. ofs' \in 0 .. BUFFER_SIZE
  <2>1. Call.size \in Nat
    BY CallIs
  <2>2. ofs \in 0 .. BUFFER_SIZE
    BY DEF IInv, TInv, TypeOK
  <2>3. ofs' = ofs \/ (ofs' = ofs + Call.size /\ ofs + Call.size <= BUFFER_SIZE)
    BY DEF FitsBuffer
  <2> QED BY <2>1, <2>2, <2>3, SizeAssumption
<1>3. TInv'
  BY <1>1, <1>2 DEF IInv, TInv, TypeOK
<1>4. CommandAt'
  BY IspLeavesCommand
<1>5. Ready'
  BY <1>1 DEF IInv, Ready
<1>6. Pool'
  BY <1>1 DEF IInv, Pool, Ready
<1> QED BY <1>3, <1>4, <1>5, <1>6 DEF IInv

LEMMA DmaReturnKeeps == IInv /\ DmaReturn => IInv'
<1> SUFFICES ASSUME IInv, DmaReturn PROVE IInv'
  OBVIOUS
<1> USE DEF DmaReturn
<1>1. isp' \in IspThread /\ isp'.pc = "run" /\ isp'.dma = NULL
  BY NextCallKeeps
<1>3. TInv'
  BY <1>1 DEF IInv, TInv, TypeOK
<1>4. CommandAt'
  BY IspLeavesCommand
<1>5. Ready'
  BY <1>1 DEF IInv, Ready
<1>6. Pool'
  BY <1>1 DEF IInv, Pool, Ready
<1> QED BY <1>3, <1>4, <1>5, <1>6 DEF IInv

LEMMA NandDoneKeeps == IInv /\ NandDone => IInv'
<1> SUFFICES ASSUME IInv, NandDone PROVE IInv'
  OBVIOUS
<1> USE DEF NandDone
<1>1. isp' \in IspThread /\ isp'.pc = "run" /\ isp'.dma = NULL
  BY NextCallKeeps DEF IInv, Ready
<1>3. TInv'
  BY <1>1 DEF IInv, TInv, TypeOK
<1>4. CommandAt'
  BY IspLeavesCommand
<1>5. Ready'
  BY <1>1 DEF IInv, Ready
<1>6. Pool'
  BY <1>1 DEF IInv, Pool, Ready
<1> QED BY <1>3, <1>4, <1>5, <1>6 DEF IInv

LEMMA DmaRequestKeeps == IInv /\ DmaRequest => IInv'
<1> SUFFICES ASSUME IInv, DmaRequest PROVE IInv'
  OBVIOUS
<1> DEFINE o == Head(cmplt)
           piece == [obj[o] EXCEPT !.stage = "INIT", !.tx = Call.fn, !.transfered = 0,
                                   !.moved = FALSE,
                                   !.page = PiecePage(Call, isp.done), !.addr = isp.done,
                                   !.size = PieceSize(Call, isp.done)]
<1>1. /\ cmplt \in Seq(Object) /\ cmplt # <<>> /\ pending \in Seq(Object)
      /\ obj \in [Object -> ObjRecord] /\ isp \in IspThread
      /\ isp.pc = "run" /\ isp.dma = NULL /\ isp.fn # <<>>
  BY DEF DmaRequest, IInv, TInv, TypeOK, Ready
<1>2. /\ o \in Object /\ cmplt' \in Seq(Object) /\ Len(cmplt') = Len(cmplt) - 1
      /\ Len(cmplt) >= 1 /\ Elems(cmplt) = {o} \cup Elems(cmplt')
  BY <1>1, ElemsHead DEF DmaRequest
<1>3. /\ PiecePage(Call, isp.done) \in Nat /\ PieceSize(Call, isp.done) \in Nat
      /\ isp.done \in Nat /\ Call.fn \in Transfer
  <2>1. Call.page \in Nat /\ Call.size \in Nat /\ isp.done \in Nat /\ isp.done < Call.size
    BY <1>1, CallIs DEF DmaRequest, IspThread
  <2>2. isp.done \div PAGE_SIZE \in Nat
    BY <2>1, SizeAssumption
  <2>3. Call.fn \in Transfer
    BY DEF DmaRequest, Transfer
  <2> QED BY <2>1, <2>2, <2>3, SizeAssumption DEF PiecePage, PieceSize
<1>4. piece \in ObjRecord
  <2>1. obj[o] \in ObjRecord
    BY <1>1, <1>2
  <2> QED BY <2>1, <1>3 DEF ObjRecord, Stage, Transfer
<1>5. obj' = [obj EXCEPT ![o] = piece]
  BY DEF DmaRequest
<1>6. obj' \in [Object -> ObjRecord]
  <2> HIDE DEF piece
  <2> QED BY <1>1, <1>2, <1>4, <1>5
<1>7. pending' \in Seq(Object)
  BY <1>1, <1>2, ElemsAppend DEF DmaRequest
<1>8. isp' \in IspThread /\ isp'.pc = "posted" /\ isp'.dma = o /\ isp'.fn = isp.fn
  BY <1>1, <1>2 DEF DmaRequest, IspThread
<1> HIDE DEF o, piece
<1>9. TInv'
  BY <1>2, <1>6, <1>7, <1>8 DEF DmaRequest, IInv, TInv, TypeOK
<1>10. CommandAt'
  BY IspLeavesCommand DEF DmaRequest
<1>11. o # NULL
  BY <1>2, NullIsNone
<1>12. Ready'
  BY <1>1, <1>8, <1>11 DEF DmaRequest, IInv, Ready
<1>13. /\ Num(isp'.dma) = 1 /\ Num(isp.dma) = 0
       /\ Only(isp'.dma) = {o} /\ Only(isp.dma) = {}
  BY <1>1, <1>8, <1>11 DEF Num, Only
<1>14. Pool'
  <2>1. /\ Len(cmplt') + Num(isp'.dma) = Len(cmplt) + Num(isp.dma)
        /\ Elems(cmplt') \cup Only(isp'.dma) = Elems(cmplt) \cup Only(isp.dma)
    BY <1>1, <1>2, <1>13
  <2> QED BY <2>1, <1>1, <1>2, PoolMoves DEF DmaRequest, IInv, TInv, TypeOK
<1> QED BY <1>9, <1>10, <1>12, <1>14 DEF IInv

LEMMA DmaAnnounceKeeps == IInv /\ DmaAnnounce => IInv'
<1> SUFFICES ASSUME IInv, DmaAnnounce PROVE IInv'
  OBVIOUS
<1>1. isp.dma \in Object /\ isp.dma # NULL
  BY DEF DmaAnnounce, IInv, TInv, TypeOK, Ready, IspThread
<1>2. [type |-> "HOST_DMA", obj |-> isp.dma] \in Told
  BY <1>1 DEF Told, Message
<1>3. msg_out' \in Seq(Told) /\ msg_out' \in Seq(Message)
  BY <1>2, TellKeeps DEF DmaAnnounce, IInv, TInv
<1>4. isp' \in IspThread /\ isp'.pc = "wait" /\ isp'.dma = isp.dma /\ isp'.fn = isp.fn
  BY DEF DmaAnnounce, IInv, TInv, TypeOK, IspThread
<1>5. TInv'
  BY <1>3, <1>4 DEF DmaAnnounce, IInv, TInv, TypeOK
<1>6. CommandAt'
  BY IspLeavesCommand DEF DmaAnnounce
<1>7. Ready'
  BY <1>1, <1>4 DEF DmaAnnounce, IInv, Ready
<1>8. Pool'
  BY <1>4 DEF DmaAnnounce, IInv, Pool
<1> QED BY <1>5, <1>6, <1>7, <1>8 DEF IInv

LEMMA DmaDoneKeeps == IInv /\ DmaDone => IInv'
<1> SUFFICES ASSUME IInv, DmaDone PROVE IInv'
  OBVIOUS
<1>1. /\ isp.dma \in Object /\ isp.dma # NULL /\ cmplt \in Seq(Object) /\ isp \in IspThread
      /\ obj[isp.dma] \in ObjRecord
  BY DEF DmaDone, IInv, TInv, TypeOK, Ready, IspThread
<1>2. /\ cmplt' \in Seq(Object) /\ Len(cmplt') = Len(cmplt) + 1
      /\ Elems(cmplt') = Elems(cmplt) \cup {isp.dma}
  <2>1. Num(isp.dma) = 1 /\ Len(cmplt) \in Nat
    BY <1>1 DEF Num
  <2>2. Len(cmplt) # QUEUE_SIZE - 1
    BY <2>1 DEF IInv, Pool
  <2>3. cmplt' = Append(cmplt, isp.dma)
    BY <2>2 DEF DmaDone, PutBack
  <2> QED BY <2>3, <1>1, ElemsAppend
<1>3. isp' \in IspThread /\ isp'.pc = "run" /\ isp'.dma = NULL
  <2>1. obj[isp.dma].size \in Nat /\ isp.done \in Nat
    BY <1>1 DEF ObjRecord, IspThread
  <2>2. isp.done + obj[isp.dma].size \in Nat
    BY <2>1
  <2> QED BY <1>1, <2>2 DEF DmaDone, IspThread
<1>4. TInv'
  BY <1>2, <1>3 DEF DmaDone, IInv, TInv, TypeOK
<1>5. CommandAt'
  BY IspLeavesCommand DEF DmaDone
<1>6. Ready'
  BY <1>3 DEF DmaDone, IInv, Ready
<1>7. /\ Num(isp'.dma) = 0 /\ Num(isp.dma) = 1
      /\ Only(isp'.dma) = {} /\ Only(isp.dma) = {isp.dma}
  BY <1>1, <1>3 DEF Num, Only
<1>8. Pool'
  <2>1. Len(cmplt) \in Nat
    BY <1>1
  <2>2. /\ Len(cmplt') + Num(isp'.dma) = Len(cmplt) + Num(isp.dma)
        /\ Elems(cmplt') \cup Only(isp'.dma) = Elems(cmplt) \cup Only(isp.dma)
    BY <1>2, <1>7, <2>1
  <2> QED BY <2>2, <1>1, <1>2, PoolMoves DEF DmaDone, IInv, TInv, TypeOK
<1> QED BY <1>4, <1>5, <1>6, <1>8 DEF IInv

LEMMA NandRequestKeeps == IInv /\ NandRequest => IInv'
<1> SUFFICES ASSUME IInv, NandRequest PROVE IInv'
  OBVIOUS
<1>1. nvme.nand \in Object /\ nvme.nand # NULL /\ obj \in [Object -> ObjRecord]
  BY DEF NandRequest, IInv, TInv, TypeOK, Ready, Nvme
<1>2. [type |-> "NAND_OP", obj |-> nvme.nand] \in Told
  BY <1>1 DEF Told, Message
<1>3. msg_out' \in Seq(Told) /\ msg_out' \in Seq(Message)
  BY <1>2, TellKeeps DEF NandRequest, IInv, TInv
<1>4. isp' \in IspThread /\ isp'.pc = "nand" /\ isp'.dma = isp.dma /\ isp'.fn = isp.fn
  BY DEF NandRequest, IInv, TInv, TypeOK, IspThread
<1>5. obj' \in [Object -> ObjRecord]
  BY <1>1, StageKeeps DEF NandRequest, Stage
<1>6. TInv'
  BY <1>3, <1>4, <1>5 DEF NandRequest, IInv, TInv, TypeOK
<1>7. CommandAt'
  BY IspLeavesCommand DEF NandRequest
<1>8. Ready'
  BY <1>4 DEF NandRequest, IInv, Ready
<1>9. Pool'
  BY <1>4 DEF NandRequest, IInv, Pool
<1> QED BY <1>6, <1>7, <1>8, <1>9 DEF IInv

LEMMA ExitKeeps == IInv /\ (FunctionExit \/ AnnounceExit) => IInv'
<1> SUFFICES ASSUME IInv, FunctionExit \/ AnnounceExit PROVE IInv'
  OBVIOUS
<1>1. /\ isp' \in IspThread /\ isp'.pc \in {"exit", "idle"} /\ isp'.dma = isp.dma
      /\ isp.pc \in {"run", "exit"}
  BY DEF FunctionExit, AnnounceExit, IInv, TInv, TypeOK, IspThread
<1>2. msg_out' \in Seq(Told) /\ msg_out' \in Seq(Message)
  <2>1. [type |-> "EXIT", obj |-> NULL] \in Told
    BY DEF Told, Message
  <2> QED BY <2>1, TellKeeps DEF FunctionExit, AnnounceExit, IInv, TInv, TypeOK
<1>3. TInv'
  <2>1. ofs' \in 0 .. BUFFER_SIZE
    <3>1. ofs' = 0 \/ ofs' = ofs
      BY DEF FunctionExit, AnnounceExit
    <3>2. ofs \in 0 .. BUFFER_SIZE
      BY DEF IInv, TInv, TypeOK
    <3> QED BY <3>1, <3>2, SizeAssumption
  <2>2. exited' \in BOOLEAN
    BY DEF FunctionExit, AnnounceExit, IInv, TInv, TypeOK
  <2>3. UNCHANGED <<host, sqe, nvme, pending, obj, free, cmplt, msg_in, ftl_q, execs>>
    BY DEF FunctionExit, AnnounceExit
  <2> QED BY <1>1, <1>2, <2>1, <2>2, <2>3 DEF IInv, TInv, TypeOK
<1>4. CommandAt'
  BY IspLeavesCommand DEF FunctionExit, AnnounceExit
<1>5. Ready'
  BY <1>1 DEF FunctionExit, AnnounceExit, IInv, Ready
<1>6. Pool'
  BY <1>1 DEF FunctionExit, AnnounceExit, IInv, Pool
<1> QED BY <1>3, <1>4, <1>5, <1>6 DEF IInv

LEMMA FtlNandOpKeeps == IInv /\ FtlNandOp => IInv'
<1> SUFFICES ASSUME IInv, FtlNandOp PROVE IInv'
  OBVIOUS
<1>1. obj' \in [Object -> ObjRecord]
  BY StageKeeps DEF FtlNandOp, IInv, TInv, TypeOK, Stage
<1>2. ftl_q' \in Seq(Object)
  BY DEF FtlNandOp, IInv, TInv, TypeOK
<1>3. TInv'
  BY <1>1, <1>2 DEF FtlNandOp, ispVars, IInv, TInv, TypeOK
<1>4. CommandAt'
  BY IspLeavesCommand DEF FtlNandOp
<1>5. Ready' /\ Pool'
  BY DEF FtlNandOp, ispVars, IInv, Ready, Pool
<1> QED BY <1>3, <1>4, <1>5 DEF IInv

----------------------------------------------------------------------------
(* The NVMe driver's CPU. *)

\* An object moves between the pool and the driver's commands.
LEMMA CommandMoves ==
  ASSUME Pool, free \in Seq(Object), free' \in Seq(Object), cmplt \in Seq(Object),
         cmplt' = cmplt, nvme'.nand = nvme.nand, isp'.dma = isp.dma,
         Len(free') + Num(nvme'.ctrl) + Num(nvme'.req)
           = Len(free) + Num(nvme.ctrl) + Num(nvme.req),
         Elems(free') \cup Only(nvme'.ctrl) \cup Only(nvme'.req)
           = Elems(free) \cup Only(nvme.ctrl) \cup Only(nvme.req)
  PROVE  Pool'
<1> DEFINE a == Len(free)  b == Len(free')  c == Len(cmplt)  x == Num(nvme.ctrl)
           y == Num(nvme'.ctrl)  k == Num(nvme.req)  l == Num(nvme'.req)
           m == Num(nvme.nand)  n == Num(isp.dma)
<1>1. a + c + x + k + m + n = O_SIZE - 1 /\ c + n <= QUEUE_SIZE - 1 /\ b + y + l = a + x + k
  BY DEF Pool
<1>2. /\ a \in Int /\ b \in Int /\ c \in Int /\ x \in Int /\ y \in Int
      /\ k \in Int /\ l \in Int /\ m \in Int /\ n \in Int
  BY DEF Num
<1>3. b + c + y + l + m + n = O_SIZE - 1
  <2> HIDE DEF a, b, c, x, y, k, l, m, n
  <2> QED BY <1>1, <1>2
<1>4. Elems(free') \cup Elems(cmplt) \cup Only(nvme'.ctrl) \cup Only(nvme'.req)
       \cup Only(nvme.nand) \cup Only(isp.dma) = Object
  BY DEF Pool
<1> QED BY <1>1, <1>3, <1>4 DEF Pool

\* A command that arrives finds its slots empty and objects to take.
LEMMA ArrivesFinds ==
  ASSUME IInv, sqe # "none"
  PROVE  /\ nvme.ctrl = NULL /\ nvme.req = NULL /\ nvme.pc = "free" /\ host.pc = "sent"
         /\ Len(free) >= QUEUE_SIZE + 1 /\ free # <<>> /\ free \in Seq(Object)
         /\ Len(free) + Len(cmplt) + Num(nvme.nand) + Num(isp.dma) = O_SIZE - 1
<1>1. /\ nvme.ctrl = NULL /\ nvme.req = NULL /\ nvme.pc = "free" /\ host.pc = "sent"
      /\ free \in Seq(Object) /\ cmplt \in Seq(Object)
  BY DEF IInv, CommandAt, TInv, TypeOK
<1> DEFINE a == Len(free)  c == Len(cmplt)  m == Num(nvme.nand)  n == Num(isp.dma)
<1>2. a \in Int /\ c \in Int /\ m \in 0 .. 1 /\ n \in Int
  BY <1>1 DEF Num
<1>3. a + c + 0 + 0 + m + n = O_SIZE - 1 /\ c + n <= QUEUE_SIZE - 1
  BY <1>1 DEF IInv, Pool, Num
<1>4. a >= QUEUE_SIZE + 1 /\ a + c + m + n = O_SIZE - 1
  <2> HIDE DEF a, c, m, n
  <2> QED BY <1>2, <1>3
<1>5. free # <<>>
  BY <1>4
<1> QED BY <1>1, <1>4, <1>5

LEMMA ControlCommandKeeps == IInv /\ ControlCommand => IInv'
<1> SUFFICES ASSUME IInv, ControlCommand PROVE IInv'
  OBVIOUS
<1> DEFINE r == Head(free)
           os == SetupIoReq(r, obj)
<1>1. /\ sqe = "CTRL" /\ sqe' = "none" /\ nvme.pc = "free" /\ nvme.ctrl = NULL
      /\ nvme.req = NULL /\ host.pc = "sent" /\ free # <<>> /\ free \in Seq(Object)
      /\ UNCHANGED <<isp, ofs, cmplt, msg_in, msg_out, ftl_q, exited, execs>>
  BY ArrivesFinds DEF ControlCommand, Arrives
<1>2. /\ r \in Object /\ Tail(free) \in Seq(Object) /\ Len(Tail(free)) = Len(free) - 1
      /\ Len(free) >= 1 /\ Elems(free) = {r} \cup Elems(Tail(free)) /\ r # NULL
  BY <1>1, ElemsHead, NullIsNone
<1>3. os \in [Object -> ObjRecord]
  BY <1>2, SetupKeeps DEF IInv, TInv, TypeOK
<1>4. nvme \in Nvme /\ pending \in Seq(Object) /\ cmplt \in Seq(Object)
  BY DEF IInv, TInv, TypeOK
<1>5. CASE exited
  <2>1. Answer(r, Plain("EXIT"), os, Tail(free)) /\ UNCHANGED <<nvme, pending>>
    BY <1>5 DEF ControlCommand
  <2> HIDE DEF r, os
  <2>2. /\ host' \in [pc: {"idle", "sent", "answered"}, code: Code]
        /\ host'.pc = "answered" /\ host'.code = Plain("EXIT")
        /\ obj' \in [Object -> ObjRecord]
        /\ free' \in Seq(Object) /\ Len(free') = Len(Tail(free)) + 1
        /\ Elems(free') = Elems(Tail(free)) \cup {r}
    BY <2>1, <1>2, <1>3, PlainCode, AnswerKeeps
  <2>3. TInv'
    BY <1>1, <2>1, <2>2 DEF IInv, TInv, TypeOK
  <2>4. CommandAt'
    BY <1>1, <2>1, <2>2 DEF CommandAt
  <2>5. Ready'
    BY <1>1, <2>1, <2>2, PlainCode DEF IInv, Ready
  <2>6. Pool'
    <3>1. Len(free') = Len(free) /\ Elems(free') = Elems(free)
      BY <1>1, <1>2, <2>2
    <3> QED BY <3>1, <1>1, <2>1 DEF IInv, Pool
  <2> QED BY <2>3, <2>4, <2>5, <2>6 DEF IInv
<1>6. CASE ~exited /\ pending # <<>>
  <2>1. /\ Answer(r, DtxCode(Head(pending)), os, Tail(free)) /\ pending' = Tail(pending)
        /\ nvme' = [nvme EXCEPT !.active = Head(pending)]
    BY <1>6 DEF ControlCommand, PostDmaMsg
  <2> HIDE DEF r, os
  <2>2. Head(pending) \in Object /\ pending' \in Seq(Object) /\ Head(pending) # NULL
    BY <1>4, <1>6, <2>1, NullIsNone
  <2>3. DtxCode(Head(pending)) \in Code
    BY <2>2, DtxIsCode DEF IInv, TInv
  <2>4. /\ host' \in [pc: {"idle", "sent", "answered"}, code: Code]
        /\ host'.pc = "answered"
        /\ obj' \in [Object -> ObjRecord]
        /\ free' \in Seq(Object) /\ Len(free') = Len(Tail(free)) + 1
        /\ Elems(free') = Elems(Tail(free)) \cup {r}
    BY <2>1, <2>3, <1>2, <1>3, AnswerKeeps
  <2>5. /\ nvme' \in Nvme /\ nvme'.pc = nvme.pc /\ nvme'.ctrl = nvme.ctrl /\ nvme'.req = nvme.req
        /\ nvme'.nand = nvme.nand /\ nvme'.active # NULL
    BY <2>1, <2>2, <1>4 DEF Nvme
  <2>6. TInv'
    BY <1>1, <2>2, <2>4, <2>5 DEF IInv, TInv, TypeOK
  <2>7. CommandAt'
    BY <1>1, <2>4, <2>5 DEF CommandAt
  <2>8. Ready'
    BY <1>1, <2>5 DEF IInv, Ready
  <2>9. Pool'
    <3>1. Len(free') = Len(free) /\ Elems(free') = Elems(free)
      BY <1>1, <1>2, <2>4
    <3> QED BY <3>1, <1>1, <2>5 DEF IInv, Pool
  <2> QED BY <2>6, <2>7, <2>8, <2>9 DEF IInv
<1>7. CASE ~exited /\ pending = <<>>
  <2>1. /\ nvme' = [nvme EXCEPT !.ctrl = r, !.recycles = @ + 1]
        /\ obj' = os /\ free' = Tail(free) /\ UNCHANGED <<host, pending>>
    BY <1>7 DEF ControlCommand
  <2> HIDE DEF r, os
  <2>2. /\ nvme' \in Nvme /\ nvme'.pc = nvme.pc /\ nvme'.ctrl = r /\ nvme'.req = nvme.req
        /\ nvme'.nand = nvme.nand /\ nvme'.active = nvme.active
    <3>1. nvme.recycles + 1 \in Nat
      BY <1>4 DEF Nvme
    <3> QED BY <3>1, <2>1, <1>2, <1>4 DEF Nvme
  <2>3. TInv'
    BY <1>1, <1>2, <1>3, <2>1, <2>2 DEF IInv, TInv, TypeOK
  <2>4. CommandAt'
    BY <1>1, <1>2, <2>1, <2>2 DEF CommandAt
  <2>5. Ready'
    BY <1>1, <2>1, <2>2 DEF IInv, Ready
  <2>6. Pool'
    <3>1. /\ Num(nvme'.ctrl) = 1 /\ Num(nvme.ctrl) = 0 /\ Num(nvme.req) = 0 /\ Num(nvme'.req) = 0
          /\ Only(nvme'.ctrl) = {r} /\ Only(nvme.ctrl) = {} /\ Only(nvme'.req) = Only(nvme.req)
      BY <1>1, <1>2, <2>2 DEF Num, Only
    <3>2. Len(free') + Num(nvme'.ctrl) + Num(nvme'.req)
            = Len(free) + Num(nvme.ctrl) + Num(nvme.req)
      BY <3>1, <1>1, <1>2, <2>1
    <3>3. Elems(free') \cup Only(nvme'.ctrl) \cup Only(nvme'.req)
            = Elems(free) \cup Only(nvme.ctrl) \cup Only(nvme.req)
      BY <3>1, <1>2, <2>1
    <3> QED BY <3>2, <3>3, <1>1, <1>2, <1>4, <2>1, <2>2, CommandMoves DEF IInv
  <2> QED BY <2>3, <2>4, <2>5, <2>6 DEF IInv
<1> QED BY <1>5, <1>6, <1>7 DEF ControlCommand

\* The control command that waits is answered: by its recycling, or by a
\* message of the ISP thread.
LEMMA WaitingAnswered ==
  ASSUME IInv, nvme.ctrl # NULL, NEW code \in Code, Answer(nvme.ctrl, code, obj, free),
         nvme' \in Nvme, nvme'.pc = nvme.pc, nvme'.ctrl = NULL, nvme'.req = nvme.req,
         nvme'.nand = nvme.nand, code.msg \in Transfer => nvme'.active # NULL,
         pending' \in Seq(Object), msg_out' \in Seq(Told), msg_out' \in Seq(Message),
         ftl_q' \in Seq(Object),
         UNCHANGED <<sqe, isp, ofs, cmplt, msg_in, exited, execs>>
  PROVE  IInv'
<1> DEFINE r == nvme.ctrl
<1>1. /\ r \in Object /\ obj \in [Object -> ObjRecord] /\ free \in Seq(Object)
      /\ cmplt \in Seq(Object)
  BY DEF IInv, TInv, TypeOK, Nvme
<1>2. /\ sqe = "none" /\ nvme.pc = "free" /\ nvme.req = NULL
  BY DEF IInv, CommandAt
<1>3. Answer(r, code, obj, free)
  OBVIOUS
<1> HIDE DEF r
<1>4. /\ host' \in [pc: {"idle", "sent", "answered"}, code: Code]
      /\ host'.pc = "answered" /\ host'.code = code
      /\ obj' \in [Object -> ObjRecord]
      /\ free' \in Seq(Object) /\ Len(free') = Len(free) + 1
      /\ Elems(free') = Elems(free) \cup {r}
  BY <1>1, <1>3, AnswerKeeps
<1>5. TInv'
  BY <1>4 DEF IInv, TInv, TypeOK
<1>6. CommandAt'
  BY <1>2, <1>4 DEF CommandAt
<1>7. Ready'
  BY <1>2, <1>4 DEF IInv, Ready
<1>8. Pool'
  <2>1. /\ Num(nvme'.ctrl) = 0 /\ Num(nvme.ctrl) = 1 /\ Num(nvme.req) = 0 /\ Num(nvme'.req) = 0
        /\ Only(nvme'.ctrl) = {} /\ Only(nvme.ctrl) = {r} /\ Only(nvme'.req) = Only(nvme.req)
    BY <1>2 DEF Num, Only, r
  <2>2. Len(free) \in Nat
    BY <1>1
  <2>3. Len(free') + Num(nvme'.ctrl) + Num(nvme'.req)
          = Len(free) + Num(nvme.ctrl) + Num(nvme.req)
    BY <2>1, <2>2, <1>4
  <2>4. Elems(free') \cup Only(nvme'.ctrl) \cup Only(nvme'.req)
          = Elems(free) \cup Only(nvme.ctrl) \cup Only(nvme.req)
    BY <2>1, <1>4
  <2> QED BY <2>3, <2>4, <1>1, <1>4, CommandMoves DEF IInv
<1> QED BY <1>5, <1>6, <1>7, <1>8 DEF IInv

LEMMA RecycleKeeps == IInv /\ RecycleControlCommand => IInv'
<1> SUFFICES ASSUME IInv, RecycleControlCommand PROVE IInv'
  OBVIOUS
<1>1. /\ nvme \in Nvme /\ pending \in Seq(Object) /\ nvme.recycles - 1 \in Nat
      /\ msg_out \in Seq(Told) /\ msg_out \in Seq(Message) /\ ftl_q \in Seq(Object)
      /\ UNCHANGED <<sqe, isp, ofs, cmplt, msg_in, msg_out, ftl_q, exited, execs>>
  <2>1. nvme.recycles \in Nat /\ nvme.recycles > 0
    BY DEF RecycleControlCommand, IInv, TInv, TypeOK, Nvme
  <2>2. nvme.recycles - 1 \in Nat
    BY <2>1
  <2>3. UNCHANGED <<sqe, isp, ofs, cmplt, msg_in, msg_out, ftl_q, exited, execs>>
    BY DEF RecycleControlCommand
  <2> QED BY <2>2, <2>3 DEF IInv, TInv, TypeOK
<1>2. CASE nvme.ctrl = NULL
  <2>1. /\ nvme' = [nvme EXCEPT !.recycles = @ - 1] /\ UNCHANGED <<host, obj, free, pending>>
    BY <1>2 DEF RecycleControlCommand
  <2>2. /\ nvme' \in Nvme /\ nvme'.pc = nvme.pc /\ nvme'.ctrl = nvme.ctrl /\ nvme'.req = nvme.req
        /\ nvme'.nand = nvme.nand /\ nvme'.active = nvme.active
    BY <2>1, <1>1 DEF Nvme
  <2>3. TInv'
    BY <1>1, <2>1, <2>2 DEF IInv, TInv, TypeOK
  <2>4. CommandAt' /\ Ready' /\ Pool'
    BY <1>1, <2>1, <2>2 DEF IInv, CommandAt, Ready, Pool
  <2> QED BY <2>3, <2>4 DEF IInv
<1>3. CASE nvme.ctrl # NULL /\ pending # <<>>
  <2>1. /\ pending' = Tail(pending) /\ Answer(nvme.ctrl, DtxCode(Head(pending)), obj, free)
        /\ nvme' = [nvme EXCEPT !.recycles = @ - 1, !.active = Head(pending), !.ctrl = NULL]
    BY <1>3 DEF RecycleControlCommand, PostDmaMsg, Release
  <2>2. Head(pending) \in Object /\ pending' \in Seq(Object) /\ Head(pending) # NULL
    BY <1>1, <1>3, <2>1, NullIsNone
  <2>3. DtxCode(Head(pending)) \in Code
    BY <2>2, DtxIsCode DEF IInv, TInv
  <2>4. /\ nvme' \in Nvme /\ nvme'.pc = nvme.pc /\ nvme'.ctrl = NULL /\ nvme'.req = nvme.req
        /\ nvme'.nand = nvme.nand /\ nvme'.active # NULL
    BY <2>1, <2>2, <1>1 DEF Nvme
  <2> QED BY <1>1, <1>3, <2>1, <2>2, <2>3, <2>4, WaitingAnswered
<1>4. CASE nvme.ctrl # NULL /\ pending = <<>>
  <2> DEFINE code == RecycleCode
  <2>1. /\ pending' = pending /\ Answer(nvme.ctrl, code, obj, free)
        /\ nvme' = [nvme EXCEPT !.recycles = @ - 1, !.ctrl = NULL]
    BY <1>4 DEF RecycleControlCommand, Release
  <2>2. code \in Code /\ code.msg \notin Transfer
    BY PlainCode DEF RecycleCode
  <2> HIDE DEF code
  <2>3. /\ nvme' \in Nvme /\ nvme'.pc = nvme.pc /\ nvme'.ctrl = NULL /\ nvme'.req = nvme.req
        /\ nvme'.nand = nvme.nand
    BY <2>1, <1>1 DEF Nvme
  <2>4. pending' \in Seq(Object) /\ msg_out' \in Seq(Told) /\ msg_out' \in Seq(Message)
        /\ ftl_q' \in Seq(Object)
    BY <1>1, <2>1
  <2> QED BY <1>1, <1>4, <2>1, <2>2, <2>3, <2>4, WaitingAnswered
<1> QED BY <1>2, <1>3, <1>4

LEMMA MsgCbkKeeps == IInv /\ MsgCbk => IInv'
<1> SUFFICES ASSUME IInv, MsgCbk PROVE IInv'
  OBVIOUS
<1> DEFINE m == Head(msg_out)
<1>1. /\ nvme \in Nvme /\ pending' \in Seq(Object) /\ ftl_q \in Seq(Object)
      /\ msg_out \in Seq(Told) /\ msg_out \in Seq(Message) /\ msg_out # <<>>
      /\ msg_out' = Tail(msg_out)
      /\ UNCHANGED <<sqe, isp, pending, ofs, cmplt, msg_in, exited, execs>>
  BY DEF MsgCbk, ispVars, IInv, TInv, TypeOK
<1>2. m \in Told /\ msg_out' \in Seq(Told) /\ msg_out' \in Seq(Message)
  BY <1>1
<1>3. m.type # "EXIT" => m.obj \in Object /\ m.obj # NULL
  BY <1>2 DEF Told, Message
<1>4. CASE m.type = "HOST_DMA" /\ nvme.ctrl # NULL
  <2>1. /\ nvme' = [nvme EXCEPT !.active = m.obj, !.ctrl = NULL] /\ ftl_q' = ftl_q
        /\ Answer(nvme.ctrl, DtxCode(m.obj), obj, free)
    BY <1>4 DEF MsgCbk, PostDmaMsg, Release
  <2>2. m.obj \in Object /\ m.obj # NULL /\ DtxCode(m.obj) \in Code
    BY <1>3, <1>4, DtxIsCode DEF IInv, TInv
  <2> HIDE DEF m
  <2>3. /\ nvme' \in Nvme /\ nvme'.pc = nvme.pc /\ nvme'.ctrl = NULL /\ nvme'.req = nvme.req
        /\ nvme'.nand = nvme.nand /\ nvme'.active # NULL
    BY <2>1, <2>2, <1>1 DEF Nvme
  <2> QED BY <1>1, <1>2, <1>4, <2>1, <2>2, <2>3, WaitingAnswered
<1>5. CASE m.type = "EXIT" /\ nvme.ctrl # NULL
  <2> DEFINE code == Plain("EXIT")
  <2>1. /\ nvme' = [nvme EXCEPT !.ctrl = NULL] /\ ftl_q' = ftl_q
        /\ Answer(nvme.ctrl, code, obj, free)
    BY <1>5 DEF MsgCbk, Release
  <2>2. code \in Code /\ code.msg \notin Transfer
    BY PlainCode
  <2> HIDE DEF m, code
  <2>3. /\ nvme' \in Nvme /\ nvme'.pc = nvme.pc /\ nvme'.ctrl = NULL /\ nvme'.req = nvme.req
        /\ nvme'.nand = nvme.nand
    BY <2>1, <1>1 DEF Nvme
  <2> QED BY <1>1, <1>2, <1>5, <2>1, <2>2, <2>3, WaitingAnswered
<1>6. CASE m.type \in {"HOST_DMA", "EXIT"} /\ nvme.ctrl = NULL
  <2>1. UNCHANGED <<host, nvme, obj, free, ftl_q>>
    BY <1>6 DEF MsgCbk
  <2> HIDE DEF m
  <2>2. TInv'
    BY <1>1, <1>2, <2>1 DEF IInv, TInv, TypeOK
  <2>3. CommandAt' /\ Ready' /\ Pool'
    BY <1>1, <2>1 DEF IInv, CommandAt, Ready, Pool
  <2> QED BY <2>2, <2>3 DEF IInv
<1>7. CASE m.type = "NAND_OP"
  <2>1. ftl_q' = Append(ftl_q, m.obj) /\ UNCHANGED <<host, nvme, obj, free>>
    BY <1>7 DEF MsgCbk
  <2>2. ftl_q' \in Seq(Object)
    BY <2>1, <1>1, <1>3, <1>7
  <2> HIDE DEF m
  <2>3. TInv'
    BY <1>1, <1>2, <2>1, <2>2 DEF IInv, TInv, TypeOK
  <2>4. CommandAt' /\ Ready' /\ Pool'
    BY <1>1, <2>1 DEF IInv, CommandAt, Ready, Pool
  <2> QED BY <2>3, <2>4 DEF IInv
<1>8. m.type \in {"HOST_DMA", "NAND_OP", "EXIT"}
  BY <1>2 DEF Told, Message
<1> QED BY <1>4, <1>5, <1>6, <1>7, <1>8

LEMMA TransferBeginKeeps == IInv /\ DataTransferBegin => IInv'
<1> SUFFICES ASSUME IInv, DataTransferBegin PROVE IInv'
  OBVIOUS
<1> DEFINE r == Head(free)
           a == nvme.active
           os == SetupIoReq(r, obj)
<1>1. /\ sqe = "TX" /\ sqe' = "none" /\ nvme.pc = "free" /\ nvme.ctrl = NULL
      /\ nvme.req = NULL /\ host.pc = "sent" /\ free # <<>> /\ free \in Seq(Object)
      /\ free' = Tail(free)
      /\ UNCHANGED <<host, isp, pending, ofs, cmplt, msg_in, msg_out, ftl_q, exited, execs>>
  BY ArrivesFinds DEF DataTransferBegin, Arrives, ispVars
<1>2. /\ r \in Object /\ Tail(free) \in Seq(Object) /\ Len(Tail(free)) = Len(free) - 1
      /\ Len(free) >= 1 /\ Elems(free) = {r} \cup Elems(Tail(free)) /\ r # NULL
  BY <1>1, ElemsHead, NullIsNone
<1>3. os \in [Object -> ObjRecord]
  BY <1>2, SetupKeeps DEF IInv, TInv, TypeOK
<1>4. nvme \in Nvme /\ cmplt \in Seq(Object) /\ obj \in [Object -> ObjRecord]
  BY DEF IInv, TInv, TypeOK
<1>5. a \in Object /\ obj[a].addr \in Nat
  <2>1. a \in Object
    BY <1>1, <1>4 DEF IInv, Ready, Nvme
  <2> QED BY <2>1, <1>4 DEF ObjRecord
<1>6. host.code.page \in Nat /\ host.code.size \in Nat
  BY DEF IInv, TInv, TypeOK, Code
<1>7. /\ nvme' = [nvme EXCEPT !.pc = "transfer", !.req = r, !.page = host.code.page,
                              !.size = host.code.size, !.addr = obj[a].addr]
      /\ obj' = [os EXCEPT ![a].stage = "TX_ON"]
  BY DEF DataTransferBegin
<1> HIDE DEF r, a, os
<1>8. /\ nvme' \in Nvme /\ nvme'.pc = "transfer" /\ nvme'.ctrl = nvme.ctrl /\ nvme'.req = r
      /\ nvme'.nand = nvme.nand /\ nvme'.active = nvme.active
  BY <1>2, <1>4, <1>5, <1>6, <1>7 DEF Nvme
<1>9. obj' \in [Object -> ObjRecord]
  BY <1>3, <1>7, StageKeeps DEF Stage
<1>10. TInv'
  BY <1>1, <1>2, <1>8, <1>9 DEF IInv, TInv, TypeOK
<1>11. CommandAt'
  BY <1>1, <1>2, <1>8 DEF CommandAt
<1>12. Ready'
  BY <1>1, <1>8 DEF IInv, Ready
<1>13. Pool'
  <2>1. /\ Num(nvme'.ctrl) = 0 /\ Num(nvme.ctrl) = 0 /\ Num(nvme.req) = 0 /\ Num(nvme'.req) = 1
        /\ Only(nvme'.ctrl) = Only(nvme.ctrl) /\ Only(nvme.req) = {} /\ Only(nvme'.req) = {r}
    BY <1>1, <1>2, <1>8 DEF Num, Only
  <2>2. Len(free') + Num(nvme'.ctrl) + Num(nvme'.req)
          = Len(free) + Num(nvme.ctrl) + Num(nvme.req)
    BY <2>1, <1>1, <1>2
  <2>3. Elems(free') \cup Only(nvme'.ctrl) \cup Only(nvme'.req)
          = Elems(free) \cup Only(nvme.ctrl) \cup Only(nvme.req)
    BY <2>1, <1>1, <1>2
  <2> QED BY <2>2, <2>3, <1>1, <1>2, <1>4, <1>8, CommandMoves DEF IInv
<1> QED BY <1>10, <1>11, <1>12, <1>13 DEF IInv

LEMMA TransferEndKeeps == IInv /\ DataTransferEnd => IInv'
<1> SUFFICES ASSUME IInv, DataTransferEnd PROVE IInv'
  OBVIOUS
<1> DEFINE r == nvme.req
           a == nvme.active
           same == obj[a].addr = nvme.addr /\ obj[a].page = nvme.page /\ obj[a].size = nvme.size
           new == [obj[a] EXCEPT !.transfered = @ + nvme.size, !.moved = @ \/ same]
           os == [obj EXCEPT ![a] = Complete(new)]
           code == Plain("DONE")
<1>1. /\ sqe = "none" /\ nvme.pc = "transfer" /\ nvme.ctrl = NULL /\ r # NULL
      /\ UNCHANGED <<sqe, isp, pending, ofs, cmplt, msg_in, msg_out, ftl_q, exited, execs>>
      /\ nvme' = [nvme EXCEPT !.pc = "free", !.req = NULL]
      /\ Answer(r, code, os, free)
  BY DEF DataTransferEnd, ispVars, IInv, CommandAt
<1>2. nvme \in Nvme /\ cmplt \in Seq(Object) /\ obj \in [Object -> ObjRecord]
      /\ free \in Seq(Object)
  BY DEF IInv, TInv, TypeOK
<1>3. r \in Object
  BY <1>1, <1>2 DEF Nvme
<1>4. os \in [Object -> ObjRecord]
  <2>1. ASSUME a \in Object PROVE Complete(new) \in ObjRecord
    <3> DEFINE t == obj[a].transfered + nvme.size
               v == obj[a].moved \/ same
    <3>1. obj[a] \in ObjRecord
      BY <1>2, <2>1
    <3>2. obj[a].transfered \in Nat /\ nvme.size \in Nat
      BY <1>2, <3>1 DEF Nvme, ObjRecord
    <3>3. t \in Nat
      BY <3>2
    <3>4. v \in BOOLEAN
      OBVIOUS
    <3>5. Complete(new) = [[obj[a] EXCEPT !.transfered = t, !.moved = v] EXCEPT !.stage = "CMPT"]
      BY DEF Complete
    <3> HIDE DEF a, t, v, same, new
    <3> QED BY <3>1, <3>3, <3>4, <3>5 DEF ObjRecord, Stage
  <2> HIDE DEF a, new
  <2> QED BY <1>2, <2>1
<1>5. code \in Code /\ code.msg \notin Transfer
  BY PlainCode
<1> HIDE DEF r, os, code
<1>6. /\ host' \in [pc: {"idle", "sent", "answered"}, code: Code]
      /\ host'.pc = "answered" /\ host'.code = code
      /\ obj' \in [Object -> ObjRecord]
      /\ free' \in Seq(Object) /\ Len(free') = Len(free) + 1
      /\ Elems(free') = Elems(free) \cup {r}
  BY <1>1, <1>2, <1>3, <1>4, <1>5, AnswerKeeps
<1>7. /\ nvme' \in Nvme /\ nvme'.pc = "free" /\ nvme'.ctrl = nvme.ctrl /\ nvme'.req = NULL
      /\ nvme'.nand = nvme.nand /\ nvme'.active = nvme.active
  BY <1>1, <1>2 DEF Nvme
<1>8. TInv'
  BY <1>1, <1>6, <1>7 DEF IInv, TInv, TypeOK
<1>9. CommandAt'
  BY <1>1, <1>6, <1>7 DEF CommandAt
<1>10. Ready'
  BY <1>1, <1>5, <1>6, <1>7 DEF IInv, Ready
<1>11. Pool'
  <2>1. /\ Num(nvme'.ctrl) = 0 /\ Num(nvme.ctrl) = 0 /\ Num(nvme.req) = 1 /\ Num(nvme'.req) = 0
        /\ Only(nvme'.ctrl) = Only(nvme.ctrl) /\ Only(nvme'.req) = {} /\ Only(nvme.req) = {r}
    BY <1>1, <1>7 DEF Num, Only, r
  <2>2. Len(free) \in Nat
    BY <1>2
  <2>3. Len(free') + Num(nvme'.ctrl) + Num(nvme'.req)
          = Len(free) + Num(nvme.ctrl) + Num(nvme.req)
    BY <2>1, <2>2, <1>6
  <2>4. Elems(free') \cup Only(nvme'.ctrl) \cup Only(nvme'.req)
          = Elems(free) \cup Only(nvme.ctrl) \cup Only(nvme.req)
    BY <2>1, <1>6
  <2> QED BY <2>3, <2>4, <1>1, <1>2, <1>6, <1>7, CommandMoves DEF IInv
<1> QED BY <1>8, <1>9, <1>10, <1>11 DEF IInv

LEMMA ExecuteKeeps == IInv /\ Ended /\ ExecuteCommand => IInv'
<1> SUFFICES ASSUME IInv, Ended, ExecuteCommand PROVE IInv'
  OBVIOUS
<1> DEFINE r == Head(free)
           old == IF nvme.ctrl # NULL THEN <<nvme.ctrl>> ELSE <<>>
           pool == Tail(free) \o old \o cmplt
           refill == Refill(pool)
           f == refill.free \o (IF nvme.nand # NULL THEN <<nvme.nand>> ELSE <<>>)
           code == Plain("STARTED")
<1>1. /\ sqe = "EXEC" /\ sqe' = "none" /\ nvme.pc = "free" /\ nvme.ctrl = NULL
      /\ nvme.req = NULL /\ host.pc = "sent" /\ free # <<>> /\ free \in Seq(Object)
      /\ Len(free) >= QUEUE_SIZE + 1
      /\ Len(free) + Len(cmplt) + Num(nvme.nand) + Num(isp.dma) = O_SIZE - 1
      /\ UNCHANGED <<isp, pending, ofs, msg_out, ftl_q, execs>>
  BY ArrivesFinds DEF ExecuteCommand, Arrives, ispVars
<1>2. /\ nvme \in Nvme /\ cmplt \in Seq(Object) /\ obj \in [Object -> ObjRecord]
      /\ nvme.nand \in Object \cup {NULL}
  BY DEF IInv, TInv, TypeOK, Nvme
<1>3. /\ r \in Object /\ Tail(free) \in Seq(Object) /\ Len(Tail(free)) = Len(free) - 1
      /\ Elems(free) = {r} \cup Elems(Tail(free)) /\ r # NULL
  BY <1>1, ElemsHead, NullIsNone
<1>4. /\ pool \in Seq(Object) /\ Len(pool) = Len(free) - 1 + Len(cmplt)
      /\ Elems(pool) = Elems(Tail(free)) \cup Elems(cmplt) /\ Len(pool) >= QUEUE_SIZE
  <2>1. pool = Tail(free) \o cmplt
    <3>1. old = <<>> /\ Tail(free) \o <<>> = Tail(free)
      BY <1>1, <1>3
    <3> QED BY <3>1
  <2>2. Len(free) \in Nat /\ Len(cmplt) \in Nat
    BY <1>1, <1>2
  <2>3. /\ pool \in Seq(Object) /\ Len(pool) = Len(Tail(free)) + Len(cmplt)
        /\ Elems(pool) = Elems(Tail(free)) \cup Elems(cmplt)
    <3> DEFINE u == Tail(free)
    <3>1. u \in Seq(Object) /\ pool = u \o cmplt
      BY <2>1, <1>3
    <3> HIDE DEF u, pool
    <3>2. u \o cmplt \in Seq(Object) /\ Len(u \o cmplt) = Len(u) + Len(cmplt)
          /\ Elems(u \o cmplt) = Elems(u) \cup Elems(cmplt)
      BY <3>1, <1>2, ElemsConcat
    <3> QED BY <3>1, <3>2 DEF u
  <2> HIDE DEF pool
  <2> QED BY <2>2, <2>3, <1>1, <1>3
<1> HIDE DEF pool
<1>5. /\ refill.cmplt \in Seq(Object) /\ refill.free \in Seq(Object)
      /\ Len(refill.cmplt) = QUEUE_SIZE - 1
      /\ Len(refill.free) = Len(pool) - QUEUE_SIZE + 1
      /\ Elems(refill.cmplt) \cup Elems(refill.free) = Elems(pool)
  BY <1>4, RefillKeeps
<1> HIDE DEF refill, old
<1>6. /\ f \in Seq(Object) /\ Len(f) = Len(refill.free) + Num(nvme.nand)
      /\ Elems(f) = Elems(refill.free) \cup Only(nvme.nand)
  <2>1. f = refill.free \o One(nvme.nand)
    BY DEF One
  <2>2. /\ One(nvme.nand) \in Seq(Object) /\ Len(One(nvme.nand)) = Num(nvme.nand)
        /\ Elems(One(nvme.nand)) = Only(nvme.nand)
    BY <1>2, ElemsOne
  <2> DEFINE x == refill.free  y == One(nvme.nand)
  <2>3. x \in Seq(Object) /\ f = x \o y
    BY <1>5, <2>1
  <2> HIDE DEF f, x, y
  <2>4. x \o y \in Seq(Object) /\ Len(x \o y) = Len(x) + Len(y)
        /\ Elems(x \o y) = Elems(x) \cup Elems(y)
    <3>1. y \in Seq(Object)
      BY <2>2 DEF y
    <3> QED BY <3>1, <2>3, ElemsConcat
  <2> QED BY <2>2, <2>3, <2>4 DEF x, y
<1> DEFINE n == Head(f)
<1>7. /\ n \in Object /\ Tail(f) \in Seq(Object) /\ Len(Tail(f)) = Len(f) - 1
      /\ Elems(f) = {n} \cup Elems(Tail(f)) /\ n # NULL
  <2>1. Len(f) >= 1
    <3> HIDE DEF f
    <3>1. Len(pool) \in Nat /\ Num(nvme.nand) \in Nat
      BY <1>4 DEF Num
    <3> QED BY <3>1, <1>4, <1>5, <1>6
  <2> HIDE DEF f
  <2>2. f # <<>>
    BY <2>1
  <2> QED BY <2>2, <1>6, ElemsHead, NullIsNone
<1>8. PICK os \in [Object -> ObjRecord] :
        /\ cmplt' = refill.cmplt
        /\ nvme' = [nvme EXCEPT !.ctrl = NULL, !.nand = n]
        /\ exited' = FALSE
        /\ msg_in' = Append(msg_in, "EXECUTE_FTN")
        /\ Answer(r, code, SetupIoReq(r, os), Tail(f))
  <2> DEFINE gone == {old[i] : i \in DOMAIN old} \cup {cmplt[i] : i \in DOMAIN cmplt} \cup {nvme.nand}
             dma == {refill.cmplt[i] : i \in DOMAIN refill.cmplt}
             os == [o \in Object |->
                      CASE o \in dma \cup {n} -> [obj[o] EXCEPT !.stage = "INUSE"]
                        [] o \in gone \ (dma \cup {n}) -> [obj[o] EXCEPT !.stage = "FREE"]
                        [] OTHER -> obj[o]]
  <2>1. os \in [Object -> ObjRecord]
    <3> HIDE DEF gone, dma, n
    <3>1. ASSUME NEW o \in Object
          PROVE  /\ [obj[o] EXCEPT !.stage = "INUSE"] \in ObjRecord
                 /\ [obj[o] EXCEPT !.stage = "FREE"] \in ObjRecord /\ obj[o] \in ObjRecord
      <4>1. obj[o] \in ObjRecord
        BY <1>2
      <4> QED BY <4>1, ObjKeeps DEF Stage
    <3> QED BY <3>1
  <2>2. /\ cmplt' = refill.cmplt
        /\ nvme' = [nvme EXCEPT !.ctrl = NULL, !.nand = n]
        /\ exited' = FALSE
        /\ msg_in' = Append(msg_in, "EXECUTE_FTN")
        /\ Answer(r, code, SetupIoReq(r, os), Tail(f))
    BY DEF ExecuteCommand, refill, pool, old
  <2> QED BY <2>1, <2>2
<1>9. code \in Code /\ code.msg \notin Transfer
  BY PlainCode
<1> HIDE DEF r, f, n, code
<1>10. /\ host' \in [pc: {"idle", "sent", "answered"}, code: Code]
       /\ host'.pc = "answered" /\ host'.code = code
       /\ obj' \in [Object -> ObjRecord]
       /\ free' \in Seq(Object) /\ Len(free') = Len(Tail(f)) + 1
       /\ Elems(free') = Elems(Tail(f)) \cup {r}
  <2>1. SetupIoReq(r, os) \in [Object -> ObjRecord]
    BY <1>3, <1>8, SetupKeeps
  <2> QED BY <2>1, <1>3, <1>7, <1>8, <1>9, AnswerKeeps
<1>11. /\ nvme' \in Nvme /\ nvme'.pc = "free" /\ nvme'.ctrl = NULL /\ nvme'.req = NULL
       /\ nvme'.nand = n /\ nvme'.active = nvme.active
  BY <1>1, <1>2, <1>7, <1>8 DEF Nvme
<1>12. msg_in' \in Seq({"EXECUTE_FTN"})
  BY <1>8 DEF IInv, TInv, TypeOK
<1>13. TInv'
  BY <1>1, <1>5, <1>8, <1>10, <1>11, <1>12 DEF IInv, TInv, TypeOK
<1>14. CommandAt'
  BY <1>1, <1>10, <1>11 DEF CommandAt
<1>15. Ready'
  BY <1>1, <1>7, <1>9, <1>10, <1>11 DEF IInv, Ready
<1>16. Pool'
  <2>1. /\ Num(nvme'.ctrl) = 0 /\ Num(nvme'.req) = 0 /\ Num(nvme'.nand) = 1
        /\ Only(nvme'.ctrl) = {} /\ Only(nvme'.req) = {} /\ Only(nvme'.nand) = {n}
        /\ Num(isp'.dma) = Num(isp.dma) /\ Only(isp'.dma) = Only(isp.dma)
    BY <1>1, <1>7, <1>11 DEF Num, Only
  <2>2. /\ Len(free) \in Int /\ Len(cmplt) \in Int /\ Len(f) \in Int /\ Len(pool) \in Int
        /\ Num(nvme.nand) \in Int /\ Num(isp.dma) = 0
    <3>1. isp.dma = NULL
      BY <1>1 DEF IInv, Ready, Ended, Ending
    <3> QED BY <3>1, <1>1, <1>2, <1>4, <1>6 DEF Num
  <2>3. /\ Len(free') + Len(cmplt') + 0 + 0 + 1 + Num(isp.dma) = O_SIZE - 1
        /\ Len(cmplt') + Num(isp.dma) <= QUEUE_SIZE - 1
    <3> DEFINE x == Len(free)  y == Len(cmplt)  u == Len(f)  v == Len(pool)
               k == Num(nvme.nand)  d == Num(isp.dma)
               w == Len(refill.free)  z == Len(free')  c == Len(cmplt')
    <3>1. /\ x + y + k + d = O_SIZE - 1 /\ v = x - 1 + y /\ w = v - QUEUE_SIZE + 1
          /\ u = w + k /\ z = u - 1 + 1 /\ c = QUEUE_SIZE - 1
      BY <1>1, <1>4, <1>5, <1>6, <1>7, <1>8, <1>10
    <3>2. /\ x \in Int /\ y \in Int /\ u \in Int /\ v \in Int /\ k \in Int /\ d = 0
          /\ w \in Int /\ z \in Int /\ c \in Int
      BY <2>2, <3>1
    <3>3. z + c + 0 + 0 + 1 + d = O_SIZE - 1 /\ c + d <= QUEUE_SIZE - 1
      <4> HIDE DEF x, y, u, v, k, d, w, z, c
      <4> QED BY <3>1, <3>2
    <3> QED BY <3>3
  <2>4. Elems(free') \cup Elems(cmplt') \cup {} \cup {} \cup {n} \cup Only(isp.dma) = Object
    <3>1. Elems(free) \cup Elems(cmplt) \cup Only(nvme.nand) \cup Only(isp.dma) = Object
      BY <1>1 DEF IInv, Pool, Only
    <3> QED BY <3>1, <1>3, <1>4, <1>5, <1>6, <1>7, <1>8, <1>10
  <2> QED BY <2>1, <2>3, <2>4 DEF Pool
<1> QED BY <1>13, <1>14, <1>15, <1>16 DEF IInv

----------------------------------------------------------------------------
(* The end of a function. *)

EndSent(q) == \E i \in 1 .. Len(q) : q[i].type = "EXIT"

LEMMA EndingIs ==
  ASSUME msg_out \in Seq(Told)
  PROVE  Ending <=> isp.pc = "exit" \/ EndSent(msg_out)
BY DEF Ending, EndSent

LEMMA EndSentAppend ==
  ASSUME NEW q \in Seq(Told), NEW m \in Told
  PROVE  EndSent(Append(q, m)) <=> EndSent(q) \/ m.type = "EXIT"
<1>1. Len(q) \in Nat /\ Len(Append(q, m)) = Len(q) + 1
  OBVIOUS
<1>2. \A i \in 1 .. Len(q) + 1 : Append(q, m)[i] = IF i <= Len(q) THEN q[i] ELSE m
  BY <1>1
<1>3. Len(q) + 1 \in 1 .. Len(q) + 1 /\ \A i \in 1 .. Len(q) : i \in 1 .. Len(q) + 1 /\ i <= Len(q)
  BY <1>1
<1>4. \A i \in 1 .. Len(q) + 1 : i <= Len(q) => i \in 1 .. Len(q)
  BY <1>1
<1>5. ~(Len(q) + 1 <= Len(q))
  BY <1>1
<1> QED BY <1>1, <1>2, <1>3, <1>4, <1>5 DEF EndSent

LEMMA EndSentTail ==
  ASSUME NEW q \in Seq(Told), q # <<>>
  PROVE  /\ Head(q) \in Told
         /\ EndSent(Tail(q)) => EndSent(q)
         /\ Head(q).type = "EXIT" => EndSent(q)
<1>1. Len(q) \in Nat /\ Len(q) >= 1 /\ Head(q) = q[1] /\ Len(Tail(q)) = Len(q) - 1
  OBVIOUS
<1>2. \A i \in 1 .. Len(q) - 1 : Tail(q)[i] = q[i + 1] /\ i + 1 \in 1 .. Len(q)
  BY <1>1
<1>3. 1 \in 1 .. Len(q)
  BY <1>1
<1>4. Head(q) \in Told
  BY <1>1, <1>3
<1> QED BY <1>1, <1>2, <1>3, <1>4 DEF EndSent

LEMMA DtxNotExit ==
  ASSUME TypeOK, NEW o \in Object
  PROVE  DtxCode(o).msg # "EXIT"
<1>1. obj[o] \in ObjRecord
  BY DEF TypeOK
<1> QED BY <1>1 DEF DtxCode, ObjRecord

\* A host that is slow starts a function only when the last has ended.
LEMMA HostEnded ==
  ASSUME HostSlow, IInv, Ended, HostStep
  PROVE  Ended'
<1>1. Ending' <=> Ending
  BY DEF HostStep, HostExecute, HostAnswered, ispVars, Ending
<1>2. UNCHANGED <<exited, msg_in, isp>>
  BY DEF HostStep, HostExecute, HostAnswered, ispVars
<1>3. host.pc \in {"idle", "answered"} /\ host'.code = host.code
  BY DEF HostStep, HostExecute, HostAnswered, IInv, TInv, TypeOK
<1>4. CASE HostExecute
  <2>1. host'.pc = "sent" /\ exited /\ ~Ending
    BY <1>4 DEF HostExecute, Ended, IInv, TInv, TypeOK
  <2> QED BY <2>1, <1>1, <1>2 DEF Ended
<1>5. CASE HostAnswered
  <2>1. \/ host'.pc = "idle" /\ sqe' = sqe /\ host.code.msg = "EXIT" /\ host.pc = "answered"
        \/ host'.pc = "sent" /\ sqe' \in {"TX", "CTRL"}
    BY <1>5 DEF HostAnswered, IInv, TInv, TypeOK
  <2> QED BY <2>1, <1>1, <1>2 DEF Ended
<1> QED BY <1>4, <1>5 DEF HostStep

\* The ISP thread sets function_exited when it has returned, and reports an
\* end afterwards.
LEMMA IspEnded ==
  ASSUME IInv, Ended, IspStep
  PROVE  Ended'
<1>1. msg_out \in Seq(Told) /\ msg_in \in Seq({"EXECUTE_FTN"}) /\ isp \in IspThread
      /\ UNCHANGED <<host, sqe>>
  BY DEF IInv, TInv, TypeOK, IspStep, CallFunction, AllocPageBuffer, DmaRequest, DmaAnnounce,
         DmaDone, DmaReturn, NandRequest, NandDone, FunctionExit, AnnounceExit
<1>2. Ending <=> isp.pc = "exit" \/ EndSent(msg_out)
  BY <1>1, EndingIs
<1>3. CASE CallFunction
  <2>1. /\ isp'.pc = "run" /\ msg_in # <<>> /\ msg_in' = Tail(msg_in)
        /\ UNCHANGED <<exited, msg_out>>
    BY <1>3 DEF CallFunction
  <2>2. msg_in' = <<>>
    BY <2>1, <1>1 DEF Ended
  <2>3. ~exited /\ ~EndSent(msg_out)
    BY <2>1, <1>2 DEF Ended
  <2>4. ~Ending'
    BY <2>1, <2>3, <1>1 DEF Ending, EndSent
  <2> QED BY <2>1, <2>2, <2>3, <2>4, <1>1 DEF Ended
<1>4. CASE AllocPageBuffer \/ DmaRequest \/ DmaDone \/ DmaReturn \/ NandDone
  <2>1. /\ isp.pc \in {"run", "wait", "nand"} /\ isp'.pc \in {"run", "posted"}
        /\ UNCHANGED <<msg_in, exited, msg_out>>
    BY <1>4, <1>1 DEF AllocPageBuffer, DmaRequest, DmaDone, DmaReturn, NandDone, NextCall, IspThread
  <2>2. ~exited /\ ~EndSent(msg_out) /\ msg_in = <<>>
    BY <2>1, <1>2 DEF Ended
  <2>3. ~Ending'
    BY <2>1, <2>2, <1>1 DEF Ending, EndSent
  <2> QED BY <2>1, <2>2, <2>3, <1>1 DEF Ended
<1>5. CASE DmaAnnounce \/ NandRequest
  <2>1. /\ isp.pc \in {"run", "posted"} /\ isp'.pc \in {"wait", "nand"}
        /\ UNCHANGED <<msg_in, exited>>
    BY <1>5, <1>1 DEF DmaAnnounce, NandRequest, IspThread
  <2>2. PICK m \in Told : m.type # "EXIT" /\ msg_out' = Append(msg_out, m)
    <3>1. isp.pc = "posted" => isp.dma \in Object /\ isp.dma # NULL
      BY <1>1 DEF IInv, Ready, IspThread
    <3>2. isp.pc = "run" => nvme.nand \in Object /\ nvme.nand # NULL
      BY DEF IInv, TInv, TypeOK, Ready, Nvme
    <3>3. CASE DmaAnnounce
      <4> DEFINE m == [type |-> "HOST_DMA", obj |-> isp.dma]
      <4>1. m \in Told /\ m.type # "EXIT" /\ msg_out' = Append(msg_out, m)
        BY <3>1, <3>3 DEF DmaAnnounce, Told, Message
      <4> QED BY <4>1
    <3>4. CASE NandRequest
      <4> DEFINE m == [type |-> "NAND_OP", obj |-> nvme.nand]
      <4>1. m \in Told /\ m.type # "EXIT" /\ msg_out' = Append(msg_out, m)
        BY <3>2, <3>4 DEF NandRequest, Told, Message
      <4> QED BY <4>1
    <3> QED BY <1>5, <3>3, <3>4
  <2>3. ~exited /\ ~EndSent(msg_out) /\ msg_in = <<>>
    BY <2>1, <1>2 DEF Ended
  <2>4. ~EndSent(msg_out') /\ msg_out' \in Seq(Told)
    BY <2>2, <2>3, <1>1, EndSentAppend
  <2>5. ~Ending'
    BY <2>1, <2>4 DEF Ending, EndSent
  <2> QED BY <2>1, <2>3, <2>5, <1>1 DEF Ended
<1>6. CASE FunctionExit
  <2>1. isp.pc = "run" /\ isp'.pc = "exit" /\ exited' = TRUE /\ msg_in' = msg_in
    BY <1>6, <1>1 DEF FunctionExit, IspThread
  <2>2. msg_in = <<>> /\ ~exited
    BY <2>1 DEF Ended
  <2> QED BY <2>1, <2>2, <1>1 DEF Ended
<1>7. CASE AnnounceExit
  <2>1. isp.pc = "exit" /\ isp'.pc = "idle" /\ UNCHANGED <<exited, msg_in>>
    BY <1>7, <1>1 DEF AnnounceExit, IspThread
  <2>2. exited /\ msg_in = <<>> /\ sqe # "EXEC"
    BY <2>1, <1>2 DEF Ended
  <2> QED BY <2>1, <2>2, <1>1 DEF Ended
<1> QED BY <1>3, <1>4, <1>5, <1>6, <1>7 DEF IspStep

\* The handlers answer with an end when there is one, and execute_command
\* comes when the last one has been reported.
LEMMA NvmeEnded ==
  ASSUME IInv, Ended, NvmeStep
  PROVE  Ended'
<1>1. /\ msg_out \in Seq(Told) /\ pending \in Seq(Object) /\ TypeOK /\ isp' = isp
      /\ sqe' = "none" \/ sqe' = sqe
  BY DEF IInv, TInv, TypeOK, NvmeStep, ExecuteCommand, ControlCommand, RecycleControlCommand,
         DataTransferBegin, DataTransferEnd, MsgCbk, Arrives, ispVars
<1>2. \A r, code, os, fr : Answer(r, code, os, fr) => host'.pc = "answered" /\ host'.code = code
  BY DEF Answer
<1>3. pending # <<>> => Head(pending) \in Object
  BY <1>1
<1>4. \A o \in Object : DtxCode(o).msg # "EXIT"
  BY <1>1, DtxNotExit
<1>5. CASE ExecuteCommand
  <2>1. /\ sqe = "EXEC" /\ sqe' = "none" /\ exited' = FALSE /\ msg_out' = msg_out
        /\ msg_in' = Append(msg_in, "EXECUTE_FTN") /\ host'.pc = "answered"
        /\ host'.code = Plain("STARTED")
    BY <1>5, <1>2 DEF ExecuteCommand, Arrives
  <2>2. msg_in = <<>> /\ isp.pc = "idle" /\ ~Ending
    BY <2>1 DEF Ended, Ending
  <2>3. Len(msg_in') = 1
    BY <2>1, <2>2
  <2>4. ~Ending'
    BY <2>1, <2>2, <1>1 DEF Ending
  <2>5. host'.code.msg # "EXIT"
    BY <2>1 DEF Plain
  <2> QED BY <2>1, <2>2, <2>3, <2>4, <2>5, <1>1 DEF Ended
<1>6. CASE ControlCommand
  <2>1. sqe' = "none" /\ UNCHANGED <<msg_in, msg_out, exited>>
    BY <1>6 DEF ControlCommand, Arrives
  <2>2. \/ exited /\ host'.pc = "answered"
        \/ host'.pc = "answered" /\ host'.code.msg # "EXIT"
        \/ host' = host
    BY <1>6, <1>2, <1>3, <1>4 DEF ControlCommand, PostDmaMsg
  <2>3. Ending' <=> Ending
    BY <2>1, <1>1 DEF Ending
  <2> QED BY <2>1, <2>2, <2>3, <1>1 DEF Ended
<1>7. CASE RecycleControlCommand
  <2>1. UNCHANGED <<sqe, msg_in, msg_out, exited>>
    BY <1>7 DEF RecycleControlCommand
  <2>2. RecycleCode.msg = "EXIT" => exited
    BY DEF RecycleCode, Plain
  <2>3. \/ exited /\ host'.pc = "answered"
        \/ host'.pc = "answered" /\ host'.code.msg # "EXIT"
        \/ host' = host
    BY <1>7, <1>2, <1>3, <1>4, <2>2 DEF RecycleControlCommand, PostDmaMsg
  <2>4. Ending' <=> Ending
    BY <2>1, <1>1 DEF Ending
  <2> QED BY <2>1, <2>3, <2>4, <1>1 DEF Ended
<1>8. CASE DataTransferBegin \/ DataTransferEnd
  <2>1. UNCHANGED <<msg_in, msg_out, exited>> /\ (sqe' = "none" \/ sqe' = sqe)
    BY <1>8, <1>1 DEF DataTransferBegin, DataTransferEnd
  <2>2. host' = host \/ (host'.pc = "answered" /\ host'.code = Plain("DONE"))
    BY <1>8, <1>2 DEF DataTransferBegin, DataTransferEnd
  <2>3. Plain("DONE").msg # "EXIT"
    BY DEF Plain
  <2>4. Ending' <=> Ending
    BY <2>1, <1>1 DEF Ending
  <2> QED BY <2>1, <2>2, <2>3, <2>4, <1>1 DEF Ended
<1>9. CASE MsgCbk
  <2>1. /\ msg_out # <<>> /\ msg_out' = Tail(msg_out)
        /\ UNCHANGED <<sqe, msg_in, exited>>
    BY <1>9 DEF MsgCbk
  <2>2. /\ Head(msg_out) \in Told /\ (EndSent(Tail(msg_out)) => EndSent(msg_out))
        /\ (Head(msg_out).type = "EXIT" => EndSent(msg_out))
    BY <2>1, <1>1, EndSentTail
  <2>3. msg_out' \in Seq(Told)
    BY <2>1, <1>1
  <2>4. (Ending' => Ending) /\ (EndSent(msg_out) => Ending)
    BY <2>1, <2>2, <2>3, <1>1 DEF Ending, EndSent
  <2>5. Head(msg_out).type = "HOST_DMA" => Head(msg_out).obj \in Object
    BY <2>2 DEF Told, Message
  <2>6. \/ exited /\ host'.pc = "answered"
        \/ host'.pc = "answered" /\ host'.code.msg # "EXIT"
        \/ host' = host
    <3>1. Head(msg_out).type = "EXIT" => exited
      BY <2>2, <2>4 DEF Ended
    <3> QED BY <1>9, <1>2, <1>4, <2>5, <3>1 DEF MsgCbk, PostDmaMsg
  <2> QED BY <2>1, <2>4, <2>6, <1>1 DEF Ended
<1> QED BY <1>5, <1>6, <1>7, <1>8, <1>9 DEF NvmeStep

----------------------------------------------------------------------------
(* The theorems. *)

LEMMA NextIInv ==
  ASSUME HostSlow, IInv, Ended, [Next]_vars
  PROVE  IInv' /\ Ended'
<1>1. CASE HostStep
  BY <1>1, HostEnded, HostExecuteKeeps, HostAnsweredKeeps DEF HostStep
<1>2. CASE IspStep
  BY <1>2, IspEnded, CallFunctionKeeps, AllocKeeps, DmaRequestKeeps, DmaAnnounceKeeps, DmaDoneKeeps,
     DmaReturnKeeps, NandRequestKeeps, NandDoneKeeps, ExitKeeps DEF IspStep
<1>3. CASE NvmeStep
  BY <1>3, NvmeEnded, ExecuteKeeps, ControlCommandKeeps, RecycleKeeps, TransferBeginKeeps,
     TransferEndKeeps, MsgCbkKeeps DEF NvmeStep
<1>4. CASE FtlNandOp
  <2>1. Ended'
    BY <1>4 DEF FtlNandOp, ispVars, Ended, Ending
  <2> QED BY <1>4, <2>1, FtlNandOpKeeps
<1>5. CASE UNCHANGED vars
  <2>1. TInv'
    BY <1>5 DEF vars, ispVars, IInv, TInv, TypeOK
  <2>2. CommandAt' /\ Ready' /\ Pool'
    BY <1>5 DEF vars, ispVars, IInv, CommandAt, Ready, Pool
  <2>3. Ended'
    BY <1>5 DEF vars, ispVars, Ended, Ending
  <2> QED BY <2>1, <2>2, <2>3 DEF IInv
<1> QED BY <1>1, <1>2, <1>3, <1>4, <1>5 DEF Next

LEMMA InitEnded == Init => Ended
BY DEF Init, Ended, Ending

\* The invariant holds for every size, every applet and any number of
\* functions started, if the host is slow.
THEOREM Invariance ==
  ASSUME HostSlow
  PROVE  Spec => [](IInv /\ Ended)
<1>1. IInv /\ Ended /\ [Next]_vars => (IInv /\ Ended)'
  BY NextIInv
<1> QED BY <1>1, InitIInv, InitEnded, PTL DEF Spec

\* Every variable keeps its type: no handler uses a request object it does
\* not have, and the bump allocator of alloc_page_buffer stays in its buffer.
THEOREM TypeCorrect ==
  ASSUME HostSlow
  PROVE  Spec => []TypeOK
<1>1. IInv => TypeOK
  BY DEF IInv, TInv
<1> QED BY <1>1, Invariance, PTL

\* The host takes a function for ended only when it has returned: the flag,
\* the recycle callback and the late message of thrd_cbk never report the end
\* of a function that has not yet run or that still runs.
THEOREM EndCorrect ==
  ASSUME HostSlow
  PROVE  Spec => []EndIsReal
<1>1. Ended => EndIsReal
  BY DEF Ended, EndIsReal, Returned
<1> QED BY <1>1, Invariance, PTL

\* No request object is lost or in two places, although execute_command takes
\* one more than it needs and gives back what the last function left, and
\* the end of a transfer drops the object when it finds cmplt_dma full
\* (issd_kernel_mem_alloc.c, isp.c): it never does.
THEOREM PoolCorrect ==
  ASSUME HostSlow
  PROVE  Spec => []ObjectsConserved
<1>1. IInv => ObjectsConserved
  <2> SUFFICES ASSUME IInv PROVE ObjectsConserved
    OBVIOUS
  <2> DEFINE c == One(nvme.ctrl)  r == One(nvme.req)  n == One(nvme.nand)  d == One(isp.dma)
             s1 == free \o cmplt  s2 == s1 \o c  s3 == s2 \o r  s4 == s3 \o n
  <2>1. /\ nvme.ctrl \in Object \cup {NULL} /\ nvme.req \in Object \cup {NULL}
        /\ nvme.nand \in Object \cup {NULL} /\ isp.dma \in Object \cup {NULL}
        /\ free \in Seq(Object) /\ cmplt \in Seq(Object)
    BY DEF IInv, TInv, TypeOK, Nvme, IspThread
  <2>2. /\ c \in Seq(Object) /\ Len(c) = Num(nvme.ctrl) /\ Elems(c) = Only(nvme.ctrl)
        /\ r \in Seq(Object) /\ Len(r) = Num(nvme.req) /\ Elems(r) = Only(nvme.req)
        /\ n \in Seq(Object) /\ Len(n) = Num(nvme.nand) /\ Elems(n) = Only(nvme.nand)
        /\ d \in Seq(Object) /\ Len(d) = Num(isp.dma) /\ Elems(d) = Only(isp.dma)
    BY <2>1, ElemsOne
  <2> HIDE DEF c, r, n, d
  <2>3. \A s, t \in Seq(Object) : /\ s \o t \in Seq(Object) /\ Len(s \o t) = Len(s) + Len(t)
                                  /\ Elems(s \o t) = Elems(s) \cup Elems(t)
    BY ElemsConcat
  <2>4. /\ s1 \in Seq(Object) /\ Len(s1) = Len(free) + Len(cmplt)
        /\ Elems(s1) = Elems(free) \cup Elems(cmplt)
    BY <2>1, <2>3
  <2> HIDE DEF s1
  <2>5. s2 \in Seq(Object) /\ Len(s2) = Len(s1) + Len(c) /\ Elems(s2) = Elems(s1) \cup Elems(c)
    BY <2>2, <2>3, <2>4, Zenon
  <2> HIDE DEF s2
  <2>6. s3 \in Seq(Object) /\ Len(s3) = Len(s2) + Len(r) /\ Elems(s3) = Elems(s2) \cup Elems(r)
    BY <2>2, <2>3, <2>5, Zenon
  <2> HIDE DEF s3
  <2>7. /\ s4 \in Seq(Object) /\ Len(s4) = Len(s3) + Len(n) /\ Elems(s4) = Elems(s3) \cup Elems(n)
        /\ s4 \o d \in Seq(Object) /\ Len(s4 \o d) = Len(s4) + Len(d)
        /\ Elems(s4 \o d) = Elems(s4) \cup Elems(d)
    BY <2>2, <2>3, <2>6, Zenon
  <2> HIDE DEF s4
  <2>8. Holders = s4 \o d
    BY DEF Holders, c, r, n, d, s1, s2, s3, s4
  <2>9. Elems(Holders) = Object
    BY <2>2, <2>4, <2>5, <2>6, <2>7, <2>8 DEF IInv, Pool
  <2>10. Len(Holders) = O_SIZE - 1
    BY <2>2, <2>4, <2>5, <2>6, <2>7, <2>8 DEF IInv, Pool
  <2>11. Elems(Holders) = {Holders[i] : i \in DOMAIN Holders}
    <3>1. Holders \in Seq(Object)
      BY <2>7, <2>8
    <3> QED BY <3>1 DEF Elems
  <2> QED BY <2>9, <2>10, <2>11 DEF ObjectsConserved
<1> QED BY <1>1, Invariance, PTL

\* The command the host waits for is in exactly one place of the driver:
\* control_command, recycle_control_command, data_transfer_command and the
\* messages of the ISP thread never answer it twice and never drop it.
THEOREM CommandCorrect ==
  ASSUME HostSlow
  PROVE  Spec => []CommandHeldOnce
<1>1. IInv => CommandHeldOnce
  <2> SUFFICES ASSUME IInv PROVE CommandHeldOnce
    OBVIOUS
  <2> DEFINE b == <<sqe # "none", nvme.ctrl # NULL, nvme.pc = "transfer", host.pc # "sent">>
             S == {i \in 1 .. 4 : b[i]}
  <2>1. \A i \in 1 .. 4 : i = 1 \/ i = 2 \/ i = 3 \/ i = 4
    OBVIOUS
  <2>2. /\ b[1] <=> sqe # "none"
        /\ b[2] <=> nvme.ctrl # NULL
        /\ b[3] <=> nvme.pc = "transfer"
        /\ b[4] <=> host.pc # "sent"
    OBVIOUS
  <2>3. \E k \in 1 .. 4 : b[k] /\ \A j \in 1 .. 4 : b[j] => j = k
    <3> HIDE DEF b
    <3>1. CASE sqe # "none"
      <4>1. b[1] /\ ~b[2] /\ ~b[3] /\ ~b[4]
        BY <3>1, <2>2 DEF IInv, CommandAt
      <4> QED BY <4>1, <2>1
    <3>2. CASE nvme.ctrl # NULL
      <4>1. b[2] /\ ~b[1] /\ ~b[3] /\ ~b[4]
        BY <3>2, <2>2 DEF IInv, CommandAt
      <4> QED BY <4>1, <2>1
    <3>3. CASE nvme.pc = "transfer"
      <4>1. b[3] /\ ~b[1] /\ ~b[2] /\ ~b[4]
        BY <3>3, <2>2 DEF IInv, CommandAt
      <4> QED BY <4>1, <2>1
    <3>4. CASE sqe = "none" /\ nvme.ctrl = NULL /\ nvme.pc # "transfer"
      <4>1. b[4] /\ ~b[1] /\ ~b[2] /\ ~b[3]
        BY <3>4, <2>2 DEF IInv, CommandAt
      <4> QED BY <4>1, <2>1
    <3> QED BY <3>1, <3>2, <3>3, <3>4
  <2>4. PICK k \in 1 .. 4 : b[k] /\ \A j \in 1 .. 4 : b[j] => j = k
    BY <2>3
  <2>5. S = {k}
    <3> HIDE DEF b
    <3> QED BY <2>4
  <2>6. Cardinality(S) = 1
    <3> HIDE DEF S
    <3> QED BY <2>5, FS_Singleton
  <2> QED BY <2>6 DEF CommandHeldOnce
<1> QED BY <1>1, Invariance, PTL

=============================================================================
