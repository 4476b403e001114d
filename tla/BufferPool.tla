----------------------------- MODULE BufferPool -----------------------------
(***************************************************************************)
(* Per-request buffer pool contexts (src/vendor/mosn.io/pkg/buffer/        *)
(* buffer.go).                                                             *)
(*                                                                         *)
(* A request's context carries a BufferValue, taken from vPool or newly    *)
(* allocated.  Find hands out the request's buffer of a registered pool,  *)
(* taking one from the pool's sync.Pool (or New) the first time.          *)
(* TransmitBufferPoolContext moves the source's buffers into the           *)
(* destination's transmit slots.  Give returns a value's buffers and      *)
(* transmitted buffers to their pools and the value itself to vPool.  A    *)
(* sync.Pool may drop what it holds at any time (garbage collection).      *)
(*                                                                         *)
(* One registered pool is modelled: the slots of different pools never    *)
(* interact.  Buffers and BufferValues are numbered in allocation order.   *)
(* The proxy, which creates the contexts and calls these functions, is not *)
(* in src/: each request creates its context, uses it, and gives it back   *)
(* once.                                                                   *)
(***************************************************************************)
EXTENDS Naturals

CONSTANTS
    Requests,  \* request contexts
    MaxBufs,   \* bound: buffers the pool's New may create
    MaxValues  \* bound: BufferValues new(BufferValue) may create

ASSUME BufferPoolAssumption == MaxBufs \in Nat /\ MaxValues \in Nat

Nil == 0
Bufs == 1..MaxBufs
Values == 1..MaxValues

VARIABLES
    free,     \* buffers held by the pool's sync.Pool
    nBufs,    \* buffers created by the pool context's New
    vFree,    \* BufferValues held by vPool
    nValues,  \* BufferValues created
    value,    \* value[v]: bv.value[i] of BufferValue v
    transmit, \* transmit[v]: bv.transmit[i] of BufferValue v
    ctx,      \* ctx[r]: the BufferValue in request r's context
    phase     \* phase[r]: "new", "active" or "given"

vars == <<free, nBufs, vFree, nValues, value, transmit, ctx, phase>>

Init ==
    /\ free = {} /\ nBufs = 0
    /\ vFree = {} /\ nValues = 0
    /\ value = [v \in Values |-> Nil]
    /\ transmit = [v \in Values |-> Nil]
    /\ ctx = [r \in Requests |-> Nil]
    /\ phase = [r \in Requests |-> "new"]

\* newBufferValue: vPool.Get(), which may return nil even when the pool
\* holds values, or else new(BufferValue).
NewBufferValue == vFree \cup (IF nValues < MaxValues THEN {nValues + 1} ELSE {})

\* The state of vPool and the count of values after newBufferValue returned v.
TakeValue(v) ==
    /\ vFree' = vFree \ {v}
    /\ nValues' = IF v > nValues THEN v ELSE nValues

(* NewBufferPoolContext: the context gets a value from newBufferValue.    *)
NewBufferPoolContext(r) ==
    /\ phase[r] = "new"
    /\ \E v \in NewBufferValue :
          /\ TakeValue(v)
          /\ ctx' = [ctx EXCEPT ![r] = v]
    /\ phase' = [phase EXCEPT ![r] = "active"]
    /\ UNCHANGED <<free, nBufs, value, transmit>>

\* bufferPool.take: p.Get(), or p.ctx.New() when Get returns nil.
Take == free \cup (IF nBufs < MaxBufs THEN {nBufs + 1} ELSE {})

(* Find on an empty slot -> Take -> bufferPool.take; the buffer goes into  *)
(* bv.value[i].  Find on a filled slot returns it and changes nothing.     *)
Find(r) ==
    /\ phase[r] = "active"
    /\ value[ctx[r]] = Nil
    /\ \E b \in Take :
          /\ value' = [value EXCEPT ![ctx[r]] = b]
          /\ free' = free \ {b}
          /\ nBufs' = IF b > nBufs THEN b ELSE nBufs
    /\ UNCHANGED <<vFree, nValues, transmit, ctx, phase>>

\* PoolContext(ctx): the BufferValue request r's context holds; a context
\* without one gets a fresh value from newBufferValue that no context keeps.
PoolContext(r) == IF phase[r] = "new" THEN NewBufferValue ELSE {ctx[r]}

(* TransmitBufferPoolContext without "sValue.value = nullBufferValue".     *)
TransmitKeepSource(d, s) ==
    /\ phase[d] # "given" /\ phase[s] = "active" /\ d # s
    /\ value[ctx[s]] # Nil
    /\ \E v \in PoolContext(d) :
          /\ transmit' = [transmit EXCEPT ![v] = value[ctx[s]]]
          /\ IF phase[d] = "new" THEN TakeValue(v) ELSE UNCHANGED <<vFree, nValues>>
    /\ UNCHANGED <<value, free, nBufs, ctx, phase>>

(* TransmitBufferPoolContext(dst, src): nothing when src holds no buffer;  *)
(* otherwise dst.transmit = src.value, overwriting what dst had            *)
(* transmitted, and src.value = nullBufferValue.  The proxy transmits      *)
(* between live contexts; dst may still lack a BufferValue.               *)
Transmit(d, s) ==
    /\ phase[d] # "given" /\ phase[s] = "active" /\ d # s
    /\ value[ctx[s]] # Nil
    /\ \E v \in PoolContext(d) :
          /\ transmit' = [transmit EXCEPT ![v] = value[ctx[s]]]
          /\ IF phase[d] = "new" THEN TakeValue(v) ELSE UNCHANGED <<vFree, nValues>>
    /\ value' = [value EXCEPT ![ctx[s]] = Nil]
    /\ UNCHANGED <<free, nBufs, ctx, phase>>

\* bufferPool.give: p.ctx.Reset(value), then p.Put(value), for every
\* buffer of a value's slots.
GiveBack(v) == {value[v], transmit[v]} \ {Nil}

(* BufferValue.Give: for each registered index give back value[i] and      *)
(* transmit[i] (Reset, then Put), clear both arrays and vPool.Put(bv).     *)
Give(r) ==
    /\ phase[r] = "active"
    /\ LET v == ctx[r] IN
          /\ free' = free \cup GiveBack(v)
          /\ value' = [value EXCEPT ![v] = Nil]
          /\ transmit' = [transmit EXCEPT ![v] = Nil]
          /\ vFree' = vFree \cup {v}
    /\ phase' = [phase EXCEPT ![r] = "given"]
    /\ UNCHANGED <<nBufs, nValues, ctx>>

(* A sync.Pool drops a buffer or a BufferValue it holds (garbage           *)
(* collection).                                                            *)
DropBuffer(b) ==
    /\ free' = free \ {b}
    /\ UNCHANGED <<nBufs, vFree, nValues, value, transmit, ctx, phase>>

DropValue(v) ==
    /\ vFree' = vFree \ {v}
    /\ UNCHANGED <<free, nBufs, nValues, value, transmit, ctx, phase>>

Next ==
    \/ \E r \in Requests : NewBufferPoolContext(r) \/ Find(r) \/ Give(r)
    \/ \E d, s \in Requests : Transmit(d, s)
    \/ \E b \in free : DropBuffer(b)
    \/ \E v \in vFree : DropValue(v)

Spec == Init /\ [][Next]_vars

-----------------------------------------------------------------------------
TypeOK ==
    /\ free \subseteq Bufs /\ nBufs \in 0..MaxBufs
    /\ vFree \subseteq Values /\ nValues \in 0..MaxValues
    /\ value \in [Values -> Bufs \cup {Nil}]
    /\ transmit \in [Values -> Bufs \cup {Nil}]
    /\ ctx \in [Requests -> Values \cup {Nil}]
    /\ phase \in [Requests -> {"new", "active", "given"}]

\* Slots of BufferValues: a value slot or a transmit slot.
Slots == {"value", "transmit"} \X Values
Slot(x) == IF x[1] = "value" THEN value[x[2]] ELSE transmit[x[2]]

(* A buffer has one owner at a time (spec 5: buffers are passed along the *)
(* request pipeline and not shared): it is in its pool or in one slot of  *)
(* one BufferValue, and no two live requests share a BufferValue, through *)
(* any sequence of Find, Transmit, Give and reuse from vPool.              *)
BuffersExclusive ==
    /\ \A x, y \in Slots : Slot(x) # Nil /\ Slot(x) = Slot(y) => x = y
    /\ \A x \in Slots : Slot(x) \notin free
    /\ \A r, q \in Requests :
          r # q /\ phase[r] = "active" /\ phase[q] = "active" => ctx[r] # ctx[q]

(* The inductive invariant behind BuffersExclusive, as its conjuncts: no  *)
(* slot holds the same buffer as another slot or as the pool; buffers and *)
(* values not yet created are nowhere; the values vPool holds are empty   *)
(* and belong to no live request; live requests hold distinct values.     *)
SlotsDistinct ==
    /\ \A v, w \in Values : value[v] # Nil /\ value[v] = value[w] => v = w
    /\ \A v, w \in Values : transmit[v] # Nil /\ transmit[v] = transmit[w] => v = w
    /\ \A v, w \in Values : value[v] # Nil => value[v] # transmit[w]
SlotsNotFree == \A v \in Values : value[v] \notin free /\ transmit[v] \notin free
BufsCreated ==
    /\ \A v \in Values : value[v] <= nBufs /\ transmit[v] <= nBufs
    /\ free \subseteq 1..nBufs
ValuesCreated ==
    /\ vFree \subseteq 1..nValues
    /\ \A v \in Values : v > nValues => value[v] = Nil /\ transmit[v] = Nil
FreeValuesEmpty == \A v \in vFree : value[v] = Nil /\ transmit[v] = Nil
LiveValuesHeld == \A r \in Requests : phase[r] = "active" => ctx[r] \in 1..nValues \ vFree
LiveValuesDistinct ==
    \A r, q \in Requests :
        r # q /\ phase[r] = "active" /\ phase[q] = "active" => ctx[r] # ctx[q]

IInv ==
    /\ TypeOK
    /\ SlotsDistinct /\ SlotsNotFree /\ BufsCreated /\ ValuesCreated
    /\ FreeValuesEmpty /\ LiveValuesHeld /\ LiveValuesDistinct

=============================================================================
