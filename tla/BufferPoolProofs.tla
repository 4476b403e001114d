-------------------------- MODULE BufferPoolProofs --------------------------
(***************************************************************************)
(* Proofs about BufferPool: IInv is inductive, so every reachable state    *)
(* keeps each buffer with one owner (BuffersExclusive), for every set of   *)
(* requests and every bound on buffers and BufferValues.  Each action's    *)
(* lemma proves the conjuncts of IInv one by one.                          *)
(***************************************************************************)
EXTENDS BufferPool, TLAPS

USE BufferPoolAssumption DEF Values, Bufs, Nil

LEMMA InitIInv == Init => IInv
BY DEF Init, IInv, TypeOK, SlotsDistinct, SlotsNotFree, BufsCreated, ValuesCreated,
       FreeValuesEmpty, LiveValuesHeld, LiveValuesDistinct

(* Find: the buffer taken is in the pool or has just been created, so no   *)
(* slot holds it.                                                          *)
LEMMA FindIInv ==
    ASSUME IInv, NEW r \in Requests, Find(r)
    PROVE  IInv'
<1> DEFINE v == ctx[r]
<1>1. PICK b \in Take : /\ value' = [value EXCEPT ![v] = b]
                        /\ free' = free \ {b}
                        /\ nBufs' = IF b > nBufs THEN b ELSE nBufs
  BY DEF Find
<1>2. /\ phase[r] = "active" /\ value[v] = Nil
      /\ UNCHANGED <<vFree, nValues, transmit, ctx, phase>>
  BY DEF Find
<1>3. v \in 1..nValues \ vFree /\ v \in Values
  BY <1>2 DEF IInv, LiveValuesHeld, TypeOK
<1>4. b \in Bufs /\ b \in 1..nBufs + 1 /\ b \notin free'
  BY <1>1 DEF Take, IInv, TypeOK, BufsCreated
<1>5. \A w \in Values : value[w] # b /\ transmit[w] # b
  BY <1>1 DEF Take, IInv, TypeOK, SlotsNotFree, BufsCreated
<1>6. TypeOK'
  BY <1>1, <1>2, <1>3, <1>4 DEF IInv, TypeOK
<1>7. SlotsDistinct'
  BY <1>1, <1>2, <1>3, <1>5, <1>6 DEF IInv, TypeOK, SlotsDistinct
<1>8. SlotsNotFree'
  BY <1>1, <1>2, <1>3, <1>4, <1>6 DEF IInv, TypeOK, SlotsNotFree
<1>9. BufsCreated'
  BY <1>1, <1>2, <1>3, <1>4, <1>6 DEF IInv, TypeOK, BufsCreated
<1>10. ValuesCreated'
  BY <1>1, <1>2, <1>3, <1>6 DEF IInv, TypeOK, ValuesCreated
<1>11. FreeValuesEmpty'
  BY <1>1, <1>2, <1>3, <1>6 DEF IInv, TypeOK, FreeValuesEmpty
<1>12. (LiveValuesHeld /\ LiveValuesDistinct)'
  BY <1>2 DEF IInv, LiveValuesHeld, LiveValuesDistinct
<1>13. QED
  BY <1>6, <1>7, <1>8, <1>9, <1>10, <1>11, <1>12 DEF IInv

(* NewBufferPoolContext: the value comes from vPool, where no live request *)
(* holds it, or is new.                                                    *)
LEMMA NewContextIInv ==
    ASSUME IInv, NEW r \in Requests, NewBufferPoolContext(r)
    PROVE  IInv'
<1>1. PICK v \in NewBufferValue : TakeValue(v) /\ ctx' = [ctx EXCEPT ![r] = v]
  BY DEF NewBufferPoolContext
<1>2. /\ phase[r] = "new" /\ phase' = [phase EXCEPT ![r] = "active"]
      /\ UNCHANGED <<free, nBufs, value, transmit>>
  BY DEF NewBufferPoolContext
<1>3. /\ v \in 1..nValues + 1 /\ v \in Values
      /\ vFree' = vFree \ {v}
      /\ nValues' = IF v > nValues THEN v ELSE nValues
  BY <1>1 DEF NewBufferValue, TakeValue, IInv, TypeOK, ValuesCreated
<1>4. \A q \in Requests : phase[q] = "active" => ctx[q] # v
  BY <1>1 DEF NewBufferValue, IInv, TypeOK, LiveValuesHeld
<1>5. TypeOK'
  BY <1>1, <1>2, <1>3 DEF IInv, TypeOK
<1>6. (SlotsDistinct /\ SlotsNotFree /\ BufsCreated)'
  BY <1>2 DEF IInv, SlotsDistinct, SlotsNotFree, BufsCreated
<1>7. ValuesCreated'
  BY <1>2, <1>3, <1>5 DEF IInv, TypeOK, ValuesCreated
<1>8. FreeValuesEmpty'
  BY <1>2, <1>3 DEF IInv, FreeValuesEmpty
<1>9. LiveValuesHeld'
  BY <1>1, <1>2, <1>3 DEF IInv, TypeOK, LiveValuesHeld
<1>10. LiveValuesDistinct'
  BY <1>1, <1>2, <1>4 DEF IInv, TypeOK, LiveValuesDistinct
<1>11. QED
  BY <1>5, <1>6, <1>7, <1>8, <1>9, <1>10 DEF IInv

(* Transmit moves the source's buffer into the destination's transmit      *)
(* slot; what that slot held is overwritten and no longer in any slot.     *)
LEMMA TransmitIInv ==
    ASSUME IInv, NEW d \in Requests, NEW s \in Requests, Transmit(d, s)
    PROVE  IInv'
<1> DEFINE u == ctx[s]
<1>1. PICK v \in PoolContext(d) :
         /\ transmit' = [transmit EXCEPT ![v] = value[u]]
         /\ IF phase[d] = "new" THEN TakeValue(v) ELSE UNCHANGED <<vFree, nValues>>
  BY DEF Transmit
<1>2. /\ phase[d] # "given" /\ phase[s] = "active" /\ d # s
      /\ value[u] # Nil
      /\ value' = [value EXCEPT ![u] = Nil]
      /\ UNCHANGED <<free, nBufs, ctx, phase>>
  BY DEF Transmit
<1>3. /\ u \in 1..nValues \ vFree /\ u \in Values
      /\ value[u] \in Bufs
  BY <1>2 DEF IInv, TypeOK, LiveValuesHeld
<1>4. CASE phase[d] = "new"
  <2>1. /\ v \in vFree \cup {nValues + 1}
        /\ v \in 1..nValues + 1 /\ v \in Values
        /\ vFree' = vFree \ {v}
        /\ nValues' = IF v > nValues THEN v ELSE nValues
    BY <1>1, <1>4 DEF PoolContext, NewBufferValue, TakeValue, IInv, TypeOK, ValuesCreated
  <2>2. v \in Values /\ v # u
    BY <1>3, <2>1 DEF IInv, TypeOK
  <2>3. TypeOK'
    BY <1>1, <1>2, <1>3, <2>1, <2>2 DEF IInv, TypeOK
  <2>4. SlotsDistinct'
    BY <1>1, <1>2, <1>3, <2>2, <2>3 DEF IInv, TypeOK, SlotsDistinct
  <2>5. SlotsNotFree'
    BY <1>1, <1>2, <1>3, <2>2, <2>3 DEF IInv, TypeOK, SlotsNotFree
  <2>6. BufsCreated'
    BY <1>1, <1>2, <1>3, <2>2, <2>3 DEF IInv, TypeOK, BufsCreated
  <2>7. ValuesCreated'
    BY <1>1, <1>2, <1>3, <2>1, <2>2, <2>3 DEF IInv, TypeOK, ValuesCreated
  <2>8. FreeValuesEmpty'
    BY <1>1, <1>2, <1>3, <2>1, <2>2, <2>3 DEF IInv, TypeOK, FreeValuesEmpty
  <2>9. LiveValuesHeld'
    BY <1>2, <2>1 DEF IInv, TypeOK, LiveValuesHeld
  <2>10. LiveValuesDistinct'
    BY <1>2 DEF IInv, LiveValuesDistinct
  <2>11. QED
    BY <2>3, <2>4, <2>5, <2>6, <2>7, <2>8, <2>9, <2>10 DEF IInv
<1>5. CASE phase[d] = "active"
  <2>1. v = ctx[d] /\ UNCHANGED <<vFree, nValues>>
    BY <1>1, <1>5 DEF PoolContext
  <2>2. v \in 1..nValues \ vFree /\ v \in Values /\ v # u
    BY <1>2, <1>5, <2>1 DEF IInv, TypeOK, LiveValuesHeld, LiveValuesDistinct
  <2>3. TypeOK'
    BY <1>1, <1>2, <1>3, <2>1, <2>2 DEF IInv, TypeOK
  <2>4. SlotsDistinct'
    BY <1>1, <1>2, <1>3, <2>2, <2>3 DEF IInv, TypeOK, SlotsDistinct
  <2>5. SlotsNotFree'
    BY <1>1, <1>2, <1>3, <2>2, <2>3 DEF IInv, TypeOK, SlotsNotFree
  <2>6. BufsCreated'
    BY <1>1, <1>2, <1>3, <2>2, <2>3 DEF IInv, TypeOK, BufsCreated
  <2>7. ValuesCreated'
    BY <1>1, <1>2, <1>3, <2>1, <2>2, <2>3 DEF IInv, TypeOK, ValuesCreated
  <2>8. FreeValuesEmpty'
    BY <1>1, <1>2, <1>3, <2>1, <2>2, <2>3 DEF IInv, TypeOK, FreeValuesEmpty
  <2>9. (LiveValuesHeld /\ LiveValuesDistinct)'
    BY <1>2, <2>1 DEF IInv, LiveValuesHeld, LiveValuesDistinct
  <2>10. QED
    BY <2>3, <2>4, <2>5, <2>6, <2>7, <2>8, <2>9 DEF IInv
<1>6. QED
  BY <1>2, <1>4, <1>5 DEF IInv, TypeOK

(* Give: the value's buffers go back to the pool, which held none of them, *)
(* and the emptied value goes back to vPool.                               *)
LEMMA GiveIInv ==
    ASSUME IInv, NEW r \in Requests, Give(r)
    PROVE  IInv'
<1> DEFINE v == ctx[r]
<1>1. /\ phase[r] = "active"
      /\ free' = free \cup ({value[v], transmit[v]} \ {Nil})
      /\ value' = [value EXCEPT ![v] = Nil]
      /\ transmit' = [transmit EXCEPT ![v] = Nil]
      /\ vFree' = vFree \cup {v}
      /\ phase' = [phase EXCEPT ![r] = "given"]
      /\ UNCHANGED <<nBufs, nValues, ctx>>
  BY DEF Give, GiveBack
<1>2. v \in 1..nValues \ vFree /\ v \in Values
  BY <1>1 DEF IInv, TypeOK, LiveValuesHeld
<1>3. TypeOK'
  BY <1>1, <1>2 DEF IInv, TypeOK
<1>4. SlotsDistinct'
  BY <1>1, <1>2, <1>3 DEF IInv, TypeOK, SlotsDistinct
<1>5. SlotsNotFree'
  BY <1>1, <1>2, <1>3 DEF IInv, TypeOK, SlotsNotFree, SlotsDistinct
<1>6. BufsCreated'
  BY <1>1, <1>2, <1>3 DEF IInv, TypeOK, BufsCreated
<1>7. ValuesCreated'
  BY <1>1, <1>2, <1>3 DEF IInv, TypeOK, ValuesCreated
<1>8. FreeValuesEmpty'
  BY <1>1, <1>2, <1>3 DEF IInv, TypeOK, FreeValuesEmpty
<1>9. LiveValuesHeld'
  BY <1>1, <1>2 DEF IInv, TypeOK, LiveValuesHeld, LiveValuesDistinct
<1>10. LiveValuesDistinct'
  BY <1>1 DEF IInv, TypeOK, LiveValuesDistinct
<1>11. QED
  BY <1>3, <1>4, <1>5, <1>6, <1>7, <1>8, <1>9, <1>10 DEF IInv

(* A sync.Pool dropping a buffer or a value only shrinks what it holds.    *)
LEMMA DropBufferIInv ==
    ASSUME IInv, NEW b \in free, DropBuffer(b)
    PROVE  IInv'
BY DEF DropBuffer, IInv, TypeOK, SlotsDistinct, SlotsNotFree, BufsCreated,
       ValuesCreated, FreeValuesEmpty, LiveValuesHeld, LiveValuesDistinct

LEMMA DropValueIInv ==
    ASSUME IInv, NEW v \in vFree, DropValue(v)
    PROVE  IInv'
BY DEF DropValue, IInv, TypeOK, SlotsDistinct, SlotsNotFree, BufsCreated,
       ValuesCreated, FreeValuesEmpty, LiveValuesHeld, LiveValuesDistinct

LEMMA StutterIInv ==
    ASSUME IInv, UNCHANGED vars
    PROVE  IInv'
BY DEF vars, IInv, TypeOK, SlotsDistinct, SlotsNotFree, BufsCreated,
       ValuesCreated, FreeValuesEmpty, LiveValuesHeld, LiveValuesDistinct

(* IInv holds in every state of every behaviour.                           *)
THEOREM IInvInvariant == Spec => []IInv
<1>1. Init => IInv
  BY InitIInv
<1>2. IInv /\ [Next]_vars => IInv'
  <2> SUFFICES ASSUME IInv, [Next]_vars PROVE IInv'
    OBVIOUS
  <2>1. CASE \E r \in Requests : NewBufferPoolContext(r) \/ Find(r) \/ Give(r)
    BY <2>1, NewContextIInv, FindIInv, GiveIInv
  <2>2. CASE \E d, s \in Requests : Transmit(d, s)
    BY <2>2, TransmitIInv
  <2>3. CASE \E b \in free : DropBuffer(b)
    BY <2>3, DropBufferIInv
  <2>4. CASE \E v \in vFree : DropValue(v)
    BY <2>4, DropValueIInv
  <2>5. CASE UNCHANGED vars
    BY <2>5, StutterIInv
  <2>6. QED
    BY <2>1, <2>2, <2>3, <2>4, <2>5 DEF Next
<1>3. QED
  BY <1>1, <1>2, PTL DEF Spec

(* A slot names the value slot or the transmit slot of a BufferValue.      *)
LEMMA SlotCases ==
    ASSUME NEW x \in Slots
    PROVE  \/ x = <<"value", x[2]>> /\ x[2] \in Values /\ Slot(x) = value[x[2]]
           \/ x = <<"transmit", x[2]>> /\ x[2] \in Values /\ Slot(x) = transmit[x[2]]
BY DEF Slots, Slot

(* The invariant the run buf_exclusive checks, for every number of         *)
(* requests, buffers and BufferValues: Find, TransmitBufferPoolContext,    *)
(* Give and vPool reuse never let a buffer have two owners or two live     *)
(* requests share a BufferValue.                                           *)
THEOREM BuffersExclusiveInvariant == Spec => []BuffersExclusive
<1>1. IInv => BuffersExclusive
  <2> SUFFICES ASSUME IInv PROVE BuffersExclusive
    OBVIOUS
  <2>1. \A x, y \in Slots : Slot(x) # Nil /\ Slot(x) = Slot(y) => x = y
    BY SlotCases DEF IInv, SlotsDistinct
  <2>2. \A x \in Slots : Slot(x) \notin free
    BY SlotCases DEF IInv, SlotsNotFree
  <2>3. QED
    BY <2>1, <2>2 DEF IInv, LiveValuesDistinct, BuffersExclusive
<1>2. QED
  BY <1>1, IInvInvariant, PTL
=============================================================================
