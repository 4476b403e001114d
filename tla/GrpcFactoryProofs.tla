------------------------- MODULE GrpcFactoryProofs -------------------------
(***************************************************************************)
(* Proofs about GrpcFactory: IInv is inductive, so for any set of servers  *)
(* and listeners each registered gRPC server serves at most one listener   *)
(* and a ready factory's server serves the listener its Init opened        *)
(* (OneServerInstance).  The step is proved for Core, IInv without the     *)
(* cardinality bound, which Core implies.                                  *)
(***************************************************************************)
EXTENDS GrpcFactory, FiniteSetTheorems, TLAPS

FacT == [st : {"none", "rejected", "created", "ready", "failed"}, name : Names, err : Errors]

ReadyServing ==
    \A k \in Factories : fac[k].st = "ready" => <<fac[k].name, k>> \in serving /\ k \in lnOpen

Core == TypeOK /\ ServingStarted /\ ServingUnique /\ ReadyServing

(* CreateGRPCServerFilterFactory yields a factory that is not ready.       *)
LEMMA CreateType ==
    ASSUME NEW n \in Names
    PROVE  /\ CreateGRPCServerFilterFactory(n) \in FacT
           /\ CreateGRPCServerFilterFactory(n).st \in {"rejected", "created"}
BY DEF CreateGRPCServerFilterFactory, Fac, FacT, Errors, GetRegisterServerHandler

(* A push is one or two entries, each naming a listener and a server.     *)
LEMMA BatchShape ==
    ASSUME NEW b \in Batches
    PROVE  /\ Len(b) \in {1, 2}
           /\ \A i \in 1..Len(b) : b[i].k \in Factories /\ b[i].name \in Names
<1> DEFINE R == [k : Factories, name : Names]
<1>1. CASE \E x \in R : b = <<x>>
  BY <1>1
<1>2. CASE \E x, y \in R : b = <<x, y>>
  BY <1>2
<1>3. QED
  BY <1>1, <1>2 DEF Batches

(* The last applied entry of a listener that a push applies exists, and    *)
(* names that listener.                                                    *)
LEMMA LastEntryProps ==
    ASSUME NEW b \in Batches, NEW k, \E i \in Applied(b) : b[i].k = k
    PROVE  /\ LastEntry(b, k) \in 1..Len(b)
           /\ b[LastEntry(b, k)].k = k
<1>1. Len(b) \in {1, 2}
  BY BatchShape
<1>2. Applied(b) \subseteq 1..Len(b)
  BY DEF Applied
<1>3. \E i \in Applied(b) : b[i].k = k /\ \A j \in Applied(b) : b[j].k = k => j <= i
  <2>1. CASE 2 \in Applied(b) /\ b[2].k = k
    <3>1. \A j \in Applied(b) : j <= 2
      <4> SUFFICES ASSUME NEW j \in Applied(b) PROVE j <= 2
        OBVIOUS
      <4>1. j \in 1..Len(b)
        BY <1>2
      <4>2. \A m \in {1, 2} : \A i \in 1..m : i <= 2
        OBVIOUS
      <4>3. QED
        BY <1>1, <4>1, <4>2
    <3>2. QED
      BY <2>1, <3>1
  <2>2. CASE ~(2 \in Applied(b) /\ b[2].k = k)
    <3>1. PICK i \in Applied(b) : b[i].k = k
      OBVIOUS
    <3>2. \A j \in Applied(b) : b[j].k = k => j = i
      BY <1>1, <1>2, <2>2, <3>1
    <3>3. QED
      BY <3>1, <3>2, <1>2
  <2>3. QED
    BY <2>1, <2>2
<1>4. QED
  BY <1>2, <1>3 DEF LastEntry

(* A set of pairs in which a server is paired with at most one listener    *)
(* pairs it with a set of at most one listener.                            *)
LEMMA UniqueCard ==
    ASSUME NEW S, NEW F, NEW n,
           \A k1, k2 \in F : <<n, k1>> \in S /\ <<n, k2>> \in S => k1 = k2
    PROVE  Cardinality({k \in F : <<n, k>> \in S}) <= 1
<1> DEFINE T == {k \in F : <<n, k>> \in S}
<1>1. CASE T = {}
  <2>1. Cardinality({}) = 0
    BY FS_EmptySet
  <2>2. Cardinality(T) = 0
    BY <1>1, <2>1, Zenon
  <2>3. QED
    BY <2>2
<1>2. CASE T # {}
  <2>1. PICK k0 \in T : TRUE
    BY <1>2
  <2>2. T = {k0}
    BY <2>1
  <2>3. Cardinality({k0}) = 1
    BY FS_Singleton
  <2>4. Cardinality(T) = 1
    BY <2>2, <2>3, Zenon
  <2>5. QED
    BY <2>4
<1>3. QED
  BY <1>1, <1>2

LEMMA CoreIInv == Core => IInv
<1> SUFFICES ASSUME Core PROVE IInv
  OBVIOUS
<1>1. \A n \in Names : Cardinality({k \in Factories : <<n, k>> \in serving}) <= 1
  <2> SUFFICES ASSUME NEW n \in Names
               PROVE  Cardinality({k \in Factories : <<n, k>> \in serving}) <= 1
    OBVIOUS
  <2>1. \A k1, k2 \in Factories : <<n, k1>> \in serving /\ <<n, k2>> \in serving => k1 = k2
    BY DEF Core, ServingUnique
  <2>2. QED
    BY <2>1, UniqueCard
<1>2. QED
  BY <1>1 DEF Core, IInv, OneServerInstance, ReadyServing

LEMMA InitCore == Init => Core
BY GrpcFactoryAssumption
   DEF Init, Core, TypeOK, ServingStarted, ServingUnique, ReadyServing, Fac, Errors

LEMMA RegisterCore ==
    ASSUME Core, NEW n \in Names, RegisterServerHandler(n)
    PROVE  Core'
BY DEF RegisterServerHandler, Core, TypeOK, ServingStarted, ServingUnique, ReadyServing

(* A listener of the static configuration gets a factory that is not ready. *)
LEMMA GetNetworkFiltersCore ==
    ASSUME Core, NEW k \in Factories, NEW n \in Names, GetNetworkFilters(k, n)
    PROVE  Core'
<1>1. /\ CreateGRPCServerFilterFactory(n) \in FacT
      /\ CreateGRPCServerFilterFactory(n).st # "ready"
  BY CreateType
<1>2. TypeOK'
  BY <1>1 DEF GetNetworkFilters, Core, TypeOK, FacT
<1>3. (ServingStarted /\ ServingUnique /\ ReadyServing)'
  BY <1>1 DEF GetNetworkFilters, Core, TypeOK, ServingStarted, ServingUnique, ReadyServing
<1>4. QED
  BY <1>2, <1>3 DEF Core

(* An xDS push replaces the factories of the listeners it applies with new *)
(* factories, none of them ready.                                          *)
LEMMA OnAddOrUpdateCore ==
    ASSUME Core, NEW b \in Batches, OnAddOrUpdateListeners(b)
    PROVE  Core'
<1>1. /\ \A i \in 1..Len(b) : b[i].k \in Factories /\ b[i].name \in Names
      /\ Applied(b) \subseteq 1..Len(b)
  BY BatchShape DEF Applied
<1>2. ASSUME NEW k \in Factories, \E i \in Applied(b) : b[i].k = k
      PROVE  /\ fac'[k] = CreateGRPCServerFilterFactory(b[LastEntry(b, k)].name)
             /\ fac'[k] \in FacT
             /\ fac'[k].st # "ready"
  <2>1. LastEntry(b, k) \in 1..Len(b)
    BY <1>2, LastEntryProps
  <2>2. b[LastEntry(b, k)].name \in Names
    BY <1>1, <2>1
  <2>3. fac'[k] = CreateGRPCServerFilterFactory(b[LastEntry(b, k)].name)
    BY <1>2 DEF OnAddOrUpdateListeners
  <2>4. QED
    BY <2>2, <2>3, CreateType
<1>3. ASSUME NEW k \in Factories, ~\E i \in Applied(b) : b[i].k = k
      PROVE  fac'[k] = fac[k]
  BY <1>3 DEF OnAddOrUpdateListeners
<1>4. {b[i].k : i \in Applied(b)} \subseteq Factories
  BY <1>1
<1>5. TypeOK'
  <2>1. fac' \in [Factories -> FacT]
    BY <1>2, <1>3 DEF OnAddOrUpdateListeners, Core, TypeOK, FacT
  <2>2. QED
    BY <1>4, <2>1 DEF OnAddOrUpdateListeners, Core, TypeOK, FacT
<1>6. ReadyServing'
  BY <1>2, <1>3 DEF OnAddOrUpdateListeners, Core, ReadyServing
<1>7. (ServingStarted /\ ServingUnique)'
  BY DEF OnAddOrUpdateListeners, Core, ServingStarted, ServingUnique
<1>8. QED
  BY <1>5, <1>6, <1>7 DEF Core

LEMMA OnDeleteCore ==
    ASSUME Core, NEW k \in Factories, OnDeleteListeners(k)
    PROVE  Core'
BY DEF OnDeleteListeners, Core, TypeOK, ServingStarted, ServingUnique, ReadyServing

(* Init and Handler.Start: Serve starts on k's listener only when the      *)
(* handler's Once has not run, so no listener is served by that server.   *)
LEMMA InitFactoryCore ==
    ASSUME Core, NEW k \in Factories, InitFactory(k)
    PROVE  Core'
<1> DEFINE n == fac[k].name
<1>1. n \in Names /\ fac[k].st = "created"
  BY DEF InitFactory, Core, TypeOK
<1>2. CASE /\ fac' = [fac EXCEPT ![k] = Fac("failed", @.name, "listen")]
           /\ UNCHANGED <<once, serving, lnOpen>>
  BY <1>1, <1>2 DEF InitFactory, Core, TypeOK, ServingStarted, ServingUnique, ReadyServing,
                    Fac, Errors
<1>3. CASE lnOpen' = lnOpen \cup {k} /\ Start(n, k)
  <2>1. CASE n \in once
    BY <1>1, <1>3, <2>1 DEF Start, InitFactory, Core, TypeOK, ServingStarted, ServingUnique,
                             ReadyServing, Fac, Errors
  <2>2. CASE n \notin once
    <3>1. \A k2 \in Factories : <<n, k2>> \notin serving
      BY <1>1, <2>2 DEF Core, ServingStarted
    <3>2. once' = once \cup {n}
      BY <1>3, <2>2 DEF Start
    <3>3. CASE fac' = [fac EXCEPT ![k] = Fac("failed", n, "start")] /\ UNCHANGED serving
      BY <1>1, <1>3, <3>2, <3>3 DEF InitFactory, Core, TypeOK, ServingStarted,
                                    ServingUnique, ReadyServing, Fac, Errors
    <3>4. CASE serving' = serving \cup {<<n, k>>} /\ fac' = [fac EXCEPT ![k] = Fac("ready", n, "none")]
      <4>1. TypeOK'
        BY <1>1, <1>3, <3>2, <3>4 DEF InitFactory, Core, TypeOK, Fac, Errors
      <4>2. ServingStarted'
        BY <1>1, <3>2, <3>4 DEF Core, ServingStarted
      <4>3. ServingUnique'
        BY <1>1, <3>1, <3>4 DEF Core, ServingUnique
      <4>4. ReadyServing'
        BY <1>1, <1>3, <3>4 DEF Core, TypeOK, ReadyServing, Fac
      <4>5. QED
        BY <4>1, <4>2, <4>3, <4>4 DEF Core
    <3>5. QED
      BY <1>3, <2>2, <3>3, <3>4 DEF Start
  <2>3. QED
    BY <2>1, <2>2
<1>4. QED
  BY <1>2, <1>3 DEF InitFactory

LEMMA StutterCore ==
    ASSUME Core, UNCHANGED vars
    PROVE  Core'
BY DEF vars, Core, TypeOK, ServingStarted, ServingUnique, ReadyServing

(* The invariant the run grpc_once checks, together with its inductive    *)
(* strengthening, for every set of servers and listeners: whatever the     *)
(* order of registrations, listener creations, xDS pushes and deletions    *)
(* and factory Inits, Handler.Start's once.Do lets each server serve at   *)
(* most one listener, and a ready factory's server serves its listener.   *)
THEOREM IInvInvariant == Spec => []IInv
<1>1. Init => Core
  BY InitCore
<1>2. Core /\ [Next]_vars => Core'
  <2> SUFFICES ASSUME Core, [Next]_vars PROVE Core'
    OBVIOUS
  <2>1. CASE \E n \in Names : RegisterServerHandler(n)
    BY <2>1, RegisterCore
  <2>2. CASE \E k \in Factories, n \in Names : GetNetworkFilters(k, n)
    BY <2>2, GetNetworkFiltersCore
  <2>3. CASE \E k \in Factories : InitFactory(k)
    BY <2>3, InitFactoryCore
  <2>4. CASE \E k \in Factories : OnDeleteListeners(k)
    BY <2>4, OnDeleteCore
  <2>5. CASE \E b \in Batches : OnAddOrUpdateListeners(b)
    BY <2>5, OnAddOrUpdateCore
  <2>6. CASE UNCHANGED vars
    BY <2>6, StutterCore
  <2>7. QED
    BY <2>1, <2>2, <2>3, <2>4, <2>5, <2>6 DEF Next
<1>3. QED
  BY <1>1, <1>2, CoreIInv, PTL DEF Spec

(* OneServerInstance itself, for every set of servers and listeners.       *)
THEOREM OneServerInstanceInvariant == Spec => []OneServerInstance
BY IInvInvariant, PTL DEF IInv
=============================================================================
