----------------------------- MODULE GrpcFactory -----------------------------
(***************************************************************************)
(* The gRPC network filter factory (src/pkg/filter/network/grpc/          *)
(* factory.go).                                                            *)
(*                                                                         *)
(* User code registers a named server constructor (RegisterServerHandler, *)
(* a LoadOrStore into the process-wide map stores).  Each listener whose   *)
(* configuration names a gRPC server gets a filter factory                 *)
(* (CreateGRPCServerFilterFactory), which looks the handler up; the       *)
(* factory's Init opens the gRPC listener and calls Handler.Start, whose   *)
(* sync.Once runs the constructor and starts Serve at most once per       *)
(* handler, whichever listener asks first.                                 *)
(*                                                                         *)
(* NewListener, the constructors and Serve are not in src/: opening a     *)
(* listener and running a constructor may fail.  network.OptimizeLocalWrite *)
(* is fixed before any factory is created.  Log calls and the stream       *)
(* filter lookup, which only reads, are left out.                          *)
(***************************************************************************)
EXTENDS Naturals, FiniteSets, Sequences

CONSTANTS
    Names,      \* server names
    Factories   \* listener configurations that carry a gRPC filter

ASSUME GrpcFactoryAssumption == Names # {} /\ Factories # {}

VARIABLES
    localWrite, \* network.OptimizeLocalWrite
    stores,     \* names registered in stores
    once,       \* names whose Handler.once has run its function
    serving,    \* <<n, k>>: server n's Serve goroutine runs on k's listener
    lnOpen,     \* listeners whose factory's Init opened a gRPC listener
    listeners,  \* listeners the listener adapter holds
    fac         \* fac[k]: listener k's current gRPC filter factory: its state,
                \* the server its configuration names and its last error

vars == <<localWrite, stores, once, serving, lnOpen, listeners, fac>>

\* Listener configurations an xDS push may carry: one or two listeners,
\* each with the server name of its gRPC filter.
Batches ==
    {<<x>> : x \in [k : Factories, name : Names]} \cup
    {<<x, y>> : x, y \in [k : Factories, name : Names]}

Errors == {"none", "localwrite", "unknown", "listen", "start", "duplicate"}
Fac(st, n, e) == [st |-> st, name |-> n, err |-> e]

Init ==
    /\ localWrite \in BOOLEAN
    /\ stores = {}
    /\ once = {}
    /\ serving = {}
    /\ lnOpen = {}
    /\ listeners = {}
    /\ fac = [k \in Factories |-> Fac("none", CHOOSE n \in Names : TRUE, "none")]

(* RegisterServerHandler: LoadOrStore keeps the first handler of a name;  *)
(* a second registration returns false and changes nothing.               *)
RegisterServerHandler(n) ==
    /\ stores' = stores \cup {n}
    /\ UNCHANGED <<localWrite, once, serving, lnOpen, listeners, fac>>

\* getRegisterServerHandler: the handler stored under the name, or nil.
GetRegisterServerHandler(n) == n \in stores

(* CreateGRPCServerFilterFactory for a configuration naming server n: the *)
(* new factory, refused under OptimizeLocalWrite, then refused with       *)
(* ErrUnknownServer when no handler is registered.                         *)
CreateGRPCServerFilterFactory(n) ==
    CASE localWrite                   -> Fac("rejected", n, "localwrite")
      [] ~GetRegisterServerHandler(n) -> Fac("rejected", n, "unknown")
      [] OTHER                        -> Fac("created", n, "none")

(* GetNetworkFilters, for a listener of the static configuration whose    *)
(* filter chain names server n: a factory that fails to be created is     *)
(* logged and skipped, and the listener is added without it.               *)
GetNetworkFilters(k, n) ==
    /\ k \notin listeners
    /\ fac[k].st = "none"
    /\ fac' = [fac EXCEPT ![k] = CreateGRPCServerFilterFactory(n)]
    /\ listeners' = listeners \cup {k}
    /\ UNCHANGED <<localWrite, stores, once, serving, lnOpen>>

\* The entries of push b from the first up to the last before the first
\* whose filter factory cannot be created.
Applied(b) ==
    {i \in 1..Len(b) :
        \A j \in 1..i : CreateGRPCServerFilterFactory(b[j].name).st = "created"}

\* The last applied entry of push b for listener k.
LastEntry(b, k) ==
    CHOOSE i \in Applied(b) : b[i].k = k /\ \A j \in Applied(b) : b[j].k = k => j <= i

(* OnAddOrUpdateListeners(b), the xDS callback: for each listener in      *)
(* order create its filter factory; the first failure returns the error   *)
(* and the listeners from it on are not processed.  A listener processed  *)
(* is added, or updated with its new factory, by the listener adapter;    *)
(* the last entry of a listener wins.                                      *)
OnAddOrUpdateListeners(b) ==
    /\ Applied(b) # {}
    /\ fac' = [k \in Factories |->
                 IF \E i \in Applied(b) : b[i].k = k
                 THEN CreateGRPCServerFilterFactory(b[LastEntry(b, k)].name)
                 ELSE fac[k]]
    /\ listeners' = listeners \cup {b[i].k : i \in Applied(b)}
    /\ UNCHANGED <<localWrite, stores, once, serving, lnOpen>>

(* OnDeleteListeners: the listener adapter deletes the listener.  Its     *)
(* factory and the server serving its gRPC listener are left as they are. *)
OnDeleteListeners(k) ==
    /\ k \in listeners
    /\ listeners' = listeners \ {k}
    /\ UNCHANGED <<localWrite, stores, once, serving, lnOpen, fac>>

\* Handler.Start with a once.Do that never records that it ran.
StartNoOnce(n, k) ==
    \/ /\ fac' = [fac EXCEPT ![k] = Fac("failed", n, "start")]
       /\ UNCHANGED <<once, serving>>
    \/ /\ serving' = serving \cup {<<n, k>>}
       /\ fac' = [fac EXCEPT ![k] = Fac("ready", n, "none")]
       /\ UNCHANGED once

(* Handler.Start(ctx, ln, conf): err is ErrDuplicateStarted unless        *)
(* once.Do runs its function, which calls the constructor: on an error    *)
(* it returns, the Once spent; otherwise it starts Serve(ln) and clears   *)
(* err.                                                                    *)
Start(n, k) ==
    IF n \in once
    THEN /\ fac' = [fac EXCEPT ![k] = Fac("failed", n, "duplicate")]
         /\ UNCHANGED <<once, serving>>
    ELSE /\ once' = once \cup {n}
         /\ \/ /\ fac' = [fac EXCEPT ![k] = Fac("failed", n, "start")]
               /\ UNCHANGED serving
            \/ /\ serving' = serving \cup {<<n, k>>}
               /\ fac' = [fac EXCEPT ![k] = Fac("ready", n, "none")]

(* grpcServerFilterFactory.Init: ErrInvalidConfig or a NewListener error  *)
(* return before a listener exists; otherwise Start, and on its error     *)
(* Init returns without closing the listener it opened.                    *)
InitFactory(k) ==
    /\ fac[k].st = "created"
    /\ k \in listeners
    /\ \/ /\ fac' = [fac EXCEPT ![k] = Fac("failed", @.name, "listen")]
          /\ UNCHANGED <<once, serving, lnOpen>>
       \/ /\ lnOpen' = lnOpen \cup {k}
          /\ Start(fac[k].name, k)
    /\ UNCHANGED <<localWrite, stores, listeners>>

Next ==
    \/ \E n \in Names : RegisterServerHandler(n)
    \/ \E k \in Factories :
          \/ \E n \in Names : GetNetworkFilters(k, n)
          \/ InitFactory(k)
          \/ OnDeleteListeners(k)
    \/ \E b \in Batches : OnAddOrUpdateListeners(b)

Spec == Init /\ [][Next]_vars

-----------------------------------------------------------------------------
TypeOK ==
    /\ localWrite \in BOOLEAN
    /\ stores \subseteq Names /\ once \subseteq Names
    /\ serving \subseteq Names \X Factories
    /\ lnOpen \subseteq Factories
    /\ listeners \subseteq Factories
    /\ fac \in [Factories -> [st : {"none", "rejected", "created", "ready", "failed"},
                              name : Names, err : Errors]]

(* Each registered gRPC server has one instance (the comment on           *)
(* grpcServerFilterFactory): whatever the order in which listeners        *)
(* initialise their factories, a server serves at most one listener, and  *)
(* a listener's factory is ready only while the server its configuration *)
(* names serves the gRPC listener that Init opened, through listener      *)
(* updates and deletions.                                                  *)
OneServerInstance ==
    /\ \A n \in Names : Cardinality({k \in Factories : <<n, k>> \in serving}) <= 1
    /\ \A k \in Factories :
          fac[k].st = "ready" => <<fac[k].name, k>> \in serving /\ k \in lnOpen


(* The inductive invariant behind OneServerInstance: a server serves only  *)
(* once its handler's Once has run, and serves at most one listener.       *)
ServingStarted == \A n \in Names, k \in Factories : <<n, k>> \in serving => n \in once
ServingUnique ==
    \A n \in Names, k1, k2 \in Factories :
        <<n, k1>> \in serving /\ <<n, k2>> \in serving => k1 = k2

IInv == TypeOK /\ OneServerInstance /\ ServingStarted /\ ServingUnique

=============================================================================
