----------------------------- MODULE Registration -----------------------------
(***************************************************************************)
(* The admin API of the gateway (api_impl.rs) and the start of the gateway *)
(* (wait_for_registration and run in common_chain_interaction.rs).         *)
(*                                                                         *)
(* Requests are served in parallel.  What they share is in AppState, each  *)
(* field behind a mutex of its own, so one action is what a request does   *)
(* under one lock; a lock it keeps is recorded in holder.  A successful    *)
(* export builds the contracts client once and spawns a listener, which    *)
(* waits for the registration event of every chain and starts the gateway. *)
(***************************************************************************)
EXTENDS Naturals, FiniteSets

CONSTANTS
  Requests,         \* the requests that can be in flight together
  Owners, Wallets,  \* owner addresses and gas wallets that may be injected
  Chains,           \* request chain ids
  IdSets,           \* the sets of them that an export may ask for
  Common,           \* the common chain, as a chain with a registration event
  None,             \* Option::None, no holder, no argument
  Faults            \* may calls fail, websockets drop and request chains reorg?

AllChains == Chains \union {Common}
Arguments == Owners \union Wallets \union IdSets \union {None}

\* The chains watched for a set of request chains; a contracts client, with the
\* wallet that the contract instance of each chain signs with.
Watched(ids) == ids \union {Common}
Clients == [owner : Owners, chains : SUBSET Chains,
            signer : UNION {[Watched(ids) -> Wallets] : ids \in SUBSET Chains}]

ASSUME RegistrationAssumption ==
  /\ Common \notin Chains /\ IdSets \subseteq SUBSET Chains
  /\ None \notin Owners \union Wallets \union AllChains \union Requests \union Clients
  /\ Faults \in BOOLEAN

\* The mutexes of AppState, and the point at which a request waits for each one.
Locks == {"immutable", "owner", "wallet", "chainIds", "listener", "client"}
WaitsAt ==
  [immutable |-> {"immutable", "details", "checkImmutable"},
   owner     |-> {"setOwner", "detailsOwner", "readOwner"},
   wallet    |-> {"mutable", "detailsWallet", "checkWallet", "takeWallet"},
   chainIds  |-> {"compareIds", "takeIds"},
   listener  |-> {"takeListener"},
   client    |-> {"mutableClient", "takeClient"}]
EntryPcs == {"immutable", "mutable", "details", "export"}
Pcs == (UNION {WaitsAt[l] : l \in Locks}) \union EntryPcs
       \union {"idle", "resign", "detailsFlag", "checkMutable", "fetch"}

VARIABLES
  owner, wallet,                       \* enclave_owner, wallet
  immutableInjected, mutableInjected,  \* the two flags
  chainIds,                            \* request_chain_ids
  listenerActive,                      \* registration_events_listener_active
  registered,                          \* set by the listener, read by exports
  client,                              \* contracts_client, with its signers
  holder,                              \* of each mutex: the request that holds it
  pc, arg, seen,                       \* of each request: place, argument, locals
  watcher,                             \* of each chain: the task waiting for its event
  arrived,                             \* the chains whose event is in the task's stream
  collected,                           \* the chains the listener has heard of
  loops,                               \* the chains whose event loop run() has started
  emitted,                             \* chains: the registration event is on the chain
  signed, listeners                    \* history: messages signed, listeners spawned

config == <<owner, wallet, immutableInjected, mutableInjected, chainIds>>
requests == <<pc, arg, seen>>
start == <<watcher, arrived, collected, registered, loops, emitted>>
history == <<signed, listeners>>
vars == <<config, listenerActive, client, holder, requests, start, history>>

NothingSeen == [owner |-> None, wallet |-> None]

Init ==
  /\ owner = None /\ wallet = None /\ chainIds = {}
  /\ immutableInjected = FALSE /\ mutableInjected = FALSE
  /\ listenerActive = FALSE /\ registered = FALSE
  /\ client = None
  /\ holder = [l \in Locks |-> None]
  /\ pc = [r \in Requests |-> "idle"]
  /\ arg = [r \in Requests |-> None]
  /\ seen = [r \in Requests |-> NothingSeen]
  /\ watcher = [c \in AllChains |-> "off"]
  /\ arrived = {} /\ collected = {} /\ loops = {} /\ emitted = {}
  /\ signed = {} /\ listeners = 0
-----------------------------------------------------------------------------
(* Requests and locks.                                                      *)

\* The request is at this point, and the lock it waits for there is free.
At(r, label) ==
  /\ pc[r] = label
  /\ \A l \in Locks : label \in WaitsAt[l] => holder[l] = None

Goto(r, label) == pc' = [pc EXCEPT ![r] = label] /\ UNCHANGED <<arg, seen>>

Keep(r, l) == holder' = [holder EXCEPT ![l] = r]
Glance == UNCHANGED holder

\* The handler returns: its guards are dropped.
Reply(r) ==
  /\ pc' = [pc EXCEPT ![r] = "idle"]
  /\ arg' = [arg EXCEPT ![r] = None]
  /\ seen' = [seen EXCEPT ![r] = NothingSeen]
  /\ holder' = [l \in Locks |-> IF holder[l] = r THEN None ELSE holder[l]]

\* Reply with an error unless ok, and go on to label with no more locks than before.
Check(r, ok, label) == IF ok THEN Goto(r, label) /\ Glance ELSE Reply(r)

ArgumentsOf ==
  [immutable |-> Owners, mutable |-> Wallets, details |-> {None}, export |-> IdSets]

Arrive(r) ==
  /\ pc[r] = "idle"
  /\ \E kind \in EntryPcs : \E a \in ArgumentsOf[kind] :
       /\ pc' = [pc EXCEPT ![r] = kind]
       /\ arg' = [arg EXCEPT ![r] = a]
  /\ UNCHANGED <<config, listenerActive, client, holder, seen, start, history>>
-----------------------------------------------------------------------------
(* inject_immutable_config: the flag's lock is kept until the owner is set. *)

InjectImmutable(r) ==
  /\ At(r, "immutable")
  /\ IF immutableInjected
       THEN Reply(r)
       ELSE Goto(r, "setOwner") /\ Keep(r, "immutable")
  /\ UNCHANGED <<config, listenerActive, client, start, history>>

SetOwner(r) ==
  /\ At(r, "setOwner")
  /\ owner' = arg[r]
  /\ immutableInjected' = TRUE
  /\ Reply(r)
  /\ UNCHANGED <<wallet, mutableInjected, chainIds, listenerActive, client, start, history>>
-----------------------------------------------------------------------------
(* inject_mutable_config: the wallet's lock is kept while the clients are   *)
(* given the new signer, one after the other.                               *)

InjectMutable(r) ==
  /\ At(r, "mutable")
  /\ IF wallet = arg[r]
       THEN Reply(r)
       ELSE Goto(r, "mutableClient") /\ Keep(r, "wallet")
  /\ UNCHANGED <<config, listenerActive, client, start, history>>

MutableClient(r) ==
  /\ At(r, "mutableClient")
  /\ Goto(r, "resign") /\ Keep(r, "client")
  /\ UNCHANGED <<config, listenerActive, client, start, history>>

\* Slip: the relay contracts are forgotten.
ToResignCommon(r) ==
  IF client # None /\ client.signer[Common] # arg[r] THEN {Common} ELSE {}

\* The contract instances that still sign with another wallet: GatewayJobs first,
\* then the relay contracts of the request chains.
ToResign(r) ==
  IF client = None THEN {} ELSE {c \in DOMAIN client.signer : client.signer[c] # arg[r]}

Resign(r) ==
  /\ pc[r] = "resign"
  /\ \E c \in ToResign(r) :
       /\ Common \in ToResign(r) => c = Common
       /\ client' = [client EXCEPT !.signer[c] = arg[r]]
  /\ UNCHANGED <<config, listenerActive, holder, requests, start, history>>

SetWallet(r) ==
  /\ pc[r] = "resign" /\ ToResign(r) = {}
  /\ wallet' = arg[r]
  /\ mutableInjected' = TRUE
  /\ Reply(r)
  /\ UNCHANGED <<owner, immutableInjected, chainIds, listenerActive, client, start, history>>
-----------------------------------------------------------------------------
(* get_gateway_details: the owner's guard lives until the wallet is read.   *)

Details(r) ==
  /\ At(r, "details")
  /\ Check(r, immutableInjected, "detailsFlag")
  /\ UNCHANGED <<config, listenerActive, client, start, history>>

\* Slip: the second flag is not looked at.
DetailsNoFlag(r) ==
  /\ At(r, "detailsFlag")
  /\ Check(r, TRUE, "detailsOwner")
  /\ UNCHANGED <<config, listenerActive, client, start, history>>

DetailsFlag(r) ==
  /\ At(r, "detailsFlag")
  /\ Check(r, mutableInjected, "detailsOwner")
  /\ UNCHANGED <<config, listenerActive, client, start, history>>

DetailsOwner(r) ==
  /\ At(r, "detailsOwner")
  /\ Goto(r, "detailsWallet") /\ Keep(r, "owner")
  /\ UNCHANGED <<config, listenerActive, client, start, history>>

\* wallet.unwrap() under the owner's lock.
DetailsWallet(r) ==
  /\ At(r, "detailsWallet") /\ wallet # None
  /\ Reply(r)
  /\ UNCHANGED <<config, listenerActive, client, start, history>>
-----------------------------------------------------------------------------
(* export_signed_registration_message.                                      *)

Export(r) ==
  /\ At(r, "export")
  /\ Check(r, ~registered /\ arg[r] # {}, "compareIds")
  /\ UNCHANGED <<config, listenerActive, client, start, history>>

SameIds(r) == chainIds = {} \/ chainIds = arg[r]

\* Slip: the guard of the first comparison has no scope of its own.
CompareUnscoped(r) ==
  /\ At(r, "compareIds")
  /\ IF SameIds(r) THEN Goto(r, "checkImmutable") /\ Keep(r, "chainIds") ELSE Reply(r)
  /\ UNCHANGED <<config, listenerActive, client, start, history>>

CompareIds(r) ==
  /\ At(r, "compareIds")
  /\ Check(r, SameIds(r), "checkImmutable")
  /\ UNCHANGED <<config, listenerActive, client, start, history>>

CheckImmutable(r) ==
  /\ At(r, "checkImmutable")
  /\ Check(r, immutableInjected, "checkMutable")
  /\ UNCHANGED <<config, listenerActive, client, start, history>>

CheckMutable(r) ==
  /\ At(r, "checkMutable")
  /\ Check(r, mutableInjected, "checkWallet")
  /\ UNCHANGED <<config, listenerActive, client, start, history>>

CheckWallet(r) ==
  /\ At(r, "checkWallet")
  /\ Check(r, wallet # None, "readOwner")
  /\ UNCHANGED <<config, listenerActive, client, start, history>>

\* The owner read here is the one that is signed and that the listener waits for.
ReadOwner(r) ==
  /\ At(r, "readOwner")
  /\ seen' = [seen EXCEPT ![r].owner = owner]
  /\ pc' = [pc EXCEPT ![r] = "fetch"]
  /\ UNCHANGED <<config, listenerActive, client, holder, arg, start, history>>

\* The chains are asked for their addresses and heads, with no lock held: a call
\* that fails ends the request, with an error or with a panic.
Fetch(r) ==
  /\ pc[r] = "fetch"
  /\ \/ Goto(r, "takeWallet") /\ Glance
     \/ Faults /\ Reply(r)
  /\ UNCHANGED <<config, listenerActive, client, start, history>>

\* From here on the guards are kept: the clients sign with the wallet read now.
TakeWallet(r) ==
  /\ At(r, "takeWallet") /\ wallet # None
  /\ seen' = [seen EXCEPT ![r].wallet = wallet]
  /\ pc' = [pc EXCEPT ![r] = "takeIds"]
  /\ Keep(r, "wallet")
  /\ UNCHANGED <<config, listenerActive, client, arg, start, history>>

\* Slip: only the first comparison is made.
TakeAnyIds(r) ==
  /\ At(r, "takeIds")
  /\ chainIds' = IF chainIds = {} THEN arg[r] ELSE chainIds
  /\ Goto(r, "takeListener") /\ Keep(r, "chainIds")
  /\ UNCHANGED <<owner, wallet, immutableInjected, mutableInjected,
                 listenerActive, client, start, history>>

TakeIds(r) ==
  /\ At(r, "takeIds")
  /\ IF SameIds(r)
       THEN chainIds' = arg[r] /\ Goto(r, "takeListener") /\ Keep(r, "chainIds")
       ELSE UNCHANGED chainIds /\ Reply(r)
  /\ UNCHANGED <<owner, wallet, immutableInjected, mutableInjected,
                 listenerActive, client, start, history>>

Message(r) == [owner |-> seen[r].owner, chains |-> arg[r]]

TakeListener(r) ==
  /\ At(r, "takeListener")
  /\ IF listenerActive
       THEN signed' = signed \union {Message(r)} /\ Reply(r)
       ELSE UNCHANGED signed /\ Goto(r, "takeClient") /\ Keep(r, "listener")
  /\ UNCHANGED <<config, listenerActive, client, start, listeners>>

StartListener(r) ==
  /\ At(r, "takeClient")
  /\ client' = [owner |-> seen[r].owner, chains |-> arg[r],
                signer |-> [c \in Watched(arg[r]) |-> seen[r].wallet]]
  /\ watcher' = [c \in AllChains |-> IF c \in Watched(arg[r]) THEN "connecting" ELSE "off"]
  /\ listeners' = listeners + 1
  /\ listenerActive' = TRUE
  /\ signed' = signed \union {Message(r)}
  /\ Reply(r)
  /\ UNCHANGED <<config, arrived, collected, registered, loops, emitted>>
-----------------------------------------------------------------------------
(* wait_for_registration: one task per chain, and the loop that collects.   *)

\* The chains the running listener waits for.
Listening == IF client = None THEN {} ELSE Watched(client.chains)

\* A failed connection is tried again, a failed subscription panics.
Subscribe(c) ==
  /\ watcher[c] = "connecting"
  /\ \/ watcher' = [watcher EXCEPT ![c] = "subscribed"]
     \/ Faults /\ watcher' = [watcher EXCEPT ![c] = "panicked"]
  /\ UNCHANGED <<config, listenerActive, client, holder, requests, history,
                 arrived, collected, registered, loops, emitted>>

\* The websocket is lost, and with it the logs until the next subscription.
Drop(c) ==
  /\ Faults /\ watcher[c] = "subscribed"
  /\ watcher' = [watcher EXCEPT ![c] = "connecting"]
  /\ arrived' = arrived \ {c}
  /\ UNCHANGED <<config, listenerActive, client, holder, requests, history,
                 collected, registered, loops, emitted>>

\* Slip: what confirm_event says is ignored.
TakenAsItIs(c) == TRUE

\* The log of a request chain goes through confirm_event, which marks it removed
\* when a reorg has taken its transaction; the common chain's log is taken as it is.
Confirmed(c) == c = Common \/ c \in emitted

HandleLog(c) ==
  /\ watcher[c] = "subscribed" /\ c \in arrived
  /\ arrived' = arrived \ {c}
  /\ watcher' = IF Confirmed(c) THEN [watcher EXCEPT ![c] = "done"] ELSE watcher
  /\ UNCHANGED <<config, listenerActive, client, holder, requests, history,
                 collected, registered, loops, emitted>>

\* Slip: only the common chain's message ends the wait.
CollectEndsAtCommon(c) ==
  /\ watcher[c] = "done" /\ c \notin collected /\ ~registered
  /\ collected' = collected \union {c}
  /\ registered' = (c = Common /\ Listening \subseteq collected')
  /\ loops' = IF registered' THEN Listening ELSE loops
  /\ UNCHANGED <<config, listenerActive, client, holder, requests, history,
                 watcher, arrived, emitted>>

\* One message of a task; with the last one the gateway is registered, and run()
\* starts the event loops of all chains and the other components.
Collect(c) ==
  /\ watcher[c] = "done" /\ c \notin collected /\ ~registered
  /\ collected' = collected \union {c}
  /\ registered' = (Listening \subseteq collected')
  /\ loops' = IF registered' THEN Listening ELSE loops
  /\ UNCHANGED <<config, listenerActive, client, holder, requests, history,
                 watcher, arrived, emitted>>
-----------------------------------------------------------------------------
(* The chains: a signed message is used to register.                        *)

\* The filter of a watcher asks for the client's owner.
Register(c) ==
  /\ c \notin emitted
  /\ \E m \in signed :
       /\ c \in Watched(m.chains)
       /\ arrived' = IF watcher[c] = "subscribed" /\ m.owner = client.owner
                       THEN arrived \union {c} ELSE arrived
  /\ emitted' = emitted \union {c}
  /\ UNCHANGED <<config, listenerActive, client, holder, requests, history,
                 watcher, collected, registered, loops>>

\* A reorg takes an event that confirm_event has not handed on.
Reorg(c) ==
  /\ Faults /\ c \in emitted /\ c # Common /\ watcher[c] # "done"
  /\ emitted' = emitted \ {c}
  /\ UNCHANGED <<config, listenerActive, client, holder, requests, history,
                 watcher, arrived, collected, registered, loops>>

RequestStep(r) ==
  \/ InjectImmutable(r) \/ SetOwner(r)
  \/ InjectMutable(r) \/ MutableClient(r) \/ Resign(r) \/ SetWallet(r)
  \/ Details(r) \/ DetailsFlag(r) \/ DetailsOwner(r) \/ DetailsWallet(r)
  \/ Export(r) \/ CompareIds(r) \/ CheckImmutable(r) \/ CheckMutable(r) \/ CheckWallet(r)
  \/ ReadOwner(r) \/ Fetch(r) \/ TakeWallet(r) \/ TakeIds(r) \/ TakeListener(r)
  \/ StartListener(r)

ListenerStep(c) == Subscribe(c) \/ HandleLog(c) \/ Collect(c)

Next ==
  \/ \E r \in Requests : Arrive(r) \/ RequestStep(r)
  \/ \E c \in AllChains : ListenerStep(c) \/ Drop(c) \/ Register(c) \/ Reorg(c)

Spec == Init /\ [][Next]_vars

\* The runtime runs every ready task of the listener.
FairSpec == Spec /\ \A c \in AllChains : WF_vars(ListenerStep(c))
-----------------------------------------------------------------------------
(* Properties.                                                              *)

\* Every variable has its type; no request is stuck at an unwrap of the wallet.
TypeOK ==
  /\ owner \in Owners \union {None} /\ wallet \in Wallets \union {None}
  /\ chainIds \subseteq Chains
  /\ immutableInjected \in BOOLEAN /\ mutableInjected \in BOOLEAN
  /\ listenerActive \in BOOLEAN /\ registered \in BOOLEAN
  /\ client \in Clients \union {None}
  /\ holder \in [Locks -> Requests \union {None}]
  /\ pc \in [Requests -> Pcs]
  /\ arg \in [Requests -> Arguments]
  /\ seen \in [Requests -> [owner : Owners \union {None}, wallet : Wallets \union {None}]]
  /\ watcher \in [AllChains -> {"off", "connecting", "subscribed", "done", "panicked"}]
  /\ arrived \subseteq AllChains /\ collected \subseteq AllChains
  /\ loops \subseteq AllChains /\ emitted \subseteq AllChains
  /\ signed \subseteq [owner : Owners, chains : SUBSET Chains]
  /\ listeners \in Nat
  /\ \A r \in Requests : pc[r] \in {"detailsWallet", "takeWallet"} => wallet # None

\* Whatever injections and exports overlap, the contract instances all sign with the
\* wallet of AppState whenever nobody is changing it: none is built or left with a
\* wallet that an injection has replaced (wallet_guard in inject_mutable_config and
\* export_signed_registration_message).
SignersFollowWallet ==
  client # None /\ holder["wallet"] = None =>
    \A c \in DOMAIN client.signer : client.signer[c] = wallet

\* All the messages that are ever signed name one owner and one set of chains, the
\* injected ones, for which one listener waits, however many exports find the flag
\* unset at the same time: no owner can register with a message that the gateway would
\* not recognise (the comparisons of request_chain_ids, the owner that is read before
\* the chains are asked, registration_events_listener_active).
OneIdentity ==
  /\ client # None => client.owner = owner /\ client.chains = chainIds
  /\ \A m \in signed :
       client # None /\ m = [owner |-> client.owner, chains |-> client.chains]
  /\ listeners = IF client = None THEN 0 ELSE 1

\* Request r waits for a lock that q holds.
WaitsFor(r, q) == \E l \in Locks : pc[r] \in WaitsAt[l] /\ holder[l] = q

\* No requests wait for each other in a circle: in every group of requests one is
\* not waiting for any of the group (the guards of the four handlers of api_impl.rs).
NoCircularWait ==
  \A group \in (SUBSET Requests) \ {{}} :
    \E r \in group : \A q \in group : ~WaitsFor(r, q)

\* The gateway calls itself registered only when its registration is on the common
\* chain and on every request chain, where no reorg takes it back; then it listens
\* to all of them (wait_for_registration, run).
RegisteredEverywhere ==
  registered => Listening \subseteq emitted /\ loops = Listening

\* A chain whose registration the listener cannot hear of (any more): its task has
\* panicked, or the event fell between two subscriptions, or a reorg took it.
Lost(c) ==
  \/ watcher[c] = "panicked"
  \/ c \notin emitted
  \/ watcher[c] # "done" /\ c \notin arrived

\* Once the owner has registered everywhere the gateway starts, unless a chain's
\* event is lost to its watcher (wait_for_registration).
StartsOrIsLost ==
  (Listening # {} /\ Listening \subseteq emitted)
    ~> (registered \/ \E c \in Listening : Lost(c))
=============================================================================
