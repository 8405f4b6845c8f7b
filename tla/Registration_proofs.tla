-------------------------- MODULE Registration_proofs --------------------------
(***************************************************************************)
(* Proofs about Registration, for any number of requests, any owners,      *)
(* wallets and chains, and whatever fails.                                 *)
(***************************************************************************)
EXTENDS Registration, TLAPS

\* The points at which a request holds each lock.
HeldAt ==
  [immutable |-> {"setOwner"},
   owner     |-> {"detailsWallet"},
   wallet    |-> {"mutableClient", "resign", "takeIds", "takeListener", "takeClient"},
   chainIds  |-> {"takeListener", "takeClient"},
   listener  |-> {"takeClient"},
   client    |-> {"resign"}]

\* A lock's holder is the request that is at one of these points.
LockInv ==
  /\ holder \in [Locks -> Requests \union {None}]
  /\ pc \in [Requests -> Pcs]
  /\ \A l \in Locks : \A r \in Requests : holder[l] = r <=> pc[r] \in HeldAt[l]

\* The points of the export after a check that it has passed.
AfterIds == {"checkImmutable", "checkMutable", "checkWallet", "readOwner", "fetch",
             "takeWallet", "takeIds", "takeListener", "takeClient"}
AfterImmutable == {"checkMutable", "checkWallet", "readOwner", "fetch", "takeWallet",
                   "takeIds", "takeListener", "takeClient"}
AfterWallet == {"readOwner", "fetch", "takeWallet", "takeIds", "takeListener", "takeClient"}
AfterOwner == {"fetch", "takeWallet", "takeIds", "takeListener", "takeClient"}
Building == {"takeIds", "takeListener", "takeClient"}

\* What a request's argument is.
ArgInv ==
  /\ arg \in [Requests -> Arguments]
  /\ \A r \in Requests :
       /\ pc[r] \in {"immutable", "setOwner"} => arg[r] \in Owners
       /\ pc[r] \in {"mutable", "mutableClient", "resign"} => arg[r] \in Wallets
       /\ pc[r] = "export" => arg[r] \in IdSets
       /\ pc[r] \in {"compareIds"} \union AfterIds => arg[r] \in IdSets \ {{}}

\* What the flags say, and that a request has seen values that still hold.
ConfigInv ==
  /\ owner \in Owners \union {None} /\ wallet \in Wallets \union {None}
  /\ immutableInjected \in BOOLEAN /\ mutableInjected \in BOOLEAN
  /\ seen \in [Requests -> [owner : Owners \union {None}, wallet : Wallets \union {None}]]
  /\ immutableInjected => owner # None
  /\ mutableInjected => wallet # None
  /\ \A r \in Requests :
       /\ pc[r] = "setOwner" => ~immutableInjected
       /\ pc[r] \in AfterImmutable => immutableInjected
       /\ pc[r] \in AfterWallet \union {"detailsOwner", "detailsWallet"} => wallet # None
       /\ pc[r] \in AfterOwner => seen[r].owner = owner
       /\ pc[r] \in Building => seen[r].wallet = wallet

\* The client, if there is one, is what the configuration says.
ClientInv ==
  /\ client \in Clients \union {None}
  /\ chainIds \subseteq Chains
  /\ signed \subseteq [owner : Owners, chains : SUBSET Chains]
  /\ listenerActive = (client # None)
  /\ listeners = IF client = None THEN 0 ELSE 1
  /\ client # None =>
       /\ immutableInjected /\ chainIds # {}
       /\ client.owner = owner /\ client.chains = chainIds
       /\ DOMAIN client.signer = Watched(client.chains)
  /\ \A m \in signed : client # None /\ m = [owner |-> client.owner, chains |-> client.chains]
  /\ \A r \in Requests :
       /\ pc[r] \in {"takeListener", "takeClient"} => chainIds = arg[r]
       /\ pc[r] = "takeClient" => client = None

\* The signers are the wallet's, unless an injection is changing them.
SignerInv ==
  client # None /\ (\A r \in Requests : pc[r] # "resign") =>
    \A c \in DOMAIN client.signer : client.signer[c] = wallet

\* The listener's tasks against the chains.
StartInv ==
  /\ watcher \in [AllChains -> {"off", "connecting", "subscribed", "done", "panicked"}]
  /\ arrived \subseteq AllChains /\ collected \subseteq AllChains
  /\ loops \subseteq AllChains /\ emitted \subseteq AllChains
  /\ registered \in BOOLEAN
  /\ client = None =>
       (\A c \in AllChains : watcher[c] = "off") /\ collected = {} /\ ~registered
  /\ Common \in arrived => Common \in emitted
  /\ \A c \in AllChains : watcher[c] = "done" => c \in emitted
  /\ \A c \in collected : watcher[c] = "done"
  /\ registered => Listening \subseteq collected /\ loops = Listening

\* The sets of labels, written out.
LEMMA Labels ==
  /\ Pcs = {"immutable", "details", "checkImmutable", "setOwner", "detailsOwner",
            "readOwner", "mutable", "detailsWallet", "checkWallet", "takeWallet",
            "compareIds", "takeIds", "takeListener", "mutableClient", "takeClient",
            "export", "idle", "resign", "detailsFlag", "checkMutable", "fetch"}
  /\ WaitsAt["immutable"] = {"immutable", "details", "checkImmutable"}
  /\ WaitsAt["owner"] = {"setOwner", "detailsOwner", "readOwner"}
  /\ WaitsAt["wallet"] = {"mutable", "detailsWallet", "checkWallet", "takeWallet"}
  /\ WaitsAt["chainIds"] = {"compareIds", "takeIds"}
  /\ WaitsAt["listener"] = {"takeListener"}
  /\ WaitsAt["client"] = {"mutableClient", "takeClient"}
<1>1. WaitsAt["immutable"] = {"immutable", "details", "checkImmutable"}
  BY DEF WaitsAt
<1>2. WaitsAt["owner"] = {"setOwner", "detailsOwner", "readOwner"}
  BY DEF WaitsAt
<1>3. WaitsAt["wallet"] = {"mutable", "detailsWallet", "checkWallet", "takeWallet"}
  BY DEF WaitsAt
<1>4. WaitsAt["chainIds"] = {"compareIds", "takeIds"} /\ WaitsAt["listener"] = {"takeListener"}
  BY DEF WaitsAt
<1>5. WaitsAt["client"] = {"mutableClient", "takeClient"}
  BY DEF WaitsAt
<1>6. (UNION {WaitsAt[l] : l \in Locks})
        = WaitsAt["immutable"] \union WaitsAt["owner"] \union WaitsAt["wallet"]
          \union WaitsAt["chainIds"] \union WaitsAt["listener"] \union WaitsAt["client"]
  BY DEF Locks
<1>. QED
  BY <1>1, <1>2, <1>3, <1>4, <1>5, <1>6 DEF Pcs, EntryPcs

LEMMA Holds ==
  /\ HeldAt["immutable"] = {"setOwner"}
  /\ HeldAt["owner"] = {"detailsWallet"}
  /\ HeldAt["wallet"] = {"mutableClient", "resign", "takeIds", "takeListener", "takeClient"}
  /\ HeldAt["chainIds"] = {"takeListener", "takeClient"}
  /\ HeldAt["listener"] = {"takeClient"}
  /\ HeldAt["client"] = {"resign"}
BY DEF HeldAt

\* None is neither a request nor a value, nor a client.
LEMMA Nothing == None \notin Owners /\ None \notin Wallets /\ None \notin Requests
BY RegistrationAssumption

LEMMA NoneIsNoClient == None \notin Clients
BY RegistrationAssumption


\* A step takes and drops the locks that belong to its place.
LEMMA LockInvStep ==
  ASSUME LockInv, [Next]_vars
  PROVE  LockInv'
<1>1. ASSUME NEW r \in Requests, Arrive(r) PROVE LockInv'
  BY <1>1, Nothing, Labels, Holds DEF Arrive, LockInv, At, Goto, Keep, Glance, Reply, Check, Locks, EntryPcs, requests
<1>2. ASSUME NEW r \in Requests, InjectImmutable(r) PROVE LockInv'
  BY <1>2, Nothing, Labels, Holds DEF InjectImmutable, LockInv, At, Goto, Keep, Glance, Reply, Check, Locks, EntryPcs, requests
<1>3. ASSUME NEW r \in Requests, SetOwner(r) PROVE LockInv'
  BY <1>3, Nothing, Labels, Holds DEF SetOwner, LockInv, At, Goto, Keep, Glance, Reply, Check, Locks, EntryPcs, requests
<1>4. ASSUME NEW r \in Requests, InjectMutable(r) PROVE LockInv'
  BY <1>4, Nothing, Labels, Holds DEF InjectMutable, LockInv, At, Goto, Keep, Glance, Reply, Check, Locks, EntryPcs, requests
<1>5. ASSUME NEW r \in Requests, MutableClient(r) PROVE LockInv'
  BY <1>5, Nothing, Labels, Holds DEF MutableClient, LockInv, At, Goto, Keep, Glance, Reply, Check, Locks, EntryPcs, requests
<1>6. ASSUME NEW r \in Requests, Resign(r) PROVE LockInv'
  BY <1>6, Nothing, Labels, Holds DEF Resign, LockInv, At, Goto, Keep, Glance, Reply, Check, Locks, EntryPcs, requests
<1>7. ASSUME NEW r \in Requests, SetWallet(r) PROVE LockInv'
  BY <1>7, Nothing, Labels, Holds DEF SetWallet, LockInv, At, Goto, Keep, Glance, Reply, Check, Locks, EntryPcs, requests
<1>8. ASSUME NEW r \in Requests, Details(r) PROVE LockInv'
  BY <1>8, Nothing, Labels, Holds DEF Details, LockInv, At, Goto, Keep, Glance, Reply, Check, Locks, EntryPcs, requests
<1>9. ASSUME NEW r \in Requests, DetailsFlag(r) PROVE LockInv'
  BY <1>9, Nothing, Labels, Holds DEF DetailsFlag, LockInv, At, Goto, Keep, Glance, Reply, Check, Locks, EntryPcs, requests
<1>10. ASSUME NEW r \in Requests, DetailsOwner(r) PROVE LockInv'
  BY <1>10, Nothing, Labels, Holds DEF DetailsOwner, LockInv, At, Goto, Keep, Glance, Reply, Check, Locks, EntryPcs, requests
<1>11. ASSUME NEW r \in Requests, DetailsWallet(r) PROVE LockInv'
  BY <1>11, Nothing, Labels, Holds DEF DetailsWallet, LockInv, At, Goto, Keep, Glance, Reply, Check, Locks, EntryPcs, requests
<1>12. ASSUME NEW r \in Requests, Export(r) PROVE LockInv'
  BY <1>12, Nothing, Labels, Holds DEF Export, LockInv, At, Goto, Keep, Glance, Reply, Check, Locks, EntryPcs, requests
<1>13. ASSUME NEW r \in Requests, CompareIds(r) PROVE LockInv'
  BY <1>13, Nothing, Labels, Holds DEF CompareIds, LockInv, At, Goto, Keep, Glance, Reply, Check, Locks, EntryPcs, requests
<1>14. ASSUME NEW r \in Requests, CheckImmutable(r) PROVE LockInv'
  BY <1>14, Nothing, Labels, Holds DEF CheckImmutable, LockInv, At, Goto, Keep, Glance, Reply, Check, Locks, EntryPcs, requests
<1>15. ASSUME NEW r \in Requests, CheckMutable(r) PROVE LockInv'
  BY <1>15, Nothing, Labels, Holds DEF CheckMutable, LockInv, At, Goto, Keep, Glance, Reply, Check, Locks, EntryPcs, requests
<1>16. ASSUME NEW r \in Requests, CheckWallet(r) PROVE LockInv'
  BY <1>16, Nothing, Labels, Holds DEF CheckWallet, LockInv, At, Goto, Keep, Glance, Reply, Check, Locks, EntryPcs, requests
<1>17. ASSUME NEW r \in Requests, ReadOwner(r) PROVE LockInv'
  BY <1>17, Nothing, Labels, Holds DEF ReadOwner, LockInv, At, Goto, Keep, Glance, Reply, Check, Locks, EntryPcs, requests
<1>18. ASSUME NEW r \in Requests, Fetch(r) PROVE LockInv'
  BY <1>18, Nothing, Labels, Holds DEF Fetch, LockInv, At, Goto, Keep, Glance, Reply, Check, Locks, EntryPcs, requests
<1>19. ASSUME NEW r \in Requests, TakeWallet(r) PROVE LockInv'
  BY <1>19, Nothing, Labels, Holds DEF TakeWallet, LockInv, At, Goto, Keep, Glance, Reply, Check, Locks, EntryPcs, requests
<1>20. ASSUME NEW r \in Requests, TakeIds(r) PROVE LockInv'
  BY <1>20, Nothing, Labels, Holds DEF TakeIds, LockInv, At, Goto, Keep, Glance, Reply, Check, Locks, EntryPcs, requests
<1>21. ASSUME NEW r \in Requests, TakeListener(r) PROVE LockInv'
  BY <1>21, Nothing, Labels, Holds DEF TakeListener, LockInv, At, Goto, Keep, Glance, Reply, Check, Locks, EntryPcs, requests
<1>22. ASSUME NEW r \in Requests, StartListener(r) PROVE LockInv'
  BY <1>22, Nothing, Labels, Holds DEF StartListener, LockInv, At, Goto, Keep, Glance, Reply, Check, Locks, EntryPcs, requests
<1>23. ASSUME NEW c \in AllChains, Subscribe(c) PROVE LockInv'
  BY <1>23, Nothing, Labels, Holds DEF Subscribe, LockInv, At, Goto, Keep, Glance, Reply, Check, Locks, EntryPcs, requests
<1>24. ASSUME NEW c \in AllChains, HandleLog(c) PROVE LockInv'
  BY <1>24, Nothing, Labels, Holds DEF HandleLog, LockInv, At, Goto, Keep, Glance, Reply, Check, Locks, EntryPcs, requests
<1>25. ASSUME NEW c \in AllChains, Collect(c) PROVE LockInv'
  BY <1>25, Nothing, Labels, Holds DEF Collect, LockInv, At, Goto, Keep, Glance, Reply, Check, Locks, EntryPcs, requests
<1>26. ASSUME NEW c \in AllChains, Drop(c) PROVE LockInv'
  BY <1>26, Nothing, Labels, Holds DEF Drop, LockInv, At, Goto, Keep, Glance, Reply, Check, Locks, EntryPcs, requests
<1>27. ASSUME NEW c \in AllChains, Register(c) PROVE LockInv'
  BY <1>27, Nothing, Labels, Holds DEF Register, LockInv, At, Goto, Keep, Glance, Reply, Check, Locks, EntryPcs, requests
<1>28. ASSUME NEW c \in AllChains, Reorg(c) PROVE LockInv'
  BY <1>28, Nothing, Labels, Holds DEF Reorg, LockInv, At, Goto, Keep, Glance, Reply, Check, Locks, EntryPcs, requests
<1>29. CASE UNCHANGED vars
  BY <1>29 DEF vars, config, requests, start, history, LockInv
<1>. QED
  BY <1>1, <1>2, <1>3, <1>4, <1>5, <1>6, <1>7, <1>8, <1>9, <1>10, <1>11, <1>12, <1>13, <1>14, <1>15, <1>16, <1>17, <1>18, <1>19, <1>20, <1>21, <1>22, <1>23, <1>24, <1>25, <1>26, <1>27, <1>28, <1>29 DEF Next, RequestStep, ListenerStep

\* A request keeps its argument until it is answered, and has checked it.
LEMMA ArgInvStep ==
  ASSUME LockInv, ArgInv, [Next]_vars
  PROVE  ArgInv'
<1>1. ASSUME NEW r \in Requests, Arrive(r) PROVE ArgInv'
  BY <1>1 DEF Arrive, LockInv, ArgInv, At, Goto, Glance, Reply, Check, requests, AfterIds, Arguments, EntryPcs, ArgumentsOf
<1>2. ASSUME NEW r \in Requests, InjectImmutable(r) PROVE ArgInv'
  BY <1>2 DEF InjectImmutable, LockInv, ArgInv, At, Goto, Glance, Reply, Check, requests, AfterIds, Arguments, EntryPcs, ArgumentsOf
<1>3. ASSUME NEW r \in Requests, SetOwner(r) PROVE ArgInv'
  BY <1>3 DEF SetOwner, LockInv, ArgInv, At, Goto, Glance, Reply, Check, requests, AfterIds, Arguments, EntryPcs, ArgumentsOf
<1>4. ASSUME NEW r \in Requests, InjectMutable(r) PROVE ArgInv'
  BY <1>4 DEF InjectMutable, LockInv, ArgInv, At, Goto, Glance, Reply, Check, requests, AfterIds, Arguments, EntryPcs, ArgumentsOf
<1>5. ASSUME NEW r \in Requests, MutableClient(r) PROVE ArgInv'
  BY <1>5 DEF MutableClient, LockInv, ArgInv, At, Goto, Glance, Reply, Check, requests, AfterIds, Arguments, EntryPcs, ArgumentsOf
<1>6. ASSUME NEW r \in Requests, Resign(r) PROVE ArgInv'
  BY <1>6 DEF Resign, LockInv, ArgInv, At, Goto, Glance, Reply, Check, requests, AfterIds, Arguments, EntryPcs, ArgumentsOf
<1>7. ASSUME NEW r \in Requests, SetWallet(r) PROVE ArgInv'
  BY <1>7 DEF SetWallet, LockInv, ArgInv, At, Goto, Glance, Reply, Check, requests, AfterIds, Arguments, EntryPcs, ArgumentsOf
<1>8. ASSUME NEW r \in Requests, Details(r) PROVE ArgInv'
  BY <1>8 DEF Details, LockInv, ArgInv, At, Goto, Glance, Reply, Check, requests, AfterIds, Arguments, EntryPcs, ArgumentsOf
<1>9. ASSUME NEW r \in Requests, DetailsFlag(r) PROVE ArgInv'
  BY <1>9 DEF DetailsFlag, LockInv, ArgInv, At, Goto, Glance, Reply, Check, requests, AfterIds, Arguments, EntryPcs, ArgumentsOf
<1>10. ASSUME NEW r \in Requests, DetailsOwner(r) PROVE ArgInv'
  BY <1>10 DEF DetailsOwner, LockInv, ArgInv, At, Goto, Glance, Reply, Check, requests, AfterIds, Arguments, EntryPcs, ArgumentsOf
<1>11. ASSUME NEW r \in Requests, DetailsWallet(r) PROVE ArgInv'
  BY <1>11 DEF DetailsWallet, LockInv, ArgInv, At, Goto, Glance, Reply, Check, requests, AfterIds, Arguments, EntryPcs, ArgumentsOf
<1>12. ASSUME NEW r \in Requests, Export(r) PROVE ArgInv'
  BY <1>12 DEF Export, LockInv, ArgInv, At, Goto, Glance, Reply, Check, requests, AfterIds, Arguments, EntryPcs, ArgumentsOf
<1>13. ASSUME NEW r \in Requests, CompareIds(r) PROVE ArgInv'
  BY <1>13 DEF CompareIds, LockInv, ArgInv, At, Goto, Glance, Reply, Check, requests, AfterIds, Arguments, EntryPcs, ArgumentsOf
<1>14. ASSUME NEW r \in Requests, CheckImmutable(r) PROVE ArgInv'
  BY <1>14 DEF CheckImmutable, LockInv, ArgInv, At, Goto, Glance, Reply, Check, requests, AfterIds, Arguments, EntryPcs, ArgumentsOf
<1>15. ASSUME NEW r \in Requests, CheckMutable(r) PROVE ArgInv'
  BY <1>15 DEF CheckMutable, LockInv, ArgInv, At, Goto, Glance, Reply, Check, requests, AfterIds, Arguments, EntryPcs, ArgumentsOf
<1>16. ASSUME NEW r \in Requests, CheckWallet(r) PROVE ArgInv'
  BY <1>16 DEF CheckWallet, LockInv, ArgInv, At, Goto, Glance, Reply, Check, requests, AfterIds, Arguments, EntryPcs, ArgumentsOf
<1>17. ASSUME NEW r \in Requests, ReadOwner(r) PROVE ArgInv'
  BY <1>17 DEF ReadOwner, LockInv, ArgInv, At, Goto, Glance, Reply, Check, requests, AfterIds, Arguments, EntryPcs, ArgumentsOf
<1>18. ASSUME NEW r \in Requests, Fetch(r) PROVE ArgInv'
  BY <1>18 DEF Fetch, LockInv, ArgInv, At, Goto, Glance, Reply, Check, requests, AfterIds, Arguments, EntryPcs, ArgumentsOf
<1>19. ASSUME NEW r \in Requests, TakeWallet(r) PROVE ArgInv'
  BY <1>19 DEF TakeWallet, LockInv, ArgInv, At, Goto, Glance, Reply, Check, requests, AfterIds, Arguments, EntryPcs, ArgumentsOf
<1>20. ASSUME NEW r \in Requests, TakeIds(r) PROVE ArgInv'
  BY <1>20 DEF TakeIds, LockInv, ArgInv, At, Goto, Glance, Reply, Check, requests, AfterIds, Arguments, EntryPcs, ArgumentsOf
<1>21. ASSUME NEW r \in Requests, TakeListener(r) PROVE ArgInv'
  BY <1>21 DEF TakeListener, LockInv, ArgInv, At, Goto, Glance, Reply, Check, requests, AfterIds, Arguments, EntryPcs, ArgumentsOf
<1>22. ASSUME NEW r \in Requests, StartListener(r) PROVE ArgInv'
  BY <1>22 DEF StartListener, LockInv, ArgInv, At, Goto, Glance, Reply, Check, requests, AfterIds, Arguments, EntryPcs, ArgumentsOf
<1>23. ASSUME NEW c \in AllChains, Subscribe(c) PROVE ArgInv'
  BY <1>23 DEF Subscribe, LockInv, ArgInv, At, Goto, Glance, Reply, Check, requests, AfterIds, Arguments, EntryPcs, ArgumentsOf
<1>24. ASSUME NEW c \in AllChains, HandleLog(c) PROVE ArgInv'
  BY <1>24 DEF HandleLog, LockInv, ArgInv, At, Goto, Glance, Reply, Check, requests, AfterIds, Arguments, EntryPcs, ArgumentsOf
<1>25. ASSUME NEW c \in AllChains, Collect(c) PROVE ArgInv'
  BY <1>25 DEF Collect, LockInv, ArgInv, At, Goto, Glance, Reply, Check, requests, AfterIds, Arguments, EntryPcs, ArgumentsOf
<1>26. ASSUME NEW c \in AllChains, Drop(c) PROVE ArgInv'
  BY <1>26 DEF Drop, LockInv, ArgInv, At, Goto, Glance, Reply, Check, requests, AfterIds, Arguments, EntryPcs, ArgumentsOf
<1>27. ASSUME NEW c \in AllChains, Register(c) PROVE ArgInv'
  BY <1>27 DEF Register, LockInv, ArgInv, At, Goto, Glance, Reply, Check, requests, AfterIds, Arguments, EntryPcs, ArgumentsOf
<1>28. ASSUME NEW c \in AllChains, Reorg(c) PROVE ArgInv'
  BY <1>28 DEF Reorg, LockInv, ArgInv, At, Goto, Glance, Reply, Check, requests, AfterIds, Arguments, EntryPcs, ArgumentsOf
<1>29. CASE UNCHANGED vars
  BY <1>29 DEF vars, config, requests, start, history, ArgInv
<1>. QED
  BY <1>1, <1>2, <1>3, <1>4, <1>5, <1>6, <1>7, <1>8, <1>9, <1>10, <1>11, <1>12, <1>13, <1>14, <1>15, <1>16, <1>17, <1>18, <1>19, <1>20, <1>21, <1>22, <1>23, <1>24, <1>25, <1>26, <1>27, <1>28, <1>29 DEF Next, RequestStep, ListenerStep

\* Flags are raised with their values; the owner and the wallet that a request has
\* read are not changed behind its back.
LEMMA ConfigInvStep ==
  ASSUME LockInv, ArgInv, ConfigInv, [Next]_vars
  PROVE  ConfigInv'
<1>1. ASSUME NEW r \in Requests, Arrive(r) PROVE ConfigInv'
  BY <1>1, Nothing, Labels, Holds DEF Arrive, LockInv, ArgInv, ConfigInv, At, Goto, Glance, Reply, Check, Locks, requests, config, EntryPcs, NothingSeen, AfterIds, AfterImmutable, AfterWallet, AfterOwner, Building
<1>2. ASSUME NEW r \in Requests, InjectImmutable(r) PROVE ConfigInv'
  <2>1. UNCHANGED config /\ pc[r] = "immutable"
    BY <1>2 DEF InjectImmutable, At
  <2>2. CASE immutableInjected
    BY <1>2, <2>1, <2>2 DEF InjectImmutable, Reply, ConfigInv, LockInv, config, NothingSeen,
          AfterImmutable, AfterWallet, AfterOwner, Building
  <2>3. CASE ~immutableInjected
    BY <1>2, <2>1, <2>3 DEF InjectImmutable, Goto, ConfigInv, LockInv, config,
          AfterImmutable, AfterWallet, AfterOwner, Building
  <2>. QED
    BY <2>2, <2>3
<1>3. ASSUME NEW r \in Requests, SetOwner(r) PROVE ConfigInv'
  BY <1>3, Nothing, Labels, Holds DEF SetOwner, LockInv, ArgInv, ConfigInv, At, Goto, Glance, Reply, Check, Locks, requests, config, EntryPcs, NothingSeen, AfterIds, AfterImmutable, AfterWallet, AfterOwner, Building
<1>4. ASSUME NEW r \in Requests, InjectMutable(r) PROVE ConfigInv'
  BY <1>4, Nothing, Labels, Holds DEF InjectMutable, LockInv, ArgInv, ConfigInv, At, Goto, Glance, Reply, Check, Locks, requests, config, EntryPcs, NothingSeen, AfterIds, AfterImmutable, AfterWallet, AfterOwner, Building
<1>5. ASSUME NEW r \in Requests, MutableClient(r) PROVE ConfigInv'
  BY <1>5, Nothing, Labels, Holds DEF MutableClient, LockInv, ArgInv, ConfigInv, At, Goto, Glance, Reply, Check, Locks, requests, config, EntryPcs, NothingSeen, AfterIds, AfterImmutable, AfterWallet, AfterOwner, Building
<1>6. ASSUME NEW r \in Requests, Resign(r) PROVE ConfigInv'
  BY <1>6, Nothing, Labels, Holds DEF Resign, LockInv, ArgInv, ConfigInv, At, Goto, Glance, Reply, Check, Locks, requests, config, EntryPcs, NothingSeen, AfterIds, AfterImmutable, AfterWallet, AfterOwner, Building
<1>7. ASSUME NEW r \in Requests, SetWallet(r) PROVE ConfigInv'
  BY <1>7, Nothing, Labels, Holds DEF SetWallet, LockInv, ArgInv, ConfigInv, At, Goto, Glance, Reply, Check, Locks, requests, config, EntryPcs, NothingSeen, AfterIds, AfterImmutable, AfterWallet, AfterOwner, Building
<1>8. ASSUME NEW r \in Requests, Details(r) PROVE ConfigInv'
  BY <1>8, Nothing, Labels, Holds DEF Details, LockInv, ArgInv, ConfigInv, At, Goto, Glance, Reply, Check, Locks, requests, config, EntryPcs, NothingSeen, AfterIds, AfterImmutable, AfterWallet, AfterOwner, Building
<1>9. ASSUME NEW r \in Requests, DetailsFlag(r) PROVE ConfigInv'
  BY <1>9, Nothing, Labels, Holds DEF DetailsFlag, LockInv, ArgInv, ConfigInv, At, Goto, Glance, Reply, Check, Locks, requests, config, EntryPcs, NothingSeen, AfterIds, AfterImmutable, AfterWallet, AfterOwner, Building
<1>10. ASSUME NEW r \in Requests, DetailsOwner(r) PROVE ConfigInv'
  BY <1>10, Nothing, Labels, Holds DEF DetailsOwner, LockInv, ArgInv, ConfigInv, At, Goto, Glance, Reply, Check, Locks, requests, config, EntryPcs, NothingSeen, AfterIds, AfterImmutable, AfterWallet, AfterOwner, Building
<1>11. ASSUME NEW r \in Requests, DetailsWallet(r) PROVE ConfigInv'
  BY <1>11, Nothing, Labels, Holds DEF DetailsWallet, LockInv, ArgInv, ConfigInv, At, Goto, Glance, Reply, Check, Locks, requests, config, EntryPcs, NothingSeen, AfterIds, AfterImmutable, AfterWallet, AfterOwner, Building
<1>12. ASSUME NEW r \in Requests, Export(r) PROVE ConfigInv'
  BY <1>12, Nothing, Labels, Holds DEF Export, LockInv, ArgInv, ConfigInv, At, Goto, Glance, Reply, Check, Locks, requests, config, EntryPcs, NothingSeen, AfterIds, AfterImmutable, AfterWallet, AfterOwner, Building
<1>13. ASSUME NEW r \in Requests, CompareIds(r) PROVE ConfigInv'
  BY <1>13, Nothing, Labels, Holds DEF CompareIds, LockInv, ArgInv, ConfigInv, At, Goto, Glance, Reply, Check, Locks, requests, config, EntryPcs, NothingSeen, AfterIds, AfterImmutable, AfterWallet, AfterOwner, Building
<1>14. ASSUME NEW r \in Requests, CheckImmutable(r) PROVE ConfigInv'
  BY <1>14, Nothing, Labels, Holds DEF CheckImmutable, LockInv, ArgInv, ConfigInv, At, Goto, Glance, Reply, Check, Locks, requests, config, EntryPcs, NothingSeen, AfterIds, AfterImmutable, AfterWallet, AfterOwner, Building
<1>15. ASSUME NEW r \in Requests, CheckMutable(r) PROVE ConfigInv'
  BY <1>15, Nothing, Labels, Holds DEF CheckMutable, LockInv, ArgInv, ConfigInv, At, Goto, Glance, Reply, Check, Locks, requests, config, EntryPcs, NothingSeen, AfterIds, AfterImmutable, AfterWallet, AfterOwner, Building
<1>16. ASSUME NEW r \in Requests, CheckWallet(r) PROVE ConfigInv'
  BY <1>16, Nothing, Labels, Holds DEF CheckWallet, LockInv, ArgInv, ConfigInv, At, Goto, Glance, Reply, Check, Locks, requests, config, EntryPcs, NothingSeen, AfterIds, AfterImmutable, AfterWallet, AfterOwner, Building
<1>17. ASSUME NEW r \in Requests, ReadOwner(r) PROVE ConfigInv'
  BY <1>17, Nothing, Labels, Holds DEF ReadOwner, LockInv, ArgInv, ConfigInv, At, Goto, Glance, Reply, Check, Locks, requests, config, EntryPcs, NothingSeen, AfterIds, AfterImmutable, AfterWallet, AfterOwner, Building
<1>18. ASSUME NEW r \in Requests, Fetch(r) PROVE ConfigInv'
  BY <1>18, Nothing, Labels, Holds DEF Fetch, LockInv, ArgInv, ConfigInv, At, Goto, Glance, Reply, Check, Locks, requests, config, EntryPcs, NothingSeen, AfterIds, AfterImmutable, AfterWallet, AfterOwner, Building
<1>19. ASSUME NEW r \in Requests, TakeWallet(r) PROVE ConfigInv'
  BY <1>19, Nothing, Labels, Holds DEF TakeWallet, LockInv, ArgInv, ConfigInv, At, Goto, Glance, Reply, Check, Locks, requests, config, EntryPcs, NothingSeen, AfterIds, AfterImmutable, AfterWallet, AfterOwner, Building
<1>20. ASSUME NEW r \in Requests, TakeIds(r) PROVE ConfigInv'
  BY <1>20, Nothing, Labels, Holds DEF TakeIds, LockInv, ArgInv, ConfigInv, At, Goto, Glance, Reply, Check, Locks, requests, config, EntryPcs, NothingSeen, AfterIds, AfterImmutable, AfterWallet, AfterOwner, Building
<1>21. ASSUME NEW r \in Requests, TakeListener(r) PROVE ConfigInv'
  BY <1>21, Nothing, Labels, Holds DEF TakeListener, LockInv, ArgInv, ConfigInv, At, Goto, Glance, Reply, Check, Locks, requests, config, EntryPcs, NothingSeen, AfterIds, AfterImmutable, AfterWallet, AfterOwner, Building
<1>22. ASSUME NEW r \in Requests, StartListener(r) PROVE ConfigInv'
  BY <1>22, Nothing, Labels, Holds DEF StartListener, LockInv, ArgInv, ConfigInv, At, Goto, Glance, Reply, Check, Locks, requests, config, EntryPcs, NothingSeen, AfterIds, AfterImmutable, AfterWallet, AfterOwner, Building
<1>23. ASSUME NEW c \in AllChains, Subscribe(c) PROVE ConfigInv'
  BY <1>23, Nothing, Labels, Holds DEF Subscribe, LockInv, ArgInv, ConfigInv, At, Goto, Glance, Reply, Check, Locks, requests, config, EntryPcs, NothingSeen, AfterIds, AfterImmutable, AfterWallet, AfterOwner, Building
<1>24. ASSUME NEW c \in AllChains, HandleLog(c) PROVE ConfigInv'
  BY <1>24, Nothing, Labels, Holds DEF HandleLog, LockInv, ArgInv, ConfigInv, At, Goto, Glance, Reply, Check, Locks, requests, config, EntryPcs, NothingSeen, AfterIds, AfterImmutable, AfterWallet, AfterOwner, Building
<1>25. ASSUME NEW c \in AllChains, Collect(c) PROVE ConfigInv'
  BY <1>25, Nothing, Labels, Holds DEF Collect, LockInv, ArgInv, ConfigInv, At, Goto, Glance, Reply, Check, Locks, requests, config, EntryPcs, NothingSeen, AfterIds, AfterImmutable, AfterWallet, AfterOwner, Building
<1>26. ASSUME NEW c \in AllChains, Drop(c) PROVE ConfigInv'
  BY <1>26, Nothing, Labels, Holds DEF Drop, LockInv, ArgInv, ConfigInv, At, Goto, Glance, Reply, Check, Locks, requests, config, EntryPcs, NothingSeen, AfterIds, AfterImmutable, AfterWallet, AfterOwner, Building
<1>27. ASSUME NEW c \in AllChains, Register(c) PROVE ConfigInv'
  BY <1>27, Nothing, Labels, Holds DEF Register, LockInv, ArgInv, ConfigInv, At, Goto, Glance, Reply, Check, Locks, requests, config, EntryPcs, NothingSeen, AfterIds, AfterImmutable, AfterWallet, AfterOwner, Building
<1>28. ASSUME NEW c \in AllChains, Reorg(c) PROVE ConfigInv'
  BY <1>28, Nothing, Labels, Holds DEF Reorg, LockInv, ArgInv, ConfigInv, At, Goto, Glance, Reply, Check, Locks, requests, config, EntryPcs, NothingSeen, AfterIds, AfterImmutable, AfterWallet, AfterOwner, Building
<1>29. CASE UNCHANGED vars
  BY <1>29 DEF vars, config, requests, start, history, ConfigInv
<1>. QED
  BY <1>1, <1>2, <1>3, <1>4, <1>5, <1>6, <1>7, <1>8, <1>9, <1>10, <1>11, <1>12, <1>13, <1>14, <1>15, <1>16, <1>17, <1>18, <1>19, <1>20, <1>21, <1>22, <1>23, <1>24, <1>25, <1>26, <1>27, <1>28, <1>29 DEF Next, RequestStep, ListenerStep

\* The client is built once, from what is configured.
LEMMA ClientInvStep ==
  ASSUME LockInv, ArgInv, ConfigInv, ClientInv, [Next]_vars
  PROVE  ClientInv'
<1>1. ASSUME NEW r \in Requests, Arrive(r) PROVE ClientInv'
  BY <1>1, Labels, Holds DEF Arrive, LockInv, ArgInv, ConfigInv, ClientInv, At, Goto, Glance, Reply, Check, Locks, requests, config, history, EntryPcs, SameIds, AfterIds
<1>2. ASSUME NEW r \in Requests, InjectImmutable(r) PROVE ClientInv'
  BY <1>2, Labels, Holds DEF InjectImmutable, LockInv, ArgInv, ConfigInv, ClientInv, At, Goto, Glance, Reply, Check, Locks, requests, config, history, EntryPcs, SameIds, AfterIds
<1>3. ASSUME NEW r \in Requests, SetOwner(r) PROVE ClientInv'
  BY <1>3, Labels, Holds DEF SetOwner, LockInv, ArgInv, ConfigInv, ClientInv, At, Goto, Glance, Reply, Check, Locks, requests, config, history, EntryPcs, SameIds, AfterIds
<1>4. ASSUME NEW r \in Requests, InjectMutable(r) PROVE ClientInv'
  BY <1>4, Labels, Holds DEF InjectMutable, LockInv, ArgInv, ConfigInv, ClientInv, At, Goto, Glance, Reply, Check, Locks, requests, config, history, EntryPcs, SameIds, AfterIds
<1>5. ASSUME NEW r \in Requests, MutableClient(r) PROVE ClientInv'
  BY <1>5, Labels, Holds DEF MutableClient, LockInv, ArgInv, ConfigInv, ClientInv, At, Goto, Glance, Reply, Check, Locks, requests, config, history, EntryPcs, SameIds, AfterIds
<1>6. ASSUME NEW r \in Requests, Resign(r) PROVE ClientInv'
  <2>1. pc[r] = "resign" /\ arg[r] \in Wallets
    BY <1>6 DEF Resign, ArgInv
  <2>2. PICK c \in ToResign(r) : client' = [client EXCEPT !.signer[c] = arg[r]]
    BY <1>6 DEF Resign
  <2>3. client # None /\ c \in DOMAIN client.signer
    BY DEF ToResign
  <2>4. PICK ids \in SUBSET Chains :
          client \in [owner : Owners, chains : SUBSET Chains, signer : [Watched(ids) -> Wallets]]
    BY <2>3 DEF ClientInv, Clients
  <2>5. /\ client'.owner = client.owner /\ client'.chains = client.chains
        /\ client'.signer = [client.signer EXCEPT ![c] = arg[r]]
        /\ client' = [owner |-> client'.owner, chains |-> client'.chains, signer |-> client'.signer]
    BY <2>2, <2>4
  <2>6. client'.signer \in [Watched(ids) -> Wallets] /\ DOMAIN client'.signer = DOMAIN client.signer
    BY <2>1, <2>3, <2>4, <2>5
  <2>7. client' \in Clients
    BY <2>4, <2>5, <2>6 DEF Clients
  <2>8. client' # None
    BY <2>5, <2>6, <2>3, NoneIsNoClient, <2>7
  <2>9. UNCHANGED <<chainIds, signed, listenerActive, listeners, immutableInjected, owner, arg, pc>>
    BY <1>6 DEF Resign, config, requests, history
  <2>. QED
    BY <2>1, <2>3, <2>5, <2>6, <2>7, <2>8, <2>9 DEF ClientInv
<1>7. ASSUME NEW r \in Requests, SetWallet(r) PROVE ClientInv'
  BY <1>7, Labels, Holds DEF SetWallet, LockInv, ArgInv, ConfigInv, ClientInv, At, Goto, Glance, Reply, Check, Locks, requests, config, history, EntryPcs, SameIds, AfterIds
<1>8. ASSUME NEW r \in Requests, Details(r) PROVE ClientInv'
  BY <1>8, Labels, Holds DEF Details, LockInv, ArgInv, ConfigInv, ClientInv, At, Goto, Glance, Reply, Check, Locks, requests, config, history, EntryPcs, SameIds, AfterIds
<1>9. ASSUME NEW r \in Requests, DetailsFlag(r) PROVE ClientInv'
  BY <1>9, Labels, Holds DEF DetailsFlag, LockInv, ArgInv, ConfigInv, ClientInv, At, Goto, Glance, Reply, Check, Locks, requests, config, history, EntryPcs, SameIds, AfterIds
<1>10. ASSUME NEW r \in Requests, DetailsOwner(r) PROVE ClientInv'
  BY <1>10, Labels, Holds DEF DetailsOwner, LockInv, ArgInv, ConfigInv, ClientInv, At, Goto, Glance, Reply, Check, Locks, requests, config, history, EntryPcs, SameIds, AfterIds
<1>11. ASSUME NEW r \in Requests, DetailsWallet(r) PROVE ClientInv'
  BY <1>11, Labels, Holds DEF DetailsWallet, LockInv, ArgInv, ConfigInv, ClientInv, At, Goto, Glance, Reply, Check, Locks, requests, config, history, EntryPcs, SameIds, AfterIds
<1>12. ASSUME NEW r \in Requests, Export(r) PROVE ClientInv'
  BY <1>12, Labels, Holds DEF Export, LockInv, ArgInv, ConfigInv, ClientInv, At, Goto, Glance, Reply, Check, Locks, requests, config, history, EntryPcs, SameIds, AfterIds
<1>13. ASSUME NEW r \in Requests, CompareIds(r) PROVE ClientInv'
  BY <1>13, Labels, Holds DEF CompareIds, LockInv, ArgInv, ConfigInv, ClientInv, At, Goto, Glance, Reply, Check, Locks, requests, config, history, EntryPcs, SameIds, AfterIds
<1>14. ASSUME NEW r \in Requests, CheckImmutable(r) PROVE ClientInv'
  BY <1>14, Labels, Holds DEF CheckImmutable, LockInv, ArgInv, ConfigInv, ClientInv, At, Goto, Glance, Reply, Check, Locks, requests, config, history, EntryPcs, SameIds, AfterIds
<1>15. ASSUME NEW r \in Requests, CheckMutable(r) PROVE ClientInv'
  BY <1>15, Labels, Holds DEF CheckMutable, LockInv, ArgInv, ConfigInv, ClientInv, At, Goto, Glance, Reply, Check, Locks, requests, config, history, EntryPcs, SameIds, AfterIds
<1>16. ASSUME NEW r \in Requests, CheckWallet(r) PROVE ClientInv'
  BY <1>16, Labels, Holds DEF CheckWallet, LockInv, ArgInv, ConfigInv, ClientInv, At, Goto, Glance, Reply, Check, Locks, requests, config, history, EntryPcs, SameIds, AfterIds
<1>17. ASSUME NEW r \in Requests, ReadOwner(r) PROVE ClientInv'
  BY <1>17, Labels, Holds DEF ReadOwner, LockInv, ArgInv, ConfigInv, ClientInv, At, Goto, Glance, Reply, Check, Locks, requests, config, history, EntryPcs, SameIds, AfterIds
<1>18. ASSUME NEW r \in Requests, Fetch(r) PROVE ClientInv'
  BY <1>18, Labels, Holds DEF Fetch, LockInv, ArgInv, ConfigInv, ClientInv, At, Goto, Glance, Reply, Check, Locks, requests, config, history, EntryPcs, SameIds, AfterIds
<1>19. ASSUME NEW r \in Requests, TakeWallet(r) PROVE ClientInv'
  BY <1>19, Labels, Holds DEF TakeWallet, LockInv, ArgInv, ConfigInv, ClientInv, At, Goto, Glance, Reply, Check, Locks, requests, config, history, EntryPcs, SameIds, AfterIds
<1>20. ASSUME NEW r \in Requests, TakeIds(r) PROVE ClientInv'
  <2>1. UNCHANGED <<client, listenerActive, signed, listeners, owner, immutableInjected>>
    BY <1>20 DEF TakeIds, history
  <2>2. pc[r] = "takeIds" /\ arg[r] \in IdSets \ {{}} /\ arg[r] \subseteq Chains
    BY <1>20, RegistrationAssumption DEF TakeIds, At, ArgInv, AfterIds
  <2>3. \A q \in Requests : pc[q] \notin {"takeListener", "takeClient"}
    BY <1>20, Nothing, Labels, Holds DEF TakeIds, At, LockInv, Locks
  <2>4. CASE SameIds(r)
    <3>1. chainIds' = arg[r] /\ Goto(r, "takeListener")
      BY <1>20, <2>4 DEF TakeIds
    <3>2. client # None => chainIds' = chainIds
      BY <3>1, <2>4 DEF SameIds, ClientInv
    <3>. QED
      BY <2>1, <2>2, <2>3, <3>1, <3>2 DEF ClientInv, Goto, LockInv
  <2>5. CASE ~SameIds(r)
    <3>1. UNCHANGED chainIds /\ Reply(r)
      BY <1>20, <2>5 DEF TakeIds
    <3>. QED
      BY <2>1, <2>2, <2>3, <3>1 DEF ClientInv, Reply, LockInv
  <2>. QED
    BY <2>4, <2>5
<1>21. ASSUME NEW r \in Requests, TakeListener(r) PROVE ClientInv'
  <2>1. /\ pc[r] = "takeListener" /\ chainIds = arg[r] /\ arg[r] \in IdSets \ {{}}
        /\ seen[r].owner = owner /\ immutableInjected /\ owner \in Owners
    BY <1>21 DEF TakeListener, At, ArgInv, ConfigInv, ClientInv, AfterIds, AfterImmutable, AfterOwner
  <2>2. Message(r) = [owner |-> owner, chains |-> chainIds] /\ chainIds \in SUBSET Chains
    BY <2>1 DEF Message, ClientInv
  <2>3. UNCHANGED <<client, chainIds, listenerActive, listeners, owner, immutableInjected>>
    BY <1>21 DEF TakeListener, config
  <2>4. CASE listenerActive
    <3>1. signed' = signed \union {Message(r)} /\ Reply(r)
      BY <1>21, <2>4 DEF TakeListener
    <3>2. client # None /\ Message(r) = [owner |-> client.owner, chains |-> client.chains]
      BY <2>2, <2>4 DEF ClientInv
    <3>. QED
      BY <3>1, <3>2, <2>1, <2>2, <2>3 DEF ClientInv, Reply, LockInv, ArgInv
  <2>5. CASE ~listenerActive
    <3>1. signed' = signed /\ Goto(r, "takeClient")
      BY <1>21, <2>5 DEF TakeListener
    <3>2. client = None
      BY <2>5 DEF ClientInv
    <3>. QED
      BY <3>1, <3>2, <2>1, <2>3 DEF ClientInv, Goto, LockInv
  <2>. QED
    BY <2>4, <2>5
<1>22. ASSUME NEW r \in Requests, StartListener(r) PROVE ClientInv'
  <2>1. /\ pc[r] = "takeClient" /\ chainIds = arg[r] /\ arg[r] \in IdSets \ {{}}
        /\ seen[r].owner = owner /\ seen[r].wallet = wallet
        /\ immutableInjected /\ owner \in Owners /\ wallet \in Wallets /\ client = None
    BY <1>22 DEF StartListener, At, ArgInv, ConfigInv, ClientInv, AfterIds, AfterImmutable,
             AfterOwner, AfterWallet, Building
  <2>2. client' = [owner |-> owner, chains |-> chainIds,
                   signer |-> [c \in Watched(chainIds) |-> wallet]]
    BY <1>22, <2>1 DEF StartListener
  <2>3. chainIds \in SUBSET Chains /\ chainIds # {}
    BY <2>1 DEF ClientInv
  <2>4. client' \in Clients /\ client'.owner = owner /\ client'.chains = chainIds
        /\ DOMAIN client'.signer = Watched(chainIds)
    BY <2>1, <2>2, <2>3 DEF Clients
  <2>5. client' # None
    BY <2>4, NoneIsNoClient
  <2>6. signed' = signed \union {[owner |-> owner, chains |-> chainIds]} /\ signed = {}
    BY <1>22, <2>1 DEF StartListener, Message, ClientInv
  <2>7. UNCHANGED <<chainIds, owner, immutableInjected>> /\ listenerActive' = TRUE
        /\ listeners = 0 /\ listeners' = 1
    BY <1>22, <2>1 DEF StartListener, config, ClientInv
  <2>8. \A q \in Requests : pc'[q] # "takeClient"
                            /\ (pc'[q] = "takeListener" => chainIds' = arg'[q])
    BY <1>22, <2>7, Holds DEF StartListener, Reply, At, LockInv, ArgInv, ClientInv, Locks
  <2>9. signed' = {[owner |-> client'.owner, chains |-> client'.chains]}
        /\ signed' \subseteq [owner : Owners, chains : SUBSET Chains]
    BY <2>1, <2>3, <2>4, <2>6
  <2>. QED
    BY <2>1, <2>3, <2>4, <2>5, <2>7, <2>8, <2>9 DEF ClientInv
<1>23. ASSUME NEW c \in AllChains, Subscribe(c) PROVE ClientInv'
  BY <1>23, Labels, Holds DEF Subscribe, LockInv, ArgInv, ConfigInv, ClientInv, At, Goto, Glance, Reply, Check, Locks, requests, config, history, EntryPcs, SameIds, AfterIds
<1>24. ASSUME NEW c \in AllChains, HandleLog(c) PROVE ClientInv'
  BY <1>24, Labels, Holds DEF HandleLog, LockInv, ArgInv, ConfigInv, ClientInv, At, Goto, Glance, Reply, Check, Locks, requests, config, history, EntryPcs, SameIds, AfterIds
<1>25. ASSUME NEW c \in AllChains, Collect(c) PROVE ClientInv'
  BY <1>25, Labels, Holds DEF Collect, LockInv, ArgInv, ConfigInv, ClientInv, At, Goto, Glance, Reply, Check, Locks, requests, config, history, EntryPcs, SameIds, AfterIds
<1>26. ASSUME NEW c \in AllChains, Drop(c) PROVE ClientInv'
  BY <1>26, Labels, Holds DEF Drop, LockInv, ArgInv, ConfigInv, ClientInv, At, Goto, Glance, Reply, Check, Locks, requests, config, history, EntryPcs, SameIds, AfterIds
<1>27. ASSUME NEW c \in AllChains, Register(c) PROVE ClientInv'
  BY <1>27, Labels, Holds DEF Register, LockInv, ArgInv, ConfigInv, ClientInv, At, Goto, Glance, Reply, Check, Locks, requests, config, history, EntryPcs, SameIds, AfterIds
<1>28. ASSUME NEW c \in AllChains, Reorg(c) PROVE ClientInv'
  BY <1>28, Labels, Holds DEF Reorg, LockInv, ArgInv, ConfigInv, ClientInv, At, Goto, Glance, Reply, Check, Locks, requests, config, history, EntryPcs, SameIds, AfterIds
<1>29. CASE UNCHANGED vars
  BY <1>29 DEF vars, config, requests, start, history, ClientInv
<1>. QED
  BY <1>1, <1>2, <1>3, <1>4, <1>5, <1>6, <1>7, <1>8, <1>9, <1>10, <1>11, <1>12, <1>13, <1>14, <1>15, <1>16, <1>17, <1>18, <1>19, <1>20, <1>21, <1>22, <1>23, <1>24, <1>25, <1>26, <1>27, <1>28, <1>29 DEF Next, RequestStep, ListenerStep

\* Only an injection changes a signer, and it ends with all of them changed.
LEMMA SignerInvStep ==
  ASSUME LockInv, ArgInv, ConfigInv, ClientInv, SignerInv, [Next]_vars
  PROVE  SignerInv'
<1>1. ASSUME NEW r \in Requests, Arrive(r) PROVE SignerInv'
  BY <1>1, Labels, Holds DEF Arrive, LockInv, ArgInv, ConfigInv, ClientInv, SignerInv, At, Goto, Glance, Reply, Check, Locks, requests, config, EntryPcs, ToResign, Building, Watched
<1>2. ASSUME NEW r \in Requests, InjectImmutable(r) PROVE SignerInv'
  BY <1>2, Labels, Holds DEF InjectImmutable, LockInv, ArgInv, ConfigInv, ClientInv, SignerInv, At, Goto, Glance, Reply, Check, Locks, requests, config, EntryPcs, ToResign, Building, Watched
<1>3. ASSUME NEW r \in Requests, SetOwner(r) PROVE SignerInv'
  BY <1>3, Labels, Holds DEF SetOwner, LockInv, ArgInv, ConfigInv, ClientInv, SignerInv, At, Goto, Glance, Reply, Check, Locks, requests, config, EntryPcs, ToResign, Building, Watched
<1>4. ASSUME NEW r \in Requests, InjectMutable(r) PROVE SignerInv'
  BY <1>4, Labels, Holds DEF InjectMutable, LockInv, ArgInv, ConfigInv, ClientInv, SignerInv, At, Goto, Glance, Reply, Check, Locks, requests, config, EntryPcs, ToResign, Building, Watched
<1>5. ASSUME NEW r \in Requests, MutableClient(r) PROVE SignerInv'
  BY <1>5, Labels, Holds DEF MutableClient, LockInv, ArgInv, ConfigInv, ClientInv, SignerInv, At, Goto, Glance, Reply, Check, Locks, requests, config, EntryPcs, ToResign, Building, Watched
<1>6. ASSUME NEW r \in Requests, Resign(r) PROVE SignerInv'
  BY <1>6, Labels, Holds DEF Resign, LockInv, ArgInv, ConfigInv, ClientInv, SignerInv, At, Goto, Glance, Reply, Check, Locks, requests, config, EntryPcs, ToResign, Building, Watched
<1>7. ASSUME NEW r \in Requests, SetWallet(r) PROVE SignerInv'
  BY <1>7, Labels, Holds DEF SetWallet, LockInv, ArgInv, ConfigInv, ClientInv, SignerInv, At, Goto, Glance, Reply, Check, Locks, requests, config, EntryPcs, ToResign, Building, Watched
<1>8. ASSUME NEW r \in Requests, Details(r) PROVE SignerInv'
  BY <1>8, Labels, Holds DEF Details, LockInv, ArgInv, ConfigInv, ClientInv, SignerInv, At, Goto, Glance, Reply, Check, Locks, requests, config, EntryPcs, ToResign, Building, Watched
<1>9. ASSUME NEW r \in Requests, DetailsFlag(r) PROVE SignerInv'
  BY <1>9, Labels, Holds DEF DetailsFlag, LockInv, ArgInv, ConfigInv, ClientInv, SignerInv, At, Goto, Glance, Reply, Check, Locks, requests, config, EntryPcs, ToResign, Building, Watched
<1>10. ASSUME NEW r \in Requests, DetailsOwner(r) PROVE SignerInv'
  BY <1>10, Labels, Holds DEF DetailsOwner, LockInv, ArgInv, ConfigInv, ClientInv, SignerInv, At, Goto, Glance, Reply, Check, Locks, requests, config, EntryPcs, ToResign, Building, Watched
<1>11. ASSUME NEW r \in Requests, DetailsWallet(r) PROVE SignerInv'
  BY <1>11, Labels, Holds DEF DetailsWallet, LockInv, ArgInv, ConfigInv, ClientInv, SignerInv, At, Goto, Glance, Reply, Check, Locks, requests, config, EntryPcs, ToResign, Building, Watched
<1>12. ASSUME NEW r \in Requests, Export(r) PROVE SignerInv'
  BY <1>12, Labels, Holds DEF Export, LockInv, ArgInv, ConfigInv, ClientInv, SignerInv, At, Goto, Glance, Reply, Check, Locks, requests, config, EntryPcs, ToResign, Building, Watched
<1>13. ASSUME NEW r \in Requests, CompareIds(r) PROVE SignerInv'
  BY <1>13, Labels, Holds DEF CompareIds, LockInv, ArgInv, ConfigInv, ClientInv, SignerInv, At, Goto, Glance, Reply, Check, Locks, requests, config, EntryPcs, ToResign, Building, Watched
<1>14. ASSUME NEW r \in Requests, CheckImmutable(r) PROVE SignerInv'
  BY <1>14, Labels, Holds DEF CheckImmutable, LockInv, ArgInv, ConfigInv, ClientInv, SignerInv, At, Goto, Glance, Reply, Check, Locks, requests, config, EntryPcs, ToResign, Building, Watched
<1>15. ASSUME NEW r \in Requests, CheckMutable(r) PROVE SignerInv'
  BY <1>15, Labels, Holds DEF CheckMutable, LockInv, ArgInv, ConfigInv, ClientInv, SignerInv, At, Goto, Glance, Reply, Check, Locks, requests, config, EntryPcs, ToResign, Building, Watched
<1>16. ASSUME NEW r \in Requests, CheckWallet(r) PROVE SignerInv'
  BY <1>16, Labels, Holds DEF CheckWallet, LockInv, ArgInv, ConfigInv, ClientInv, SignerInv, At, Goto, Glance, Reply, Check, Locks, requests, config, EntryPcs, ToResign, Building, Watched
<1>17. ASSUME NEW r \in Requests, ReadOwner(r) PROVE SignerInv'
  BY <1>17, Labels, Holds DEF ReadOwner, LockInv, ArgInv, ConfigInv, ClientInv, SignerInv, At, Goto, Glance, Reply, Check, Locks, requests, config, EntryPcs, ToResign, Building, Watched
<1>18. ASSUME NEW r \in Requests, Fetch(r) PROVE SignerInv'
  BY <1>18, Labels, Holds DEF Fetch, LockInv, ArgInv, ConfigInv, ClientInv, SignerInv, At, Goto, Glance, Reply, Check, Locks, requests, config, EntryPcs, ToResign, Building, Watched
<1>19. ASSUME NEW r \in Requests, TakeWallet(r) PROVE SignerInv'
  BY <1>19, Labels, Holds DEF TakeWallet, LockInv, ArgInv, ConfigInv, ClientInv, SignerInv, At, Goto, Glance, Reply, Check, Locks, requests, config, EntryPcs, ToResign, Building, Watched
<1>20. ASSUME NEW r \in Requests, TakeIds(r) PROVE SignerInv'
  BY <1>20, Labels, Holds DEF TakeIds, LockInv, ArgInv, ConfigInv, ClientInv, SignerInv, At, Goto, Glance, Reply, Check, Locks, requests, config, EntryPcs, ToResign, Building, Watched
<1>21. ASSUME NEW r \in Requests, TakeListener(r) PROVE SignerInv'
  BY <1>21, Labels, Holds DEF TakeListener, LockInv, ArgInv, ConfigInv, ClientInv, SignerInv, At, Goto, Glance, Reply, Check, Locks, requests, config, EntryPcs, ToResign, Building, Watched
<1>22. ASSUME NEW r \in Requests, StartListener(r) PROVE SignerInv'
  BY <1>22, Labels, Holds DEF StartListener, LockInv, ArgInv, ConfigInv, ClientInv, SignerInv, At, Goto, Glance, Reply, Check, Locks, requests, config, EntryPcs, ToResign, Building, Watched
<1>23. ASSUME NEW c \in AllChains, Subscribe(c) PROVE SignerInv'
  BY <1>23, Labels, Holds DEF Subscribe, LockInv, ArgInv, ConfigInv, ClientInv, SignerInv, At, Goto, Glance, Reply, Check, Locks, requests, config, EntryPcs, ToResign, Building, Watched
<1>24. ASSUME NEW c \in AllChains, HandleLog(c) PROVE SignerInv'
  BY <1>24, Labels, Holds DEF HandleLog, LockInv, ArgInv, ConfigInv, ClientInv, SignerInv, At, Goto, Glance, Reply, Check, Locks, requests, config, EntryPcs, ToResign, Building, Watched
<1>25. ASSUME NEW c \in AllChains, Collect(c) PROVE SignerInv'
  BY <1>25, Labels, Holds DEF Collect, LockInv, ArgInv, ConfigInv, ClientInv, SignerInv, At, Goto, Glance, Reply, Check, Locks, requests, config, EntryPcs, ToResign, Building, Watched
<1>26. ASSUME NEW c \in AllChains, Drop(c) PROVE SignerInv'
  BY <1>26, Labels, Holds DEF Drop, LockInv, ArgInv, ConfigInv, ClientInv, SignerInv, At, Goto, Glance, Reply, Check, Locks, requests, config, EntryPcs, ToResign, Building, Watched
<1>27. ASSUME NEW c \in AllChains, Register(c) PROVE SignerInv'
  BY <1>27, Labels, Holds DEF Register, LockInv, ArgInv, ConfigInv, ClientInv, SignerInv, At, Goto, Glance, Reply, Check, Locks, requests, config, EntryPcs, ToResign, Building, Watched
<1>28. ASSUME NEW c \in AllChains, Reorg(c) PROVE SignerInv'
  BY <1>28, Labels, Holds DEF Reorg, LockInv, ArgInv, ConfigInv, ClientInv, SignerInv, At, Goto, Glance, Reply, Check, Locks, requests, config, EntryPcs, ToResign, Building, Watched
<1>29. CASE UNCHANGED vars
  BY <1>29 DEF vars, config, requests, start, history, SignerInv
<1>. QED
  BY <1>1, <1>2, <1>3, <1>4, <1>5, <1>6, <1>7, <1>8, <1>9, <1>10, <1>11, <1>12, <1>13, <1>14, <1>15, <1>16, <1>17, <1>18, <1>19, <1>20, <1>21, <1>22, <1>23, <1>24, <1>25, <1>26, <1>27, <1>28, <1>29 DEF Next, RequestStep, ListenerStep

\* The listener counts the chains that have the event for good.
LEMMA StartInvStep ==
  ASSUME LockInv, ArgInv, ConfigInv, ClientInv, StartInv, [Next]_vars
  PROVE  StartInv'
<1>1. ASSUME NEW r \in Requests, Arrive(r) PROVE StartInv'
  BY <1>1 DEF Arrive, LockInv, ClientInv, StartInv, At, Goto, requests, start, history, config, Listening, Watched, Confirmed, AllChains
<1>2. ASSUME NEW r \in Requests, InjectImmutable(r) PROVE StartInv'
  BY <1>2 DEF InjectImmutable, LockInv, ClientInv, StartInv, At, Goto, requests, start, history, config, Listening, Watched, Confirmed, AllChains
<1>3. ASSUME NEW r \in Requests, SetOwner(r) PROVE StartInv'
  BY <1>3 DEF SetOwner, LockInv, ClientInv, StartInv, At, Goto, requests, start, history, config, Listening, Watched, Confirmed, AllChains
<1>4. ASSUME NEW r \in Requests, InjectMutable(r) PROVE StartInv'
  BY <1>4 DEF InjectMutable, LockInv, ClientInv, StartInv, At, Goto, requests, start, history, config, Listening, Watched, Confirmed, AllChains
<1>5. ASSUME NEW r \in Requests, MutableClient(r) PROVE StartInv'
  BY <1>5 DEF MutableClient, LockInv, ClientInv, StartInv, At, Goto, requests, start, history, config, Listening, Watched, Confirmed, AllChains
<1>6. ASSUME NEW r \in Requests, Resign(r) PROVE StartInv'
  <2>1. PICK c \in ToResign(r) : client' = [client EXCEPT !.signer[c] = arg[r]]
    BY <1>6 DEF Resign
  <2>4. client # None /\ ClientInv'
    BY <2>1, ClientInvStep, <1>6 DEF ToResign, Next, RequestStep
  <2>5. client'.chains = client.chains /\ listenerActive' = listenerActive
    BY <2>1, <2>4, <1>6 DEF Resign, ClientInv, Clients
  <2>2. client # None /\ client'.chains = client.chains /\ client' # None
    BY <2>4, <2>5 DEF ClientInv
  <2>3. Listening' = Listening
    BY <2>2 DEF Listening
  <2>. QED
    BY <1>6, <2>2, <2>3 DEF Resign, start, StartInv
<1>7. ASSUME NEW r \in Requests, SetWallet(r) PROVE StartInv'
  BY <1>7 DEF SetWallet, LockInv, ClientInv, StartInv, At, Goto, requests, start, history, config, Listening, Watched, Confirmed, AllChains
<1>8. ASSUME NEW r \in Requests, Details(r) PROVE StartInv'
  BY <1>8 DEF Details, LockInv, ClientInv, StartInv, At, Goto, requests, start, history, config, Listening, Watched, Confirmed, AllChains
<1>9. ASSUME NEW r \in Requests, DetailsFlag(r) PROVE StartInv'
  BY <1>9 DEF DetailsFlag, LockInv, ClientInv, StartInv, At, Goto, requests, start, history, config, Listening, Watched, Confirmed, AllChains
<1>10. ASSUME NEW r \in Requests, DetailsOwner(r) PROVE StartInv'
  BY <1>10 DEF DetailsOwner, LockInv, ClientInv, StartInv, At, Goto, requests, start, history, config, Listening, Watched, Confirmed, AllChains
<1>11. ASSUME NEW r \in Requests, DetailsWallet(r) PROVE StartInv'
  BY <1>11 DEF DetailsWallet, LockInv, ClientInv, StartInv, At, Goto, requests, start, history, config, Listening, Watched, Confirmed, AllChains
<1>12. ASSUME NEW r \in Requests, Export(r) PROVE StartInv'
  BY <1>12 DEF Export, LockInv, ClientInv, StartInv, At, Goto, requests, start, history, config, Listening, Watched, Confirmed, AllChains
<1>13. ASSUME NEW r \in Requests, CompareIds(r) PROVE StartInv'
  BY <1>13 DEF CompareIds, LockInv, ClientInv, StartInv, At, Goto, requests, start, history, config, Listening, Watched, Confirmed, AllChains
<1>14. ASSUME NEW r \in Requests, CheckImmutable(r) PROVE StartInv'
  BY <1>14 DEF CheckImmutable, LockInv, ClientInv, StartInv, At, Goto, requests, start, history, config, Listening, Watched, Confirmed, AllChains
<1>15. ASSUME NEW r \in Requests, CheckMutable(r) PROVE StartInv'
  BY <1>15 DEF CheckMutable, LockInv, ClientInv, StartInv, At, Goto, requests, start, history, config, Listening, Watched, Confirmed, AllChains
<1>16. ASSUME NEW r \in Requests, CheckWallet(r) PROVE StartInv'
  BY <1>16 DEF CheckWallet, LockInv, ClientInv, StartInv, At, Goto, requests, start, history, config, Listening, Watched, Confirmed, AllChains
<1>17. ASSUME NEW r \in Requests, ReadOwner(r) PROVE StartInv'
  BY <1>17 DEF ReadOwner, LockInv, ClientInv, StartInv, At, Goto, requests, start, history, config, Listening, Watched, Confirmed, AllChains
<1>18. ASSUME NEW r \in Requests, Fetch(r) PROVE StartInv'
  BY <1>18 DEF Fetch, LockInv, ClientInv, StartInv, At, Goto, requests, start, history, config, Listening, Watched, Confirmed, AllChains
<1>19. ASSUME NEW r \in Requests, TakeWallet(r) PROVE StartInv'
  BY <1>19 DEF TakeWallet, LockInv, ClientInv, StartInv, At, Goto, requests, start, history, config, Listening, Watched, Confirmed, AllChains
<1>20. ASSUME NEW r \in Requests, TakeIds(r) PROVE StartInv'
  BY <1>20 DEF TakeIds, LockInv, ClientInv, StartInv, At, Goto, requests, start, history, config, Listening, Watched, Confirmed, AllChains
<1>21. ASSUME NEW r \in Requests, TakeListener(r) PROVE StartInv'
  BY <1>21 DEF TakeListener, LockInv, ClientInv, StartInv, At, Goto, requests, start, history, config, Listening, Watched, Confirmed, AllChains
<1>22. ASSUME NEW r \in Requests, StartListener(r) PROVE StartInv'
  <2>1. /\ pc[r] = "takeClient" /\ client = None
    BY <1>22 DEF StartListener, At, ClientInv
  <2>2. client' # None
    BY ClientInvStep, <1>22 DEF StartListener, ClientInv, Next, RequestStep
  <2>3. (\A c \in AllChains : watcher[c] = "off") /\ collected = {} /\ ~registered
    BY <2>1 DEF StartInv
  <2>. QED
    BY <1>22, <2>2, <2>3 DEF StartListener, StartInv, AllChains
<1>23. ASSUME NEW c \in AllChains, Subscribe(c) PROVE StartInv'
  BY <1>23 DEF Subscribe, LockInv, ClientInv, StartInv, At, Goto, requests, start, history, config, Listening, Watched, Confirmed, AllChains
<1>24. ASSUME NEW c \in AllChains, HandleLog(c) PROVE StartInv'
  BY <1>24 DEF HandleLog, LockInv, ClientInv, StartInv, At, Goto, requests, start, history, config, Listening, Watched, Confirmed, AllChains
<1>25. ASSUME NEW c \in AllChains, Collect(c) PROVE StartInv'
  BY <1>25 DEF Collect, LockInv, ClientInv, StartInv, At, Goto, requests, start, history, config, Listening, Watched, Confirmed, AllChains
<1>26. ASSUME NEW c \in AllChains, Drop(c) PROVE StartInv'
  BY <1>26 DEF Drop, LockInv, ClientInv, StartInv, At, Goto, requests, start, history, config, Listening, Watched, Confirmed, AllChains
<1>27. ASSUME NEW c \in AllChains, Register(c) PROVE StartInv'
  BY <1>27 DEF Register, LockInv, ClientInv, StartInv, At, Goto, requests, start, history, config, Listening, Watched, Confirmed, AllChains
<1>28. ASSUME NEW c \in AllChains, Reorg(c) PROVE StartInv'
  BY <1>28 DEF Reorg, LockInv, ClientInv, StartInv, At, Goto, requests, start, history, config, Listening, Watched, Confirmed, AllChains
<1>29. CASE UNCHANGED vars
  BY <1>29 DEF vars, config, requests, start, history, StartInv, Listening
<1>. QED
  BY <1>1, <1>2, <1>3, <1>4, <1>5, <1>6, <1>7, <1>8, <1>9, <1>10, <1>11, <1>12, <1>13, <1>14, <1>15, <1>16, <1>17, <1>18, <1>19, <1>20, <1>21, <1>22, <1>23, <1>24, <1>25, <1>26, <1>27, <1>28, <1>29 DEF Next, RequestStep, ListenerStep

IInv == LockInv /\ ArgInv /\ ConfigInv /\ ClientInv /\ SignerInv /\ StartInv

LEMMA InitIInv == Init => IInv
<1>. SUFFICES ASSUME Init PROVE IInv
  OBVIOUS
<1>. USE RegistrationAssumption
<1>1. LockInv
  BY Labels, Holds DEF Init, LockInv, Locks
<1>2. ArgInv /\ ConfigInv /\ SignerInv
  BY DEF Init, ArgInv, Arguments, ConfigInv, SignerInv, NothingSeen, AfterIds,
         AfterImmutable, AfterWallet, AfterOwner, Building
<1>3. ClientInv /\ StartInv
  BY DEF Init, ClientInv, StartInv
<1>. QED
  BY <1>1, <1>2, <1>3 DEF IInv

LEMMA Inductive == Spec => []IInv
<1>1. IInv /\ [Next]_vars => IInv'
  BY LockInvStep, ArgInvStep, ConfigInvStep, ClientInvStep, SignerInvStep, StartInvStep DEF IInv
<1>. QED
  BY InitIInv, <1>1, PTL DEF Spec

\* TypeOK always holds; in particular no request ever unwraps a wallet that is not
\* there, under the locks it holds.
THEOREM TypeCorrect == Spec => []TypeOK
<1>1. IInv => TypeOK
  BY DEF IInv, TypeOK, LockInv, ArgInv, ConfigInv, ClientInv, StartInv, AfterWallet
<1>. QED
  BY <1>1, Inductive, PTL

\* The wallet's lock is free only when no injection is under way.
THEOREM SignersAreTheWallets == Spec => []SignersFollowWallet
<1>1. IInv => SignersFollowWallet
  <2>. SUFFICES ASSUME IInv, client # None, holder["wallet"] = None
                PROVE  \A c \in DOMAIN client.signer : client.signer[c] = wallet
    BY DEF SignersFollowWallet
  <2>1. \A r \in Requests : pc[r] # "resign"
    BY Holds, RegistrationAssumption DEF IInv, LockInv, Locks
  <2>. QED
    BY <2>1 DEF IInv, SignerInv
<1>. QED
  BY <1>1, Inductive, PTL

\* Every signed message is about the owner and the chains the listener waits for.
THEOREM MessagesAgree == Spec => []OneIdentity
<1>1. IInv => OneIdentity
  BY DEF IInv, ClientInv, OneIdentity
<1>. QED
  BY <1>1, Inductive, PTL

\* Whoever calls itself registered is registered on every chain, for good.
THEOREM StartsRegistered == Spec => []RegisteredEverywhere
<1>1. IInv => RegisteredEverywhere
  BY DEF IInv, StartInv, RegisteredEverywhere
<1>. QED
  BY <1>1, Inductive, PTL

\* The place of a request in the order in which the locks are taken: the rank of the
\* lock it waits for, or the highest when it waits for none.
Rank(p) ==
  CASE p \in WaitsAt["immutable"] -> 1
    [] p \in WaitsAt["owner"] -> 2
    [] p \in WaitsAt["wallet"] -> 3
    [] p \in WaitsAt["chainIds"] -> 4
    [] p \in WaitsAt["listener"] -> 5
    [] p \in WaitsAt["client"] -> 6
    [] OTHER -> 7

\* Whoever holds a lock waits, if at all, for one further up.
LEMMA RankGrows ==
  ASSUME LockInv, NEW r \in Requests, NEW q \in Requests, WaitsFor(r, q)
  PROVE  Rank(pc[r]) < Rank(pc[q]) /\ Rank(pc[r]) \in 1..6 /\ Rank(pc[q]) \in 1..7
<1>1. PICK l \in Locks : pc[r] \in WaitsAt[l] /\ holder[l] = q
  BY DEF WaitsFor
<1>2. pc[q] \in HeldAt[l]
  BY <1>1 DEF LockInv
<1>. QED
  BY <1>1, <1>2, Labels, Holds DEF Locks, Rank

\* No request waits for another in a circle, however many there are: a request that
\* waits for a lock of the highest rank wanted in its group would have to wait for
\* one that wants a lock of a higher rank still.
THEOREM LocksAreOrdered == Spec => []NoCircularWait
<1>1. IInv => NoCircularWait
  <2>. SUFFICES ASSUME IInv,
                       NEW group \in (SUBSET Requests) \ {{}},
                       \A r \in group : \E q \in group : WaitsFor(r, q)
                PROVE  FALSE
    BY DEF NoCircularWait
  <2>. DEFINE rank == [r \in group |-> Rank(pc[r])]
  <2>1. \A r \in group : rank[r] \in 1..6 /\ \E q \in group : rank[r] < rank[q]
    BY RankGrows DEF IInv
  <2>. HIDE DEF rank
  <2>2. \A r \in group : rank[r] \in 1..5
    BY <2>1
  <2>3. \A r \in group : rank[r] \in 1..4
    BY <2>1, <2>2
  <2>4. \A r \in group : rank[r] \in 1..3
    BY <2>1, <2>3
  <2>5. \A r \in group : rank[r] \in 1..2
    BY <2>1, <2>4
  <2>6. \A r \in group : rank[r] \in 1..1
    BY <2>1, <2>5
  <2>. QED
    BY <2>1, <2>6
<1>. QED
  BY <1>1, Inductive, PTL
=============================================================================
