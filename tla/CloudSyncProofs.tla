--------------------------- MODULE CloudSyncProofs ---------------------------
(***************************************************************************)
(* The safety of the backup for any number of rows, contents, concurrent   *)
(* pushes and batches ingested at once, and any batch size.                *)
(***************************************************************************)
EXTENDS CloudSync, FiniteSetTheorems, TLAPS

-----------------------------------------------------------------------------
(* Type correctness                                                        *)

LEMMA InitType == Init => TypeOK
<1> SUFFICES ASSUME Init  PROVE TypeOK
  OBVIOUS
<1>1. NoLocal \in LocalRow /\ NoCloud \in CloudRow /\ Waiting \in Client /\ Free \in Request
  BY DEF NoLocal, NoCloud, Waiting, Free, LocalRow, CloudRow, Client, Request, States,
         Origin, Hash
<1> QED BY <1>1 DEF Init, TypeOK

\* The parts a step puts together stay in their types.
LEMMA Parts ==
    ASSUME TypeOK
    PROVE  /\ Waiting \in Client /\ Free \in Request
           /\ \A c \in Clients, S \in SUBSET Local : Marking(c, S) \in Client
           /\ \A q \in Requests, S \in SUBSET Local : Done(q, S) \in Request
           /\ \A q \in Requests : Current(q) \subseteq Local
<1>1. Waiting \in Client /\ Free \in Request
  BY DEF Waiting, Free, Client, Request
<1>2. \A c \in Clients, S \in SUBSET Local : Marking(c, S) \in Client
  BY <1>1 DEF Marking, TypeOK, Client
<1>3. \A q \in Requests : Current(q) \subseteq Local
  BY DEF Current, Oldest, TypeOK, Request
<1>4. \A q \in Requests, S \in SUBSET Local : Done(q, S) \in Request
  BY <1>3 DEF Done, TypeOK, Request
<1> QED BY <1>1, <1>2, <1>3, <1>4

LEMMA LocalType ==
    ASSUME TypeOK, NEW l \in Local, CreateLocal(l) \/ DeleteLocal(l)
    PROVE  TypeOK'
<1>1. CASE CreateLocal(l)
  <2>1. local' \in [Local -> LocalRow]
    <3>1. PICK h \in Content :
            local' = [local EXCEPT ![l] = [@ EXCEPT !.state = "live", !.hash = h]]
      BY <1>1 DEF CreateLocal
    <3>2. [local[l] EXCEPT !.state = "live", !.hash = h] \in LocalRow
      BY DEF TypeOK, LocalRow, States, Hash
    <3> QED BY <3>1, <3>2 DEF TypeOK
  <2> QED BY <1>1, <2>1 DEF CreateLocal, TypeOK
<1>2. CASE DeleteLocal(l)
  BY <1>2 DEF DeleteLocal, TypeOK, LocalRow, States
<1> QED BY <1>1, <1>2

LEMMA CloudType ==
    ASSUME TypeOK, NEW c \in Cloud, CreateCloud(c) \/ DeleteCloud(c)
    PROVE  TypeOK'
<1>1. CASE CreateCloud(c)
  <2>1. \A o \in Foreign : o \in Origin
    BY SyncAssumption DEF SyncAssumption, Origin
  <2>2. cloud' \in [Cloud -> CloudRow]
    BY <1>1, <2>1 DEF CreateCloud, TypeOK, CloudRow, States, Hash
  <2> QED BY <1>1, <2>2 DEF CreateCloud, TypeOK
<1>2. CASE DeleteCloud(c)
  BY <1>2 DEF DeleteCloud, TypeOK, CloudRow, States
<1> QED BY <1>1, <1>2

\* Posting a batch of local rows.
LEMMA PostType ==
    ASSUME TypeOK, NEW q \in Requests, NEW c \in Clients, NEW S \in SUBSET Local, Post(q, c, S)
    PROVE  req' \in [Requests -> Request]
BY DEF Post, TypeOK, Request, Free

LEMMA PushType ==
    ASSUME TypeOK, NEW c \in Clients,
           StartSync(c) \/ Push(c) \/ \E l \in Local : AutoSync(c, l)
    PROVE  TypeOK'
<1> USE Parts
<1>1. CASE StartSync(c)
  BY <1>1 DEF StartSync, TypeOK, Client, Waiting
<1>2. CASE SendPage(c)
  <2>1. Batch(c) \in SUBSET Local /\ Newest(Batch(c)) \subseteq Local
    BY DEF Batch, PageAfterCursor, Unsynced, Newest
  <2>2. req' \in [Requests -> Request]
    BY <1>2, <2>1, PostType DEF SendPage
  <2>3. client' \in [Clients -> Client]
    <3>1. PICK l \in Local :
            client' = [client EXCEPT ![c] = [@ EXCEPT !.pc = "wait", !.cursor = l]]
      BY <1>2, <2>1 DEF SendPage
    <3>2. [client[c] EXCEPT !.pc = "wait", !.cursor = l] \in Client
      BY DEF TypeOK, Client
    <3> QED BY <3>1, <3>2 DEF TypeOK
  <2> QED BY <1>2, <2>2, <2>3 DEF SendPage, TypeOK
<1>3. CASE SyncOver(c) \/ Cancel(c)
  BY <1>3 DEF SyncOver, Cancel, TypeOK
<1>4. CASE Mark(c)
  <2>1. PICK l \in Oldest(client[c].ok) :
          /\ client' = [client EXCEPT ![c] = Marking(c, client[c].ok \ {l})]
          /\ local' = [local EXCEPT ![l].synced = TRUE] \/ UNCHANGED local
    BY <1>4 DEF Mark
  <2>2. l \in Local /\ client[c].ok \ {l} \in SUBSET Local
    BY DEF Oldest, TypeOK, Client
  <2>3. local' \in [Local -> LocalRow]
    BY <2>1, <2>2 DEF TypeOK, LocalRow
  <2>4. client' \in [Clients -> Client]
    BY <2>1, <2>2 DEF TypeOK
  <2> QED BY <1>4, <2>3, <2>4 DEF Mark, TypeOK
<1>5. CASE Disconnect(c)
  <2>1. Marking(c, {}) \in Client
    OBVIOUS
  <2>2. client' \in [Clients -> Client]
    BY <1>5, <2>1 DEF Disconnect, TypeOK
  <2>3. req' \in [Requests -> Request]
    <3>1. PICK q \in Requests :
            \E r \in {Free, [req[q] EXCEPT !.from = "gone"]} : req' = [req EXCEPT ![q] = r]
      BY <1>5 DEF Disconnect
    <3>2. PICK r \in {Free, [req[q] EXCEPT !.from = "gone"]} : req' = [req EXCEPT ![q] = r]
      BY <3>1
    <3>3. req[q] \in Request
      BY DEF TypeOK
    <3>4. [req[q] EXCEPT !.from = "gone"] \in Request
      BY <3>3 DEF Request
    <3> QED BY <3>2, <3>4 DEF TypeOK
  <2> QED BY <1>5, <2>2, <2>3 DEF Disconnect, TypeOK
<1>6. ASSUME NEW l \in Local, AutoSync(c, l)  PROVE TypeOK'
  <2>1. {l} \in SUBSET Local
    OBVIOUS
  <2>2. req' \in [Requests -> Request]
    BY <1>6, <2>1, PostType DEF AutoSync, TypeOK
  <2>3. client' \in [Clients -> Client]
    <3>1. [client[c] EXCEPT !.pc = "wait"] \in Client
      BY DEF TypeOK, Client
    <3> QED BY <1>6, <3>1 DEF AutoSync, TypeOK
  <2> QED BY <1>6, <2>2, <2>3 DEF AutoSync, TypeOK
<1> QED BY <1>1, <1>2, <1>3, <1>4, <1>5, <1>6 DEF Push

LEMMA IngestType == ASSUME TypeOK, NEW q \in Requests, Ingest(q)  PROVE TypeOK'
<1> USE Parts
<1>1. CASE Lookup(q)
  <2>1. PICK l \in Current(q), c \in Cloud \cup {None} :
          req' = [req EXCEPT ![q] = IF c = None /\ map[l] # None THEN Done(q, {l})
                                    ELSE [@ EXCEPT !.pc = "write", !.found = c]]
    BY <1>1 DEF Lookup, Copies
  <2>2. {l} \in SUBSET Local
    OBVIOUS
  <2>3. [req[q] EXCEPT !.pc = "write", !.found = c] \in Request
    BY DEF TypeOK, Request
  <2>4. req' \in [Requests -> Request]
    BY <2>1, <2>2, <2>3 DEF TypeOK
  <2> QED BY <1>1, <2>4 DEF Lookup, TypeOK
<1>2. CASE Link(q)
  <2>1. req[q].found \in Cloud \cup {None}
    BY DEF TypeOK, Request
  <2>2. map' \in [Local -> Cloud \cup {None}]
    BY <1>2, <2>1 DEF Link, TypeOK
  <2>3. req' \in [Requests -> Request]
    BY <1>2 DEF Link, TypeOK
  <2> QED BY <1>2, <2>2, <2>3 DEF Link, TypeOK
<1>3. CASE Store(q)
  <2>1. PICK l \in Current(q), c \in Cloud :
          /\ cloud' = [cloud EXCEPT ![c] = [state |-> "live", hash |-> local[l].hash,
                                            origin |-> "pushed"]]
          /\ map' = [map EXCEPT ![l] = c]
          /\ fresh' = fresh \cup {c}
    BY <1>3 DEF Store
  <2>2. [state |-> "live", hash |-> local[l].hash, origin |-> "pushed"] \in CloudRow
    BY DEF TypeOK, LocalRow, CloudRow, States, Origin
  <2>3. cloud' \in [Cloud -> CloudRow]
    BY <2>1, <2>2 DEF TypeOK
  <2>4. map' \in [Local -> Cloud \cup {None}] /\ fresh' \subseteq Cloud
    BY <2>1 DEF TypeOK
  <2>5. req' \in [Requests -> Request]
    BY <1>3 DEF Store, TypeOK
  <2> QED BY <1>3, <2>3, <2>4, <2>5 DEF Store, TypeOK
<1>4. CASE ItemFails(q)
  BY <1>4 DEF ItemFails, TypeOK
<1>5. CASE Respond(q)
  <2>1. req[q].ok \in SUBSET Local /\ req[q].from \in Clients \cup {"gone"}
    BY DEF TypeOK, Request
  <2>2. client' \in [Clients -> Client]
    BY <1>5, <2>1 DEF Respond, TypeOK
  <2>3. req' \in [Requests -> Request]
    BY <1>5 DEF Respond, TypeOK
  <2> QED BY <1>5, <2>2, <2>3 DEF Respond, TypeOK
<1> QED BY <1>1, <1>2, <1>3, <1>4, <1>5 DEF Ingest

LEMMA PullType == ASSUME TypeOK, PullRead \/ PullCommit \/ PullAborts  PROVE TypeOK'
<1>1. CASE PullRead
  <2>1. \A c \in Cloud : LocalId(c) \in Local \cup {None}
    BY DEF LocalId
  <2>2. pull' \subseteq Item
    <3>1. ASSUME NEW c \in Cloud
          PROVE  [id |-> c, deleted |-> cloud[c].state = "deleted", localId |-> LocalId(c)] \in Item
      <4>1. (cloud[c].state = "deleted") \in BOOLEAN
        OBVIOUS
      <4> QED BY <2>1, <4>1 DEF Item
    <3>2. fresh \subseteq Cloud
      BY DEF TypeOK
    <3> QED BY <1>1, <3>1, <3>2 DEF PullRead
  <2> QED BY <1>1, <2>2 DEF PullRead, TypeOK
<1>2. CASE PullCommit
  <2>1. PICK new \in [Missing -> {l \in Local : local[l].state = "absent"}] :
          local' = [l \in Local |->
                IF l \in Tombstoned THEN [local[l] EXCEPT !.state = "deleted"]
                ELSE IF Changed(l) # {}
                THEN [local[l] EXCEPT !.hash = CHOOSE h \in Changed(l) : TRUE]
                ELSE IF \E h \in Missing : new[h] = l
                THEN [state |-> "live", hash |-> CHOOSE h \in Missing : new[h] = l, synced |-> FALSE]
                ELSE local[l]]
    BY <1>2 DEF PullCommit
  <2>2. Missing \subseteq Hash
    BY DEF Missing, TypeOK, Item, CloudRow
  <2>3. ASSUME NEW l \in Local  PROVE local'[l] \in LocalRow
    <3>1. [local[l] EXCEPT !.state = "deleted"] \in LocalRow /\ local[l] \in LocalRow
      BY DEF TypeOK, LocalRow, States
    <3>2. ASSUME \E h \in Missing : new[h] = l
          PROVE  (CHOOSE h \in Missing : new[h] = l) \in Hash
      BY <3>2, <2>2
    <3>3. ASSUME NEW g \in Hash
          PROVE  [state |-> "live", hash |-> g, synced |-> FALSE] \in LocalRow
      BY DEF LocalRow, States
    <3>4. ASSUME Changed(l) # {}
          PROVE  [local[l] EXCEPT !.hash = CHOOSE h \in Changed(l) : TRUE] \in LocalRow
      <4>1. Changed(l) \subseteq Hash
        BY DEF Changed, TypeOK, Item, CloudRow
      <4>2. (CHOOSE h \in Changed(l) : TRUE) \in Hash
        BY <3>4, <4>1
      <4> QED BY <3>1, <4>2 DEF LocalRow
    <3> QED BY <2>1, <3>1, <3>2, <3>3, <3>4
  <2>4. local' \in [Local -> LocalRow]
    BY <2>1, <2>3
  <2> QED BY <1>2, <2>4 DEF PullCommit, TypeOK
<1>3. CASE PullAborts
  BY <1>3 DEF PullAborts, TypeOK
<1> QED BY <1>1, <1>2, <1>3

LEMMA StepType == TypeOK /\ [Next]_vars => TypeOK'
<1> SUFFICES ASSUME TypeOK, [Next]_vars  PROVE TypeOK'
  OBVIOUS
<1>1. CASE UNCHANGED vars
  BY <1>1 DEF vars, TypeOK
<1> QED BY <1>1, LocalType, PushType, IngestType, PullType, CloudType DEF Next

\* Every behaviour keeps the variables in their types.
THEOREM SyncTypeCorrect == Spec => []TypeOK
<1> QED BY InitType, StepType, PTL DEF Spec

-----------------------------------------------------------------------------
(* What is linked has one content                                          *)

\* Cloud row c may be taken for local row l: both exist, with the same content.
SameContent(l, c) ==
    /\ local[l].state # "absent" /\ cloud[c].state # "absent"
    /\ cloud[c].hash = local[l].hash

\* What a request works on exists, and the row it is about to link has its content.
RequestLinked(r) ==
    /\ \A l \in r.todo : local[l].state # "absent"
    /\ r.found # None => \A l \in Oldest(r.todo) : SameContent(l, r.found)

ItemLinked(i) == i.localId # None => SameContent(i.localId, i.id)

\* The id map, the requests and the page of a pull name pairs of one content hash,
\* and no step changes one.
LinkInv ==
    /\ \A l \in Local : map[l] # None => SameContent(l, map[l])
    /\ \A q \in Requests : RequestLinked(req[q])
    /\ \A i \in pull : ItemLinked(i)

\* A page changes no row and creates rows that did not exist.
LEMMA CommitKeeps ==
    ASSUME TypeOK, LinkInv, PullCommit, NEW k \in Local, local[k].state # "absent"
    PROVE  local'[k] = local[k]
<1>1. PICK new \in [Missing -> {l \in Local : local[l].state = "absent"}] :
        local' = [l \in Local |->
              IF l \in Tombstoned THEN [local[l] EXCEPT !.state = "deleted"]
              ELSE IF Changed(l) # {}
              THEN [local[l] EXCEPT !.hash = CHOOSE h \in Changed(l) : TRUE]
              ELSE IF \E h \in Missing : new[h] = l
              THEN [state |-> "live", hash |-> CHOOSE h \in Missing : new[h] = l, synced |-> FALSE]
              ELSE local[l]]
  BY DEF PullCommit
<1>2. \A h \in Missing : new[h] # k
  BY <1>1
<1>3. \A i \in pull : i.localId = k => cloud[i.id].hash = local[k].hash
  BY DEF LinkInv, ItemLinked, SameContent, None, Local
<1>4. Changed(k) = {}
  BY <1>3 DEF Changed
<1>5. ASSUME k \in Tombstoned  PROVE local[k].state = "deleted"
  <2>1. PICK i \in pull : ~Known(i) /\ i.localId = k
    BY <1>5 DEF Tombstoned
  <2>2. ~Live(local, k)
    BY <1>3, <2>1 DEF Known
  <2> QED BY <2>2 DEF Live, TypeOK, LocalRow, States
<1>6. local[k] \in LocalRow
  BY DEF TypeOK
<1>7. ASSUME k \in Tombstoned  PROVE [local[k] EXCEPT !.state = "deleted"] = local[k]
  BY <1>5, <1>6, <1>7 DEF LocalRow
<1> QED BY <1>1, <1>2, <1>4, <1>7

\* No step of the instance takes a row back or changes its content.
LEMMA LocalGrows ==
    ASSUME TypeOK, LinkInv, [Next]_vars, NEW k \in Local, local[k].state # "absent"
    PROVE  local'[k].state # "absent" /\ local'[k].hash = local[k].hash
<1>1. CASE UNCHANGED local
  BY <1>1
<1>2. ASSUME NEW l \in Local, CreateLocal(l) \/ DeleteLocal(l)
      PROVE  local'[k].state # "absent" /\ local'[k].hash = local[k].hash
  <2>1. CASE CreateLocal(l)
    <3>1. k # l
      BY <2>1 DEF CreateLocal, Local
    <3> QED BY <2>1, <3>1 DEF CreateLocal, TypeOK
  <2>2. CASE DeleteLocal(l)
    BY <2>2 DEF DeleteLocal, TypeOK, LocalRow
  <2> QED BY <1>2, <2>1, <2>2
<1>3. ASSUME NEW c \in Clients, Mark(c)
      PROVE  local'[k].state # "absent" /\ local'[k].hash = local[k].hash
  BY <1>3 DEF Mark, TypeOK, LocalRow
<1>4. CASE PullCommit
  BY <1>4, CommitKeeps
<1>5. Next \/ UNCHANGED vars
  OBVIOUS
<1> QED
  BY <1>1, <1>2, <1>3, <1>4, <1>5
  DEF Next, vars, Push, Ingest, CreateCloud, DeleteCloud, StartSync, AutoSync, SendPage,
      SyncOver, Cancel, Disconnect, Lookup, Link, Store, ItemFails, Respond, PullRead, PullAborts

\* Nor does one of the cloud.
LEMMA CloudGrows ==
    ASSUME TypeOK, [Next]_vars, NEW k \in Cloud, cloud[k].state # "absent"
    PROVE  /\ cloud'[k].state # "absent"
           /\ cloud'[k].hash = cloud[k].hash /\ cloud'[k].origin = cloud[k].origin
<1> DEFINE Same == /\ cloud'[k].state # "absent"
                   /\ cloud'[k].hash = cloud[k].hash /\ cloud'[k].origin = cloud[k].origin
<1>1. CASE UNCHANGED cloud
  BY <1>1
<1>2. ASSUME NEW c \in Cloud, Unused(c)  PROVE k # c
  BY <1>2 DEF Unused, Cloud
<1>3. ASSUME NEW c \in Cloud, CreateCloud(c)  PROVE Same
  BY <1>2, <1>3 DEF CreateCloud, TypeOK
<1>4. ASSUME NEW c \in Cloud, DeleteCloud(c)  PROVE Same
  BY <1>4 DEF DeleteCloud, TypeOK, CloudRow
<1>5. ASSUME NEW q \in Requests, Store(q)  PROVE Same
  BY <1>2, <1>5 DEF Store, TypeOK
<1>6. Next \/ UNCHANGED vars
  OBVIOUS
<1> HIDE DEF Same
<1>7. Same
  BY <1>1, <1>3, <1>4, <1>5, <1>6
  DEF Next, vars, Push, Ingest, CreateLocal, DeleteLocal, StartSync, AutoSync, SendPage,
      SyncOver, Cancel, Mark, Disconnect, Lookup, Link, ItemFails, Respond, PullRead,
      PullCommit, PullAborts, Same
<1> QED BY <1>7 DEF Same

LEMMA SameStays ==
    ASSUME TypeOK, LinkInv, [Next]_vars, NEW l \in Local, NEW c \in Cloud, SameContent(l, c)
    PROVE  SameContent(l, c)'
<1>1. local'[l].state # "absent" /\ local'[l].hash = local[l].hash
  BY LocalGrows DEF SameContent
<1>2. cloud'[c].state # "absent" /\ cloud'[c].hash = cloud[c].hash
  BY CloudGrows DEF SameContent
<1> QED BY <1>1, <1>2 DEF SameContent

\* The item a request works on.
LEMMA CurrentItem ==
    ASSUME TypeOK, NEW q \in Requests, NEW l \in Current(q)
    PROVE  /\ l \in Local /\ l \in req[q].todo
           /\ \A k \in Current(q) : k = l
BY DEF Current, Oldest, TypeOK, Request, Local

LEMMA LinkedStays ==
    ASSUME TypeOK, LinkInv, [Next]_vars, NEW r \in Request, RequestLinked(r)
    PROVE  RequestLinked(r)'
<1>1. r.todo \subseteq Local /\ Oldest(r.todo) \subseteq Local
  BY DEF Request, Oldest
<1>2. \A l \in r.todo : local'[l].state # "absent"
  BY <1>1, LocalGrows DEF RequestLinked
<1>3. r.found # None => \A l \in Oldest(r.todo) : SameContent(l, r.found)'
  BY <1>1, SameStays DEF RequestLinked, Request, Cloud
<1> QED BY <1>2, <1>3 DEF RequestLinked

LEMMA LinkInit == Init => LinkInv
BY DEF Init, LinkInv, RequestLinked, Free, Oldest

\* The id map gets pairs that a look-up found, or that were just made.
LEMMA LinkedMap ==
    ASSUME TypeOK, LinkInv, [Next]_vars, NEW k \in Local, NEW d \in Cloud, map'[k] = d
    PROVE  SameContent(k, d)'
<1>1. ASSUME map[k] = d  PROVE SameContent(k, d)'
  <2>1. SameContent(k, d)
    BY <1>1 DEF LinkInv, None, Cloud
  <2> QED BY <2>1, SameStays
<1>2. ASSUME NEW q \in Requests, Link(q)  PROVE SameContent(k, d)'
  <2>1. PICK l \in Current(q) : map' = map \/ map' = [map EXCEPT ![l] = req[q].found]
    BY <1>2 DEF Link
  <2>2. CASE map[k] # d
    <3>1. k = l /\ d = req[q].found
      BY <2>1, <2>2, CurrentItem DEF TypeOK
    <3>2. SameContent(l, req[q].found) /\ req[q].found \in Cloud
      BY <1>2 DEF Link, LinkInv, RequestLinked, Current, TypeOK, Request
    <3>3. local' = local /\ cloud' = cloud
      BY <1>2 DEF Link
    <3> QED BY <3>1, <3>2, <3>3 DEF SameContent
  <2> QED BY <1>1, <2>2
<1>3. ASSUME NEW q \in Requests, Store(q)  PROVE SameContent(k, d)'
  <2>1. PICK l \in Current(q), c \in Cloud :
          /\ cloud' = [cloud EXCEPT ![c] = [state |-> "live", hash |-> local[l].hash,
                                            origin |-> "pushed"]]
          /\ map' = [map EXCEPT ![l] = c]
    BY <1>3 DEF Store
  <2>2. CASE k = l
    <3>1. d = c /\ cloud'[c].state = "live" /\ cloud'[c].hash = local[k].hash
      BY <2>1, <2>2 DEF TypeOK
    <3>2. local' = local /\ local[k].state # "absent"
      BY <1>3, <2>2, CurrentItem DEF Store, LinkInv, RequestLinked
    <3> QED BY <3>1, <3>2 DEF SameContent
  <2>3. CASE k # l
    BY <1>1, <2>1, <2>3 DEF TypeOK
  <2> QED BY <2>2, <2>3
<1>4. CASE UNCHANGED map
  BY <1>1, <1>4
<1>5. Next \/ UNCHANGED vars
  OBVIOUS
<1> QED
  BY <1>2, <1>3, <1>4, <1>5
  DEF Next, vars, Push, Ingest, CreateLocal, DeleteLocal, CreateCloud, DeleteCloud, StartSync,
      AutoSync, SendPage, SyncOver, Cancel, Mark, Disconnect, Lookup, ItemFails, Respond,
      PullRead, PullCommit, PullAborts

\* A request gets rows that exist, and a look-up finds rows of their content.
LEMMA LinkedRequest ==
    ASSUME TypeOK, LinkInv, [Next]_vars, NEW k \in Requests, NEW r, r = req'[k]
    PROVE  RequestLinked(r)'
<1>0. req[k] \in Request /\ RequestLinked(req[k])
  BY DEF TypeOK, LinkInv
<1>1. CASE r = req[k]
  BY <1>0, <1>1, LinkedStays
<1>2. ASSUME r.found = None, NEW T \in SUBSET Local, r.todo = T,
             \A l \in T : local[l].state # "absent"
      PROVE  RequestLinked(r)'
  BY <1>2, LocalGrows DEF RequestLinked
<1>3. ASSUME NEW q \in Requests, NEW c \in Clients, NEW S \in SUBSET Local, Post(q, c, S),
             \A l \in S : Live(local, l)
      PROVE  RequestLinked(r)'
  <2>1. k # q => r = req[k]
    BY <1>3 DEF Post, TypeOK
  <2>2. k = q => r = [Free EXCEPT !.pc = "lookup", !.from = c, !.todo = S]
    BY <1>3 DEF Post, TypeOK
  <2>3. k = q => r.found = None /\ r.todo = S
    BY <2>2 DEF Free
  <2> QED BY <1>1, <1>2, <1>3, <2>1, <2>3 DEF Live
<1>4. ASSUME NEW c \in Clients, SendPage(c)  PROVE RequestLinked(r)'
  <2>1. Batch(c) \in SUBSET Local /\ \A l \in Batch(c) : Live(local, l)
    BY DEF Batch, PageAfterCursor, Unsynced
  <2>2. PICK q \in Requests : Post(q, c, Batch(c))
    BY <1>4 DEF SendPage
  <2> QED BY <1>3, <2>1, <2>2
<1>5. ASSUME NEW c \in Clients, NEW l \in Local, AutoSync(c, l)  PROVE RequestLinked(r)'
  <2>1. CASE req' = req
    BY <1>1, <2>1
  <2>2. CASE Live(local, l) /\ \E q \in Requests : Post(q, c, {l})
    <3>1. {l} \in SUBSET Local /\ \A n \in {l} : Live(local, n)
      BY <2>2
    <3> QED BY <1>3, <2>2, <3>1
  <2> QED BY <1>5, <2>1, <2>2 DEF AutoSync
<1>6. ASSUME NEW c \in Clients, Disconnect(c)  PROVE RequestLinked(r)'
  <2>0. PICK q \in Requests :
          \E n \in {Free, [req[q] EXCEPT !.from = "gone"]} : req' = [req EXCEPT ![q] = n]
    BY <1>6 DEF Disconnect
  <2>1. PICK n \in {Free, [req[q] EXCEPT !.from = "gone"]} : req' = [req EXCEPT ![q] = n]
    BY <2>0
  <2>2. (k # q => r = req[k]) /\ (k = q => r = n)
    BY <2>1 DEF TypeOK
  <2>3. CASE r = Free
    BY <2>3 DEF RequestLinked, Free
  <2>4. CASE k = q /\ r = [req[q] EXCEPT !.from = "gone"]
    <3>1. r \in Request /\ r.todo = req[k].todo /\ r.found = req[k].found
      BY <2>4 DEF TypeOK, Request
    <3>2. RequestLinked(r)
      BY <1>0, <3>1 DEF RequestLinked
    <3> QED BY <3>1, <3>2, LinkedStays
  <2> QED BY <1>1, <2>2, <2>3, <2>4
<1>7. ASSUME NEW q \in Requests, NEW S, req' = [req EXCEPT ![q] = Done(q, S)]
      PROVE  RequestLinked(r)'
  <2>1. (k # q => r = req[k]) /\ (k = q => r = Done(q, S))
    BY <1>7 DEF TypeOK
  <2>2. k = q => r.found = None /\ r.todo = req[k].todo \ Current(k)
    BY <2>1 DEF Done, TypeOK, Request
  <2>3. req[k].todo \ Current(k) \in SUBSET Local
    BY <1>0 DEF Request
  <2>4. \A l \in req[k].todo \ Current(k) : local[l].state # "absent"
    BY <1>0 DEF RequestLinked
  <2> QED BY <1>1, <1>2, <2>1, <2>2, <2>3, <2>4
<1>8. ASSUME NEW q \in Requests, Lookup(q)  PROVE RequestLinked(r)'
  <2>0. PICK l \in Current(q) :
          \E c \in IF Copies(local[l].hash) # {} THEN Copies(local[l].hash) ELSE {None} :
             req' = [req EXCEPT ![q] = IF c = None /\ map[l] # None THEN Done(q, {l})
                                       ELSE [@ EXCEPT !.pc = "write", !.found = c]]
    BY <1>8 DEF Lookup
  <2>1. PICK c \in IF Copies(local[l].hash) # {} THEN Copies(local[l].hash) ELSE {None} :
             req' = [req EXCEPT ![q] = IF c = None /\ map[l] # None THEN Done(q, {l})
                                       ELSE [@ EXCEPT !.pc = "write", !.found = c]]
    BY <2>0
  <2>2. l \in Local /\ l \in req[q].todo /\ \A n \in Current(q) : n = l
    BY CurrentItem
  <2>3. CASE c = None /\ map[l] # None
    <3>1. req' = [req EXCEPT ![q] = Done(q, {l})]
      BY <2>1, <2>3
    <3> QED BY <1>7, <3>1
  <2>4. CASE ~(c = None /\ map[l] # None)
    <3>1. k # q => r = req[k]
      BY <2>1 DEF TypeOK
    <3>2. CASE k = q
      <4>1. r = [req[q] EXCEPT !.pc = "write", !.found = c]
        BY <2>1, <2>4, <3>2 DEF TypeOK
      <4>2. r.todo = req[k].todo /\ r.found = c
        BY <3>2, <4>1 DEF TypeOK, Request
      <4>3. c \in Cloud \cup {None} /\ (c # None => c \in Copies(local[l].hash))
        BY <2>1 DEF Copies
      <4>4. c # None => SameContent(l, c)
        BY <1>0, <2>2, <3>2, <4>3 DEF Copies, Live, SameContent, RequestLinked
      <4>5. RequestLinked(r)
        BY <1>0, <2>2, <3>2, <4>2, <4>4 DEF RequestLinked, Current
      <4>6. r \in Request
        BY <1>0, <3>2, <4>1, <4>3 DEF Request
      <4> QED BY <4>5, <4>6, LinkedStays
    <3> QED BY <1>1, <3>1, <3>2
  <2> QED BY <2>3, <2>4
<1>9. ASSUME NEW q \in Requests, Respond(q)  PROVE RequestLinked(r)'
  <2>1. (k # q => r = req[k]) /\ (k = q => r = Free)
    BY <1>9 DEF Respond, TypeOK
  <2>2. RequestLinked(Free)'
    BY DEF RequestLinked, Free
  <2> QED BY <1>1, <2>1, <2>2
<1>10. ASSUME NEW q \in Requests, Link(q) \/ Store(q) \/ ItemFails(q)  PROVE RequestLinked(r)'
  BY <1>7, <1>10 DEF Link, Store, ItemFails
<1>11. CASE UNCHANGED req
  BY <1>1, <1>11
<1>12. Next \/ UNCHANGED vars
  OBVIOUS
<1> QED
  BY <1>4, <1>5, <1>6, <1>8, <1>9, <1>10, <1>11, <1>12
  DEF Next, vars, Push, Ingest, CreateLocal, DeleteLocal, CreateCloud, DeleteCloud, StartSync,
      SyncOver, Cancel, Mark, PullRead, PullCommit, PullAborts

\* A page names the rows the id map had when it was read.
LEMMA LinkedItem ==
    ASSUME TypeOK, LinkInv, [Next]_vars, NEW i \in pull'
    PROVE  ItemLinked(i)'
<1>1. CASE i \in pull
  <2>1. i \in Item /\ ItemLinked(i)
    BY <1>1 DEF TypeOK, LinkInv
  <2> QED BY <2>1, SameStays DEF ItemLinked, Item
<1>2. CASE PullRead
  <2>1. PICK c \in Cloud :
          i = [id |-> c, deleted |-> cloud[c].state = "deleted", localId |-> LocalId(c)]
    BY <1>2 DEF PullRead, TypeOK
  <2>2. i.id = c /\ i.localId = LocalId(c)
    BY <2>1
  <2>3. LocalId(c) # None => LocalId(c) \in Local /\ map[LocalId(c)] = c
    BY DEF LocalId
  <2>4. LocalId(c) # None => SameContent(LocalId(c), c)
    BY <2>3 DEF LinkInv, None, Cloud
  <2>5. local' = local /\ cloud' = cloud
    BY <1>2 DEF PullRead
  <2> QED BY <2>2, <2>4, <2>5 DEF ItemLinked, SameContent
<1>3. CASE PullCommit \/ PullAborts
  BY <1>3 DEF PullCommit, PullAborts
<1>4. CASE UNCHANGED pull
  BY <1>1, <1>4
<1>5. Next \/ UNCHANGED vars
  OBVIOUS
<1> QED
  BY <1>2, <1>3, <1>4, <1>5
  DEF Next, vars, Push, Ingest, CreateLocal, DeleteLocal, CreateCloud, DeleteCloud, StartSync,
      AutoSync, SendPage, SyncOver, Cancel, Mark, Disconnect, Lookup, Link, Store, ItemFails,
      Respond

LEMMA LinkStep == TypeOK /\ LinkInv /\ [Next]_vars => LinkInv'
<1> SUFFICES ASSUME TypeOK, LinkInv, [Next]_vars  PROVE LinkInv'
  OBVIOUS
<1>1. (\A l \in Local : map[l] # None => SameContent(l, map[l]))'
  <2> SUFFICES ASSUME NEW l \in Local, NEW d, d = map'[l], d # None
               PROVE  SameContent(l, d)'
    BY DEF SameContent
  <2>1. d \in Cloud
    BY StepType DEF TypeOK
  <2> QED BY <2>1, LinkedMap
<1>2. \A q \in Requests : RequestLinked(req[q])'
  <2> SUFFICES ASSUME NEW q \in Requests  PROVE RequestLinked(req[q])'
    OBVIOUS
  <2>1. \A r : r = req'[q] => RequestLinked(r)'
    BY LinkedRequest
  <2> QED BY <2>1 DEF RequestLinked, SameContent
<1>3. \A i \in pull' : ItemLinked(i)'
  BY LinkedItem
<1> QED BY <1>1, <1>2, <1>3 DEF LinkInv, SameContent, ItemLinked

-----------------------------------------------------------------------------
(* What a synced row rests on                                              *)

\* The cloud holds the content of l for the user of the sync.
Stored(l) == \E c \in Cloud : /\ cloud[c].state # "absent"
                              /\ cloud[c].hash = local[l].hash /\ cloud[c].origin # "other"
Backed(l) == local[l].state # "absent" /\ Stored(l)

\* What is said of a request: the items it reports and the row it is about to link
\* are stored, and what it works on exists.
RequestBacked(r) ==
    /\ \A l \in r.ok : Backed(l)
    /\ \A l \in r.todo : local[l].state # "absent"
    /\ r.found # None => \A l \in Oldest(r.todo) : Backed(l)

\* The inductive invariant behind SyncedIsStored: the promise is made when the
\* cloud writes or finds the row, and carried by the id map, the request, the
\* response and the marks that follow it.
BackupInv ==
    /\ \A l \in Local : local[l].synced => Backed(l)
    /\ \A l \in Local : map[l] # None => Backed(l)
    /\ \A c \in Clients : \A l \in client[c].ok : Backed(l)
    /\ \A q \in Requests : RequestBacked(req[q])

\* So what is stored stays stored.
LEMMA BackedStays ==
    ASSUME TypeOK, LinkInv, [Next]_vars, NEW l \in Local, Backed(l)
    PROVE  Backed(l)'
<1>1. PICK c \in Cloud : /\ cloud[c].state # "absent"
                         /\ cloud[c].hash = local[l].hash /\ cloud[c].origin # "other"
  BY DEF Backed, Stored
<1>2. local'[l].state # "absent" /\ local'[l].hash = local[l].hash
  BY LocalGrows DEF Backed
<1>3. /\ cloud'[c].state # "absent"
      /\ cloud'[c].hash = cloud[c].hash /\ cloud'[c].origin = cloud[c].origin
  BY <1>1, CloudGrows
<1> QED BY <1>1, <1>2, <1>3 DEF Backed, Stored

LEMMA RequestStays ==
    ASSUME TypeOK, LinkInv, [Next]_vars, NEW r \in Request, RequestBacked(r)
    PROVE  RequestBacked(r)'
<1>1. r.ok \subseteq Local /\ r.todo \subseteq Local /\ Oldest(r.todo) \subseteq Local
  BY DEF Request, Oldest
<1>2. \A l \in r.ok : Backed(l)'
  BY <1>1, BackedStays DEF RequestBacked
<1>3. \A l \in r.todo : local'[l].state # "absent"
  BY <1>1, LocalGrows DEF RequestBacked
<1>4. r.found # None => \A l \in Oldest(r.todo) : Backed(l)'
  BY <1>1, BackedStays DEF RequestBacked
<1> QED BY <1>2, <1>3, <1>4 DEF RequestBacked

LEMMA BackupInit == Init => BackupInv
BY DEF Init, BackupInv, RequestBacked, NoLocal, Waiting, Free, Oldest

\* Rows are marked only when a response named them.
LEMMA SyncedStep ==
    ASSUME TypeOK, LinkInv, BackupInv, [Next]_vars, NEW k \in Local, local'[k].synced
    PROVE  Backed(k)'
<1>1. CASE local[k].synced
  BY <1>1, BackedStays DEF BackupInv
<1>2. CASE ~local[k].synced /\ \E c \in Clients : Mark(c)
  <2>1. PICK c \in Clients : Mark(c)
    BY <1>2
  <2>2. PICK l \in Oldest(client[c].ok) :
          local' = [local EXCEPT ![l].synced = TRUE] \/ UNCHANGED local
    BY <2>1 DEF Mark
  <2>3. l \in Local /\ l \in client[c].ok
    BY DEF Oldest, TypeOK, Client
  <2>4. k = l
    BY <1>2, <2>2, <2>3 DEF TypeOK
  <2> QED BY <2>3, <2>4, BackedStays DEF BackupInv
<1>3. CASE PullCommit
  <2>1. PICK new \in [Missing -> {l \in Local : local[l].state = "absent"}] :
          local' = [l \in Local |->
                IF l \in Tombstoned THEN [local[l] EXCEPT !.state = "deleted"]
                ELSE IF Changed(l) # {}
                THEN [local[l] EXCEPT !.hash = CHOOSE h \in Changed(l) : TRUE]
                ELSE IF \E h \in Missing : new[h] = l
                THEN [state |-> "live", hash |-> CHOOSE h \in Missing : new[h] = l, synced |-> FALSE]
                ELSE local[l]]
    BY <1>3 DEF PullCommit
  <2>2. local[k].synced
    BY <2>1 DEF TypeOK, LocalRow
  <2> QED BY <1>1, <2>2
<1>4. ASSUME NEW l \in Local, CreateLocal(l) \/ DeleteLocal(l)  PROVE local[k].synced
  BY <1>4 DEF CreateLocal, DeleteLocal, TypeOK, LocalRow
<1>5. CASE UNCHANGED local
  BY <1>1, <1>5
<1>6. Next \/ UNCHANGED vars
  OBVIOUS
<1> QED
  BY <1>1, <1>2, <1>3, <1>4, <1>5, <1>6
  DEF Next, vars, Push, Ingest, CreateCloud, DeleteCloud, StartSync, AutoSync, SendPage,
      SyncOver, Cancel, Disconnect, Lookup, Link, Store, ItemFails, Respond, PullRead, PullAborts

\* The row a batch item is stored as backs it.
LEMMA StoreBacks ==
    ASSUME TypeOK, LinkInv, BackupInv, NEW q \in Requests, NEW l \in Current(q), Store(q)
    PROVE  Backed(l)'
<1>1. PICK c \in Cloud :
        cloud' = [cloud EXCEPT ![c] = [state |-> "live", hash |-> local[l].hash,
                                       origin |-> "pushed"]]
  BY CurrentItem DEF Store
<1>2. /\ cloud'[c].state # "absent" /\ cloud'[c].hash = local[l].hash
      /\ cloud'[c].origin # "other"
  BY <1>1 DEF TypeOK
<1>3. local' = local /\ local[l].state # "absent"
  BY CurrentItem DEF Store, BackupInv, RequestBacked
<1> QED BY <1>2, <1>3 DEF Backed, Stored

\* The id map changes when an item is linked or stored.
LEMMA MapStep ==
    ASSUME TypeOK, LinkInv, BackupInv, [Next]_vars, NEW k \in Local, map'[k] # None
    PROVE  Backed(k)'
<1>1. CASE map[k] # None
  BY <1>1, BackedStays DEF BackupInv
<1>2. ASSUME NEW q \in Requests, Link(q)  PROVE Backed(k)'
  <2>1. PICK l \in Current(q) : map' = map \/ map' = [map EXCEPT ![l] = req[q].found]
    BY <1>2 DEF Link
  <2>2. map[k] # None \/ k = l
    BY <2>1 DEF TypeOK
  <2>3. Backed(l)
    BY <1>2 DEF Link, BackupInv, RequestBacked, Current
  <2> QED BY <1>1, <2>2, <2>3, BackedStays
<1>3. ASSUME NEW q \in Requests, Store(q)  PROVE Backed(k)'
  <2>1. PICK l \in Current(q), c \in Cloud : map' = [map EXCEPT ![l] = c]
    BY <1>3 DEF Store
  <2>2. map[k] # None \/ k = l
    BY <2>1 DEF TypeOK
  <2> QED BY <1>1, <1>3, <2>2, StoreBacks
<1>4. CASE UNCHANGED map
  BY <1>1, <1>4
<1>5. Next \/ UNCHANGED vars
  OBVIOUS
<1> QED
  BY <1>2, <1>3, <1>4, <1>5
  DEF Next, vars, Push, Ingest, CreateLocal, DeleteLocal, CreateCloud, DeleteCloud, StartSync,
      AutoSync, SendPage, SyncOver, Cancel, Mark, Disconnect, Lookup, ItemFails, Respond,
      PullRead, PullCommit, PullAborts

\* A client learns the outcome of its rows from the response.
LEMMA ClientStep ==
    ASSUME TypeOK, LinkInv, BackupInv, [Next]_vars, NEW k \in Clients, NEW l \in client'[k].ok
    PROVE  Backed(l)'
<1>1. \A c \in Clients, S \in SUBSET Local : Marking(c, S).ok = S
  BY DEF Marking, Waiting, TypeOK, Client
<1>2. \A c \in Clients : client[c].ok \subseteq Local
  BY DEF TypeOK, Client
<1>3. \A q \in Requests : req[q].ok \subseteq Local
  BY DEF TypeOK, Request
<1>4. CASE l \in client[k].ok
  BY <1>2, <1>4, BackedStays DEF BackupInv
<1>5. ASSUME NEW q \in Requests, Respond(q)  PROVE Backed(l)'
  <2>1. CASE req[q].from = k /\ req[q].from # "gone"
    <3>1. client'[k] = Marking(k, req[q].ok)
      BY <1>5, <2>1 DEF Respond, TypeOK
    <3>2. l \in req[q].ok /\ l \in Local
      BY <1>1, <1>3, <3>1
    <3> QED BY <3>2, BackedStays DEF BackupInv, RequestBacked
  <2>2. CASE ~(req[q].from = k /\ req[q].from # "gone")
    BY <1>4, <1>5, <2>2 DEF Respond, TypeOK
  <2> QED BY <2>1, <2>2
<1>6. ASSUME NEW c \in Clients, Mark(c)  PROVE l \in client[k].ok
  <2>1. PICK n \in Oldest(client[c].ok) :
          client' = [client EXCEPT ![c] = Marking(c, client[c].ok \ {n})]
    BY <1>6 DEF Mark
  <2>2. client[c].ok \ {n} \in SUBSET Local
    BY <1>2
  <2>3. Marking(c, client[c].ok \ {n}).ok = client[c].ok \ {n}
    BY <1>1, <2>2
  <2> QED BY <2>1, <2>3 DEF TypeOK
<1>7. ASSUME NEW c \in Clients, Disconnect(c)  PROVE l \in client[k].ok
  <2>1. Marking(c, {}).ok = {} /\ Waiting.ok = {}
    BY <1>1 DEF Waiting
  <2> QED BY <1>7, <2>1 DEF Disconnect, TypeOK
<1>8. ASSUME NEW c \in Clients, StartSync(c) \/ SyncOver(c) \/ Cancel(c)
      PROVE  l \in client[k].ok
  BY <1>8 DEF StartSync, SyncOver, Cancel, Waiting, TypeOK
<1>9. ASSUME NEW c \in Clients, SendPage(c)  PROVE l \in client[k].ok
  BY <1>9 DEF SendPage, TypeOK, Client
<1>10. ASSUME NEW c \in Clients, NEW n \in Local, AutoSync(c, n)  PROVE l \in client[k].ok
  BY <1>10 DEF AutoSync, TypeOK, Client
<1>11. CASE UNCHANGED client
  BY <1>4, <1>11
<1>12. Next \/ UNCHANGED vars
  OBVIOUS
<1> QED
  BY <1>4, <1>5, <1>6, <1>7, <1>8, <1>9, <1>10, <1>11, <1>12
  DEF Next, vars, Push, Ingest, CreateLocal, DeleteLocal, CreateCloud, DeleteCloud,
      Lookup, Link, Store, ItemFails, PullRead, PullCommit, PullAborts

\* A request that drops its item keeps only what was stored.
LEMMA DoneBacked ==
    ASSUME TypeOK, LinkInv, BackupInv, [Next]_vars, NEW q \in Requests, NEW S \in SUBSET Current(q),
           \A l \in S : Backed(l)', NEW r, r = Done(q, S)
    PROVE  RequestBacked(r)'
<1>1. r.ok = req[q].ok \cup S /\ r.todo \subseteq req[q].todo /\ r.found = None
  BY DEF Done, TypeOK, Request
<1>2. req[q].ok \subseteq Local /\ req[q].todo \subseteq Local
  BY DEF TypeOK, Request
<1>3. \A l \in req[q].ok : Backed(l)'
  BY <1>2, BackedStays DEF BackupInv, RequestBacked
<1>4. \A l \in req[q].todo : local'[l].state # "absent"
  BY <1>2, LocalGrows DEF BackupInv, RequestBacked
<1> QED BY <1>1, <1>3, <1>4 DEF RequestBacked

LEMMA RequestStep ==
    ASSUME TypeOK, LinkInv, BackupInv, [Next]_vars, NEW k \in Requests, NEW r, r = req'[k]
    PROVE  RequestBacked(r)'
<1>1. ASSUME r = req[k]  PROVE RequestBacked(r)'
  <2>1. r \in Request /\ RequestBacked(r)
    BY <1>1 DEF TypeOK, BackupInv
  <2> QED BY <2>1, RequestStays
<1>2. ASSUME NEW q \in Requests, NEW c \in Clients, NEW S \in SUBSET Unsynced, Post(q, c, S),
             local' = local
      PROVE  RequestBacked(r)'
  <2>1. k # q => r = req[k]
    BY <1>2 DEF Post, TypeOK
  <2>2. CASE k = q
    <3>1. r = [Free EXCEPT !.pc = "lookup", !.from = c, !.todo = S]
      BY <1>2, <2>2 DEF Post, TypeOK
    <3>2. r.ok = {} /\ r.todo = S /\ r.found = None
      BY <3>1 DEF Free
    <3>3. \A l \in S : local'[l].state # "absent"
      BY <1>2 DEF Unsynced, Live
    <3> QED BY <3>2, <3>3 DEF RequestBacked
  <2> QED BY <1>1, <2>1, <2>2
<1>3. ASSUME NEW c \in Clients, SendPage(c)  PROVE RequestBacked(r)'
  <2>1. Batch(c) \in SUBSET Unsynced
    BY DEF Batch, PageAfterCursor
  <2>2. PICK q \in Requests : Post(q, c, Batch(c))
    BY <1>3 DEF SendPage
  <2>3. local' = local
    BY <1>3 DEF SendPage
  <2> QED BY <1>2, <2>1, <2>2, <2>3
<1>4. ASSUME NEW c \in Clients, NEW l \in Local, AutoSync(c, l)  PROVE RequestBacked(r)'
  <2>1. CASE req' = req
    BY <1>1, <2>1
  <2>2. CASE Live(local, l) /\ \E q \in Requests : Post(q, c, {l})
    <3>1. PICK q \in Requests : Post(q, c, {l})
      BY <2>2
    <3>2. k # q => r = req[k]
      BY <3>1 DEF Post, TypeOK
    <3>3. CASE k = q
      <4>1. r = [Free EXCEPT !.pc = "lookup", !.from = c, !.todo = {l}]
        BY <3>1, <3>3 DEF Post, TypeOK
      <4>2. r.ok = {} /\ r.todo = {l} /\ r.found = None
        BY <4>1 DEF Free
      <4>3. local'[l].state # "absent"
        BY <1>4, <2>2 DEF AutoSync, Live
      <4> QED BY <4>2, <4>3 DEF RequestBacked
    <3> QED BY <1>1, <3>2, <3>3
  <2> QED BY <1>4, <2>1, <2>2 DEF AutoSync
<1>5. ASSUME NEW c \in Clients, Disconnect(c)  PROVE RequestBacked(r)'
  <2>0. PICK q \in Requests :
          \E n \in {Free, [req[q] EXCEPT !.from = "gone"]} : req' = [req EXCEPT ![q] = n]
    BY <1>5 DEF Disconnect
  <2>1. PICK n \in {Free, [req[q] EXCEPT !.from = "gone"]} : req' = [req EXCEPT ![q] = n]
    BY <2>0
  <2>2. k # q => r = req[k]
    BY <2>1 DEF TypeOK
  <2>3. CASE k = q /\ r = Free
    BY <2>3 DEF RequestBacked, Free
  <2>4. CASE k = q /\ r = [req[q] EXCEPT !.from = "gone"]
    <3>1. r \in Request /\ r.ok = req[k].ok /\ r.todo = req[k].todo /\ r.found = req[k].found
      BY <2>4 DEF TypeOK, Request
    <3>2. RequestBacked(r)
      BY <3>1 DEF BackupInv, RequestBacked
    <3> QED BY <3>1, <3>2, RequestStays
  <2>5. k = q => r = n
    BY <2>1 DEF TypeOK
  <2> QED BY <1>1, <2>1, <2>2, <2>3, <2>4, <2>5
<1>6. ASSUME NEW q \in Requests, Lookup(q)  PROVE RequestBacked(r)'
  <2>1. PICK l \in Current(q) :
          \E c \in IF Copies(local[l].hash) # {} THEN Copies(local[l].hash) ELSE {None} :
             req' = [req EXCEPT ![q] = IF c = None /\ map[l] # None THEN Done(q, {l})
                                       ELSE [@ EXCEPT !.pc = "write", !.found = c]]
    BY <1>6 DEF Lookup
  <2>2. PICK c \in IF Copies(local[l].hash) # {} THEN Copies(local[l].hash) ELSE {None} :
             req' = [req EXCEPT ![q] = IF c = None /\ map[l] # None THEN Done(q, {l})
                                       ELSE [@ EXCEPT !.pc = "write", !.found = c]]
    BY <2>1
  <2>3. l \in Local /\ l \in req[q].todo /\ \A n \in Current(q) : n = l
    BY CurrentItem
  <2>4. k # q => r = req[k]
    BY <2>2 DEF TypeOK
  <2>5. CASE k = q /\ c = None /\ map[l] # None
    <3>1. r = Done(q, {l})
      BY <2>2, <2>5 DEF TypeOK
    <3>2. Backed(l)'
      BY <2>3, <2>5, BackedStays DEF BackupInv
    <3> QED BY <3>1, <3>2, DoneBacked
  <2>6. CASE k = q /\ ~(c = None /\ map[l] # None)
    <3>1. r = [req[q] EXCEPT !.pc = "write", !.found = c]
      BY <2>2, <2>6 DEF TypeOK
    <3>2. r.ok = req[q].ok /\ r.todo = req[q].todo /\ r.found = c
      BY <3>1 DEF TypeOK, Request
    <3>3. c \in Cloud \cup {None}
      BY <2>2 DEF Copies
    <3>4. c # None => Backed(l)
      <4>1. c # None => c \in Copies(local[l].hash)
        BY <2>2
      <4>2. local[l].state # "absent"
        BY <2>3 DEF BackupInv, RequestBacked
      <4> QED BY <4>1, <4>2 DEF Copies, Live, Backed, Stored
    <3>5. RequestBacked(r)
      BY <2>3, <3>2, <3>4 DEF RequestBacked, BackupInv, Current
    <3>6. r \in Request
      <4>1. req[q] \in Request
        BY DEF TypeOK
      <4> QED BY <3>1, <3>3, <4>1 DEF Request
    <3> QED BY <3>5, <3>6, RequestStays
  <2> QED BY <1>1, <2>4, <2>5, <2>6
<1>7. ASSUME NEW q \in Requests, NEW S \in SUBSET Current(q), \A l \in S : Backed(l)',
             req' = [req EXCEPT ![q] = Done(q, S)]
      PROVE  RequestBacked(r)'
  <2>1. k # q => r = req[k]
    BY <1>7 DEF TypeOK
  <2>2. k = q => r = Done(q, S)
    BY <1>7 DEF TypeOK
  <2> QED BY <1>1, <1>7, <2>1, <2>2, DoneBacked
<1>8. ASSUME NEW q \in Requests, Link(q)  PROVE RequestBacked(r)'
  <2>1. \A l \in Current(q) : Backed(l)
    BY <1>8 DEF Link, BackupInv, RequestBacked, Current
  <2>2. \A l \in Current(q) : Backed(l)'
    BY <2>1, CurrentItem, BackedStays
  <2> QED BY <1>7, <1>8, <2>2 DEF Link
<1>9. ASSUME NEW q \in Requests, Store(q)  PROVE RequestBacked(r)'
  <2>1. \A l \in Current(q) : Backed(l)'
    BY <1>9, StoreBacks
  <2> QED BY <1>7, <1>9, <2>1 DEF Store
<1>10. ASSUME NEW q \in Requests, ItemFails(q)  PROVE RequestBacked(r)'
  <2>1. req' = [req EXCEPT ![q] = Done(q, {})]
    BY <1>10 DEF ItemFails
  <2>2. {} \in SUBSET Current(q) /\ \A l \in {} : Backed(l)'
    OBVIOUS
  <2> QED BY <1>7, <2>1, <2>2
<1>11. ASSUME NEW q \in Requests, Respond(q)  PROVE RequestBacked(r)'
  <2>1. k # q => r = req[k]
    BY <1>11 DEF Respond, TypeOK
  <2>2. k = q => r = Free
    BY <1>11 DEF Respond, TypeOK
  <2>3. RequestBacked(Free)'
    BY DEF RequestBacked, Free
  <2> QED BY <1>1, <2>1, <2>2, <2>3
<1>12. CASE UNCHANGED req
  BY <1>1, <1>12
<1>13. Next \/ UNCHANGED vars
  OBVIOUS
<1> QED
  BY <1>3, <1>4, <1>5, <1>6, <1>8, <1>9, <1>10, <1>11, <1>12, <1>13
  DEF Next, vars, Push, Ingest, CreateLocal, DeleteLocal, CreateCloud, DeleteCloud, StartSync,
      SyncOver, Cancel, Mark, PullRead, PullCommit, PullAborts

LEMMA BackupStep == TypeOK /\ LinkInv /\ BackupInv /\ [Next]_vars => BackupInv'
<1> SUFFICES ASSUME TypeOK, LinkInv, BackupInv, [Next]_vars  PROVE BackupInv'
  OBVIOUS
<1>1. \A l \in Local : local'[l].synced => Backed(l)'
  BY SyncedStep
<1>2. \A l \in Local : map'[l] # None => Backed(l)'
  BY MapStep
<1>3. \A c \in Clients : \A l \in client'[c].ok : Backed(l)'
  BY ClientStep
<1>4. \A q \in Requests : RequestBacked(req[q])'
  <2> SUFFICES ASSUME NEW q \in Requests  PROVE RequestBacked(req[q])'
    OBVIOUS
  <2>1. \A r : r = req'[q] => RequestBacked(r)'
    BY RequestStep
  <2> QED BY <2>1 DEF RequestBacked
<1> QED BY <1>1, <1>2, <1>3, <1>4 DEF BackupInv

\* What the instance believes to be backed up was stored in the cloud: for any
\* number of overlapping pushes, and whatever fails, is lost or is deleted.
THEOREM SyncedCorrect == Spec => []SyncedIsStored
<1>1. BackupInv => SyncedIsStored
  BY DEF BackupInv, Backed, Stored, SyncedIsStored
<1> QED BY <1>1, LinkInit, LinkStep, BackupInit, BackupStep, InitType, StepType, PTL DEF Spec

-----------------------------------------------------------------------------
(* How many copies pushes leave                                            *)

\* The requests that found no copy of the content and are about to write one.
Creating(h) == {q \in Requests : /\ req[q].pc = "write" /\ req[q].found = None
                                 /\ \E l \in Current(q) : local[l].hash = h}

\* The inductive invariant behind NoDuplicateCopies: a request takes its place among
\* the creators while there is no copy, and gives it up for the copy it writes.
CopyInv ==
    \A h \in Content :
        Cardinality(PushedCopies(h)) + Cardinality(Creating(h)) <= Cardinality(Requests)

LEMMA Counts ==
    ASSUME NEW h
    PROVE  /\ IsFiniteSet(PushedCopies(h)) /\ Cardinality(PushedCopies(h)) \in Nat
           /\ IsFiniteSet(Creating(h)) /\ Cardinality(Creating(h)) \in Nat
           /\ IsFiniteSet(Requests) /\ Cardinality(Requests) \in Nat
<1>1. IsFiniteSet(Cloud) /\ IsFiniteSet(Requests)
  BY FS_Interval, SyncAssumption DEF Cloud, SyncAssumption
<1>2. PushedCopies(h) \subseteq Cloud /\ Creating(h) \subseteq Requests
  BY DEF PushedCopies, Copies, Creating
<1>3. IsFiniteSet(PushedCopies(h)) /\ IsFiniteSet(Creating(h))
  BY <1>1, <1>2, FS_Subset
<1> QED BY <1>1, <1>3, FS_CardinalityType

\* Only a request that is creating a row adds a copy.
LEMMA PushedStep ==
    ASSUME TypeOK, [Next]_vars, NEW h, NEW k \in PushedCopies(h)', k \notin PushedCopies(h)
    PROVE  \E q \in Requests : Store(q)
<1>1. /\ k \in Cloud /\ cloud'[k].state = "live" /\ cloud'[k].hash = h
      /\ cloud'[k].origin = "pushed"
  BY DEF PushedCopies, Copies, Live
<1>2. cloud'[k] # cloud[k]
  BY <1>1 DEF PushedCopies, Copies, Live
<1>3. ASSUME NEW c \in Cloud, CreateCloud(c)  PROVE FALSE
  <2>1. PICK g \in Content, o \in Foreign :
          cloud' = [cloud EXCEPT ![c] = [state |-> "live", hash |-> g, origin |-> o]]
    BY <1>3 DEF CreateCloud
  <2>2. o # "pushed"
    BY SyncAssumption DEF SyncAssumption
  <2> QED BY <1>1, <1>2, <2>1, <2>2 DEF TypeOK
<1>4. ASSUME NEW c \in Cloud, DeleteCloud(c)  PROVE FALSE
  BY <1>1, <1>2, <1>4 DEF DeleteCloud, TypeOK, CloudRow
<1>5. cloud' # cloud
  BY <1>2
<1>6. Next
  BY <1>5 DEF vars
<1> QED
  BY <1>3, <1>4, <1>5, <1>6
  DEF Next, Push, Ingest, CreateLocal, DeleteLocal, StartSync, AutoSync, SendPage, SyncOver,
      Cancel, Mark, Disconnect, Lookup, Link, ItemFails, Respond, PullRead, PullCommit,
      PullAborts

\* A request begins to create a row when it finds no copy.
LEMMA CreatingStep ==
    ASSUME TypeOK, LinkInv, BackupInv, [Next]_vars, NEW h, NEW k \in Creating(h)', k \notin Creating(h)
    PROVE  Lookup(k) /\ Copies(h) = {}
<1>1. PICK l \in Oldest(req'[k].todo) :
        /\ k \in Requests /\ req'[k].pc = "write" /\ req'[k].found = None
        /\ local'[l].hash = h
  BY DEF Creating, Current, Oldest
<1>2. ASSUME req'[k].todo = req[k].todo, req'[k].pc = req[k].pc, req'[k].found = req[k].found
      PROVE  FALSE
  <2>1. l \in Current(k)
    BY <1>1, <1>2 DEF Current
  <2>2. l \in Local /\ local[l].state # "absent"
    BY <1>1, <2>1, CurrentItem DEF BackupInv, RequestBacked
  <2>3. local[l].hash = h
    BY <1>1, <2>2, LocalGrows
  <2> QED BY <1>1, <1>2, <2>1, <2>3 DEF Creating
<1>3. ASSUME NEW q \in Requests, NEW c \in Clients, NEW S, Post(q, c, S)  PROVE FALSE
  BY <1>1, <1>2, <1>3 DEF Post, TypeOK, Free
<1>4. ASSUME NEW c \in Clients, Disconnect(c)  PROVE FALSE
  <2>1. PICK q \in Requests :
          \E n \in {Free, [req[q] EXCEPT !.from = "gone"]} : req' = [req EXCEPT ![q] = n]
    BY <1>4 DEF Disconnect
  <2>2. req[q] \in Request /\ req[k] \in Request
    BY <1>1 DEF TypeOK
  <2>3. k # q => req'[k] = req[k]
    BY <1>1, <2>1 DEF TypeOK
  <2>4. k = q => req'[k] = Free \/ req'[k] = [req[k] EXCEPT !.from = "gone"]
    BY <1>1, <2>1 DEF TypeOK
  <2> QED BY <1>1, <1>2, <2>2, <2>3, <2>4 DEF Free, Request
<1>5. ASSUME NEW q \in Requests, NEW S, req' = [req EXCEPT ![q] = Done(q, S)]  PROVE FALSE
  BY <1>1, <1>2, <1>5 DEF Done, TypeOK, Request
<1>6. ASSUME NEW q \in Requests, Respond(q)  PROVE FALSE
  BY <1>1, <1>2, <1>6 DEF Respond, TypeOK, Free
<1>7. ASSUME NEW q \in Requests, Lookup(q)  PROVE Lookup(k) /\ Copies(h) = {}
  <2>1. PICK n \in Current(q) :
          \E c \in IF Copies(local[n].hash) # {} THEN Copies(local[n].hash) ELSE {None} :
             req' = [req EXCEPT ![q] = IF c = None /\ map[n] # None THEN Done(q, {n})
                                       ELSE [@ EXCEPT !.pc = "write", !.found = c]]
    BY <1>7 DEF Lookup
  <2>2. PICK c \in IF Copies(local[n].hash) # {} THEN Copies(local[n].hash) ELSE {None} :
             req' = [req EXCEPT ![q] = IF c = None /\ map[n] # None THEN Done(q, {n})
                                       ELSE [@ EXCEPT !.pc = "write", !.found = c]]
    BY <2>1
  <2>3. req' = [req EXCEPT ![q] = [@ EXCEPT !.pc = "write", !.found = c]]
    BY <1>5, <2>2
  <2>4. k = q
    BY <1>1, <1>2, <2>3 DEF TypeOK
  <2>5. req'[q].found = c /\ req'[q].todo = req[q].todo
    BY <2>3 DEF TypeOK, Request
  <2>6. Copies(local[n].hash) = {}
    BY <1>1, <2>2, <2>4, <2>5 DEF Copies, None, Cloud
  <2>7. l = n /\ local' = local
    BY <1>1, <1>7, <2>4, <2>5, CurrentItem DEF Lookup, Current
  <2> QED BY <1>1, <1>7, <2>4, <2>6, <2>7
<1>8. req' # req
  BY <1>2
<1>9. Next
  BY <1>8 DEF vars
<1> QED
  BY <1>3, <1>4, <1>5, <1>6, <1>7, <1>8, <1>9
  DEF Next, Push, Ingest, CreateLocal, DeleteLocal, CreateCloud, DeleteCloud, StartSync,
      AutoSync, SendPage, SyncOver, Cancel, Mark, Link, Store, ItemFails, PullRead,
      PullCommit, PullAborts

\* A copy that is written takes the place of its creator.
LEMMA StoreCopies ==
    ASSUME TypeOK, NEW q \in Requests, Store(q), NEW h
    PROVE  \/ PushedCopies(h)' \subseteq PushedCopies(h)
           \/ /\ q \in Creating(h) /\ q \notin Creating(h)'
              /\ \E c : PushedCopies(h)' \subseteq PushedCopies(h) \cup {c}
<1>1. PICK l \in Current(q), c \in Cloud :
        cloud' = [cloud EXCEPT ![c] = [state |-> "live", hash |-> local[l].hash,
                                       origin |-> "pushed"]]
  BY DEF Store
<1>2. \A k \in Cloud \ {c} : cloud'[k] = cloud[k]
  BY <1>1 DEF TypeOK
<1>3. PushedCopies(h)' \subseteq PushedCopies(h) \cup {c}
  BY <1>2 DEF PushedCopies, Copies, Live
<1>4. CASE local[l].hash # h
  <2>1. cloud'[c].hash # h
    BY <1>1, <1>4 DEF TypeOK
  <2> QED BY <1>3, <2>1 DEF PushedCopies, Copies
<1>5. CASE local[l].hash = h
  <2>1. q \in Creating(h)
    BY <1>5 DEF Store, Creating
  <2>2. req'[q].pc = "lookup"
    BY DEF Store, Done, TypeOK, Request
  <2>3. q \notin Creating(h)'
    BY <2>2 DEF Creating
  <2> QED BY <1>3, <2>1, <2>3
<1> QED BY <1>4, <1>5

LEMMA CopyInit == Init => CopyInv
<1> SUFFICES ASSUME Init, NEW h \in Content
             PROVE  Cardinality(PushedCopies(h)) + Cardinality(Creating(h)) <= Cardinality(Requests)
  BY DEF CopyInv
<1>1. PushedCopies(h) = {} /\ Creating(h) = {}
  BY DEF Init, PushedCopies, Copies, Live, Creating, NoCloud, Free
<1>2. Cardinality(PushedCopies(h)) = 0 /\ Cardinality(Creating(h)) = 0
  BY <1>1, FS_EmptySet
<1> QED BY <1>2, Counts

LEMMA OneMore ==
    ASSUME NEW S, IsFiniteSet(S), NEW c
    PROVE  /\ IsFiniteSet(S \cup {c})
           /\ Cardinality(S \cup {c}) \in Nat
           /\ Cardinality(S \cup {c}) <= Cardinality(S) + 1
<1>1. IsFiniteSet(S \cup {c})
      /\ \/ Cardinality(S \cup {c}) = Cardinality(S)
         \/ Cardinality(S \cup {c}) = Cardinality(S) + 1
  BY FS_AddElement
<1>2. Cardinality(S) \in Nat /\ Cardinality(S \cup {c}) \in Nat
  BY <1>1, FS_CardinalityType
<1> QED BY <1>1, <1>2

LEMMA CopyStep == TypeOK /\ LinkInv /\ BackupInv /\ CopyInv /\ [Next]_vars => CopyInv'
<1> SUFFICES ASSUME TypeOK, LinkInv, BackupInv, CopyInv, [Next]_vars, NEW h \in Content
             PROVE  (Cardinality(PushedCopies(h)) + Cardinality(Creating(h))
                       <= Cardinality(Requests))'
  BY DEF CopyInv
<1> DEFINE P == PushedCopies(h)  C == Creating(h)  N == Cardinality(Requests)
<1>1. IsFiniteSet(P) /\ IsFiniteSet(C) /\ Cardinality(P) \in Nat /\ Cardinality(C) \in Nat
  BY Counts
<1>2. IsFiniteSet(Requests) /\ N \in Nat
  BY Counts
<1>3. Cardinality(P) + Cardinality(C) <= N
  BY DEF CopyInv
<1>4. C' \subseteq Requests
  BY DEF Creating
<1> SUFFICES Cardinality(P') + Cardinality(C') <= N
  OBVIOUS
<1>5. ASSUME NEW k \in C', k \notin C  PROVE Cardinality(P') + Cardinality(C') <= N
  <2>1. Lookup(k) /\ Copies(h) = {}
    BY <1>5, CreatingStep
  <2>2. P' = {}
    BY <2>1 DEF Lookup, PushedCopies, Copies, Live
  <2>3. Cardinality(P') = 0
    BY <2>2, FS_EmptySet
  <2>4. Cardinality(C') <= N /\ Cardinality(C') \in Nat
    BY <1>2, <1>4, FS_Subset, FS_CardinalityType
  <2> QED BY <2>3, <2>4, <1>2
<1>6. ASSUME C' \subseteq C, P' \subseteq P  PROVE Cardinality(P') + Cardinality(C') <= N
  <2> HIDE DEF P, C, N
  <2>1. /\ Cardinality(C') <= Cardinality(C) /\ Cardinality(C') \in Nat
        /\ Cardinality(P') <= Cardinality(P) /\ Cardinality(P') \in Nat
    BY <1>1, <1>6, FS_Subset, FS_CardinalityType
  <2> QED BY <1>1, <1>2, <1>3, <2>1
<1>7. ASSUME C' \subseteq C, NEW q \in C, q \notin C', NEW c, P' \subseteq P \cup {c}
      PROVE  Cardinality(P') + Cardinality(C') <= N
  <2> HIDE DEF P, C, N
  <2>1. IsFiniteSet(P \cup {c}) /\ Cardinality(P \cup {c}) <= Cardinality(P) + 1
    BY <1>1, OneMore
  <2>2. Cardinality(P \cup {c}) \in Nat
    BY <1>1, OneMore
  <2>3. Cardinality(P') <= Cardinality(P \cup {c}) /\ Cardinality(P') \in Nat
    BY <1>7, <2>1, FS_Subset, FS_CardinalityType
  <2>4. IsFiniteSet(C \ {q}) /\ Cardinality(C \ {q}) = Cardinality(C) - 1
    BY <1>1, <1>7, FS_RemoveElement
  <2>5. Cardinality(C') <= Cardinality(C \ {q}) /\ Cardinality(C') \in Nat
    <3>1. C' \subseteq C \ {q}
      BY <1>7
    <3> QED BY <2>4, <3>1, FS_Subset, FS_CardinalityType
  <2> QED BY <1>1, <1>2, <1>3, <2>1, <2>2, <2>3, <2>4, <2>5
<1>8. CASE C' \subseteq C /\ \E q \in Requests : Store(q)
  <2>1. PICK q \in Requests : Store(q)
    BY <1>8
  <2>2. \/ P' \subseteq P
        \/ /\ q \in C /\ q \notin C'
           /\ \E c : P' \subseteq P \cup {c}
    BY <2>1, StoreCopies
  <2> HIDE DEF P, C, N
  <2> QED BY <1>6, <1>7, <1>8, <2>2
<1>9. CASE C' \subseteq C /\ ~\E q \in Requests : Store(q)
  <2>1. P' \subseteq P
    BY <1>9, PushedStep
  <2> QED BY <1>6, <1>9, <2>1
<1> QED BY <1>5, <1>8, <1>9

\* When the cloud works on one batch at a time, any number of pushes, lost answers and
\* retries leave one copy of a content.  The run CloudSyncOverlap shows that two batches
\* at once are too many.
THEOREM CopiesCorrect ==
    ASSUME \A p, q \in Requests : p = q
    PROVE  Spec => []NoDuplicateCopies
<1>1. Cardinality(Requests) \in Nat /\ Cardinality(Requests) <= 1
  <2>1. PICK q : Requests \subseteq {q}
    OBVIOUS
  <2>2. IsFiniteSet({q}) /\ Cardinality({q}) = 1
    BY FS_Singleton
  <2>3. IsFiniteSet(Requests) /\ Cardinality(Requests) <= Cardinality({q})
    BY <2>1, <2>2, FS_Subset
  <2> QED BY <2>2, <2>3, FS_CardinalityType
<1>2. CopyInv => NoDuplicateCopies
  <2> SUFFICES ASSUME CopyInv, NEW h \in Content  PROVE Cardinality(PushedCopies(h)) <= 1
    BY DEF NoDuplicateCopies
  <2>1. Cardinality(PushedCopies(h)) + Cardinality(Creating(h)) <= Cardinality(Requests)
    BY DEF CopyInv
  <2> QED BY <1>1, <2>1, Counts
<1> QED
  BY <1>2, LinkInit, LinkStep, BackupInit, BackupStep, InitType, StepType, CopyInit, CopyStep, PTL DEF Spec
=============================================================================
