------------------------------ MODULE CloudSync ------------------------------
(***************************************************************************)
(* Backup of a self-hosted instance to the cloud: the manual sync and the  *)
(* automatic one (CloudSyncPushService), the cloud's ingestion of a pushed *)
(* batch (CloudSyncIngestService) and the pull (CloudSyncPullService).     *)
(*                                                                         *)
(* Two databases and the HTTP calls between them.  A call has two ends: a  *)
(* client that gives up, or whose process dies, leaves the cloud working   *)
(* on its request.  Any call and any write may fail, any number of times.  *)
(*                                                                         *)
(* Two syncs may run at once: the advisory lock of triggerSync belongs to  *)
(* the session of a pooled connection, is granted again to that connection *)
(* and is given up with it, and handleMemoryCreated takes no lock.         *)
(* Texts are left out.  An edit changes neither contentHash nor            *)
(* cloudSyncedAt, so an edited row is not sent again, and one edited in    *)
(* the cloud is skipped by a pull: contents below are content hashes, and  *)
(* nothing here says that two rows of one hash still have one text.        *)
(***************************************************************************)
EXTENDS Naturals, FiniteSets

CONSTANTS
    MaxLocal,   \* local rows, numbered in the order of created_at
    MaxCloud,   \* cloud rows
    Content,    \* content hashes
    Clients,    \* pushes that may run at once, manual or automatic
    Foreign,    \* whose memories the cloud gets from elsewhere
    Requests,   \* bound: pushed batches the cloud works on at once
    BatchSize   \* BATCH_SIZE (10)

ASSUME SyncAssumption ==
    /\ MaxLocal \in Nat /\ MaxCloud \in Nat
    /\ BatchSize \in Nat \ {0}
    /\ Foreign \subseteq {"default", "other"}
    /\ IsFiniteSet(Requests)

Local   == 1..MaxLocal
Cloud   == 1..MaxCloud
None    == 0

VARIABLES
    local,   \* Postgres of the instance: memories
    cloud,   \* Postgres of the cloud: the memories of the account
    map,     \* cloud: sync_id_map of this instance
    event,   \* heap: rows whose memory.created event is not handled yet
    client,  \* heap: what each push is doing
    req,     \* cloud heap: the batches being ingested
    pull,    \* heap: the page a running pull has read, {} without one
    fresh    \* cloud rows with updated_at after lastPulledAt

vars == <<local, cloud, map, event, client, req, pull, fresh>>

States   == {"absent", "live", "deleted"}
Hash     == Content \cup {None}    \* None in a row that does not exist
LocalRow == [state: States, hash: Hash, synced: BOOLEAN]
\* The pushes of an instance belong to the account's user 'default', as may rows
\* written in the cloud or by other instances; the rest belongs to other users.
Origin   == {"pushed", "default", "other"}
CloudRow == [state: States, hash: Hash, origin: Origin]
Client   == [pc: {"idle", "page", "wait", "mark"}, cursor: Local \cup {None},
             ok: SUBSET Local]
Request  == [pc: {"free", "lookup", "write"}, from: Clients \cup {"gone"},
             todo: SUBSET Local, found: Cloud \cup {None}, ok: SUBSET Local]
Item     == [id: Cloud, deleted: BOOLEAN, localId: Local \cup {None}]

NoLocal == [state |-> "absent", hash |-> None, synced |-> FALSE]
NoCloud == [state |-> "absent", hash |-> None, origin |-> "other"]
Waiting == [pc |-> "idle", cursor |-> None, ok |-> {}]
Free    == [pc |-> "free", from |-> "gone", todo |-> {}, found |-> None, ok |-> {}]

Init ==
    /\ local = [l \in Local |-> NoLocal]
    /\ cloud = [c \in Cloud |-> NoCloud]
    /\ map = [l \in Local |-> None]
    /\ event = {}
    /\ client = [c \in Clients |-> Waiting]
    /\ req = [q \in Requests |-> Free]
    /\ pull = {}
    /\ fresh = {}

Live(t, i)  == t[i].state = "live"
Oldest(S)   == {l \in S : \A n \in S : l <= n}
\* Variant: the place after the last row of a page, not the row itself.
PastNewest(S) == {l + 1 : l \in {k \in S : \A n \in S : n <= k}}
Newest(S)   == {l \in S : \A n \in S : n <= l}

-----------------------------------------------------------------------------
(* What the two applications do with their memories                        *)

\* A new memory, whose event an enabled auto-sync will handle.
CreateLocal(l) ==
    /\ \A n \in Local : n >= l => local[n].state = "absent"
    /\ \E h \in Content : local' = [local EXCEPT ![l] = [@ EXCEPT !.state = "live", !.hash = h]]
    /\ event' \in {event, event \cup {l}}
    /\ UNCHANGED <<cloud, map, client, req, pull, fresh>>

DeleteLocal(l) ==
    /\ Live(local, l)
    /\ local' = [local EXCEPT ![l].state = "deleted"]
    /\ UNCHANGED <<cloud, map, event, client, req, pull, fresh>>

\* Cloud rows are numbered as they are created.
Unused(c) == \A n \in Cloud : n >= c <=> cloud[n].state = "absent"

\* A memory is added in the cloud, or pushed by another instance of the account.
CreateCloud(c) ==
    /\ Unused(c)
    /\ \E h \in Content, o \in Foreign :
          cloud' = [cloud EXCEPT ![c] = [state |-> "live", hash |-> h, origin |-> o]]
    /\ fresh' = fresh \cup {c}
    /\ UNCHANGED <<local, map, event, client, req, pull>>

DeleteCloud(c) ==
    /\ Live(cloud, c)
    /\ cloud' = [cloud EXCEPT ![c].state = "deleted"]
    /\ fresh' = fresh \cup {c}
    /\ UNCHANGED <<local, map, event, client, req, pull>>

-----------------------------------------------------------------------------
(* The client: performSyncWithClient and syncBatchToCloud                  *)

Unsynced == {l \in Local : Live(local, l) /\ ~local[l].synced}

\* Variant: the page starts with the row of the cursor again.
PageFromCursor(c) == {l \in Unsynced : l >= client[c].cursor}

\* The rows a page may show.  "skip: 1" drops the first of them also when that
\* is not the row of the cursor, which a successful batch took out of the query.
PageAfterCursor(c) ==
    LET from == {l \in Unsynced : l >= client[c].cursor}
    IN  IF client[c].cursor = None THEN from ELSE from \ Oldest(from)

Batch(c) ==
    {l \in PageAfterCursor(c) : Cardinality({n \in PageAfterCursor(c) : n < l}) < BatchSize}

Post(q, c, S) ==
    /\ req[q].pc = "free"
    /\ req' = [req EXCEPT ![q] = [Free EXCEPT !.pc = "lookup", !.from = c, !.todo = S]]

StartSync(s) ==
    /\ client[s].pc = "idle"
    /\ client' = [client EXCEPT ![s] = [Waiting EXCEPT !.pc = "page"]]
    /\ UNCHANGED <<local, cloud, map, event, req, pull, fresh>>

\* The cursor moves to the last row of the batch, whatever becomes of it.
SendPage(s) ==
    /\ client[s].pc = "page"
    /\ Batch(s) # {}
    /\ \E q \in Requests : Post(q, s, Batch(s))
    /\ \E l \in Newest(Batch(s)) :
          client' = [client EXCEPT ![s] = [@ EXCEPT !.pc = "wait", !.cursor = l]]
    /\ UNCHANGED <<local, cloud, map, event, pull, fresh>>

SyncOver(s) ==
    /\ client[s].pc = "page"
    /\ Batch(s) = {}
    /\ client' = [client EXCEPT ![s] = Waiting]
    /\ UNCHANGED <<local, cloud, map, event, req, pull, fresh>>

\* A cancellation or the time limit, found before a page is read.
Cancel(s) ==
    /\ client[s].pc = "page"
    /\ client' = [client EXCEPT ![s] = Waiting]
    /\ UNCHANGED <<local, cloud, map, event, req, pull, fresh>>

\* handleMemoryCreated sends the row unless it is deleted, synced or not.
AutoSync(a, l) ==
    /\ client[a].pc = "idle"
    /\ l \in event
    /\ event' = event \ {l}
    /\ IF Live(local, l)
       THEN /\ \E q \in Requests : Post(q, a, {l})
            /\ client' = [client EXCEPT ![a].pc = "wait"]
       ELSE UNCHANGED <<client, req>>
    /\ UNCHANGED <<local, cloud, map, pull, fresh>>

\* A push when the rows of ok are still to be marked: then a manual sync, which
\* has a cursor, reads its next page.
Marking(c, ok) ==
    IF ok # {} THEN [client[c] EXCEPT !.pc = "mark", !.ok = ok]
    ELSE IF client[c].cursor = None THEN Waiting
    ELSE [client[c] EXCEPT !.pc = "page", !.ok = {}]

\* One row is marked; the error of a failed update is logged and dropped.
Mark(c) ==
    /\ client[c].pc = "mark"
    /\ \E l \in Oldest(client[c].ok) :
          /\ client' = [client EXCEPT ![c] = Marking(c, client[c].ok \ {l})]
          /\ local' = [local EXCEPT ![l].synced = TRUE] \/ UNCHANGED local
    /\ UNCHANGED <<cloud, map, event, req, pull, fresh>>

\* The call fails, is refused (a 401 ends the sync), or the process dies: what
\* reached the cloud may go on there.
Disconnect(c) ==
    /\ client[c].pc = "wait"
    /\ \E q \in Requests :
          /\ req[q].from = c
          /\ \E r \in {Free, [req[q] EXCEPT !.from = "gone"]} : req' = [req EXCEPT ![q] = r]
    /\ \E next \in {Marking(c, {}), Waiting} : client' = [client EXCEPT ![c] = next]
    /\ UNCHANGED <<local, cloud, map, event, pull, fresh>>

-----------------------------------------------------------------------------
(* The cloud: handleSyncPush, one transaction per item                     *)

Copies(h) == {c \in Cloud : Live(cloud, c) /\ cloud[c].hash = h /\ cloud[c].origin # "other"}

\* The item request q is at, and the request when its items S came out well or not.
Current(q) == Oldest(req[q].todo)
Done(q, S) == [req[q] EXCEPT !.pc = "lookup", !.found = None, !.todo = @ \ Current(q),
                             !.ok = @ \cup S]

\* Variant: only the id map tells what was pushed before.
LookupByIdOnly(q) ==
    /\ req[q].pc = "lookup"
    /\ \E l \in Current(q) :
          req' = [req EXCEPT ![q] = IF map[l] # None THEN Done(q, {l})
                                    ELSE [@ EXCEPT !.pc = "write", !.found = None]]
    /\ UNCHANGED <<local, cloud, map, event, client, pull, fresh>>

\* A live row of the content is to be linked; else a row that was pushed before
\* is skipped, its hash being what it was; else a row is to be created.
Lookup(q) ==
    /\ req[q].pc = "lookup"
    /\ \E l \in Current(q) :
          LET copies == Copies(local[l].hash)
          IN  \E c \in IF copies # {} THEN copies ELSE {None} :
                 req' = [req EXCEPT ![q] = IF c = None /\ map[l] # None THEN Done(q, {l})
                                           ELSE [@ EXCEPT !.pc = "write", !.found = c]]
    /\ UNCHANGED <<local, cloud, map, event, client, pull, fresh>>

\* upsertSyncIdMapTx: a cloud row linked to another local row makes Postgres
\* undo the transaction, which still reports success.
Link(q) ==
    /\ req[q].pc = "write" /\ req[q].found # None
    /\ \E l \in Current(q) :
          map' = IF \E n \in Local \ {l} : map[n] = req[q].found THEN map
                 ELSE [map EXCEPT ![l] = req[q].found]
    /\ req' = [req EXCEPT ![q] = Done(q, Current(q))]
    /\ UNCHANGED <<local, cloud, event, client, pull, fresh>>

Store(q) ==
    /\ req[q].pc = "write" /\ req[q].found = None
    /\ \E l \in Current(q), c \in Cloud :
          /\ Unused(c)
          /\ cloud' = [cloud EXCEPT ![c] = [state |-> "live", hash |-> local[l].hash,
                                            origin |-> "pushed"]]
          /\ map' = [map EXCEPT ![l] = c]
          /\ fresh' = fresh \cup {c}
    /\ req' = [req EXCEPT ![q] = Done(q, Current(q))]
    /\ UNCHANGED <<local, event, client, pull>>

\* Variant: a failed item is reported like a stored one.
ItemFailsSilently(q) ==
    /\ req[q].todo # {}
    /\ req' = [req EXCEPT ![q] = Done(q, Current(q))]
    /\ UNCHANGED <<local, cloud, map, event, client, pull, fresh>>

ItemFails(q) ==
    /\ req[q].todo # {}
    /\ req' = [req EXCEPT ![q] = Done(q, {})]
    /\ UNCHANGED <<local, cloud, map, event, client, pull, fresh>>

Respond(q) ==
    /\ req[q].pc = "lookup" /\ req[q].todo = {}
    /\ req' = [req EXCEPT ![q] = Free]
    /\ client' = IF req[q].from = "gone" THEN client
                 ELSE [client EXCEPT ![req[q].from] = Marking(req[q].from, req[q].ok)]
    /\ UNCHANGED <<local, cloud, map, event, pull, fresh>>

-----------------------------------------------------------------------------
(* triggerPull, whose writes are one transaction of the instance           *)

LocalId(c) == IF \E l \in Local : map[l] = c THEN CHOOSE l \in Local : map[l] = c ELSE None

\* handleSyncPull: rows updated since the last pull, with their local ids.
PullRead ==
    /\ pull = {} /\ fresh # {}
    /\ pull' = {[id |-> c, deleted |-> cloud[c].state = "deleted", localId |-> LocalId(c)] :
                   c \in fresh}
    /\ UNCHANGED <<local, cloud, map, event, client, req, fresh>>

\* The instance has a live row of the item's content: the item is skipped.
Known(i) == \E l \in Local : Live(local, l) /\ local[l].hash = cloud[i.id].hash

Tombstoned == {i.localId : i \in {j \in pull : ~Known(j) /\ j.deleted}}

\* The contents a pull gives local row l: those of live cloud rows it was pushed
\* as, when they are not its own.
Changed(l) == {cloud[i.id].hash :
                 i \in {j \in pull : /\ ~Known(j) /\ ~j.deleted /\ j.localId = l
                                     /\ cloud[j.id].hash # local[l].hash}}

\* An item whose local row is gone is created again only without a local id.
Missing == {cloud[i.id].hash : i \in {j \in pull : ~Known(j) /\ j.localId = None}}

\* One new row per missing content, at any place of the order of created_at.
\* Rows updated between the read and this commit count as pulled.
PullCommit ==
    /\ pull # {}
    /\ \E new \in [Missing -> {l \in Local : local[l].state = "absent"}] :
          /\ \A g, h \in Missing : new[g] = new[h] => g = h
          /\ local' = [l \in Local |->
                IF l \in Tombstoned THEN [local[l] EXCEPT !.state = "deleted"]
                ELSE IF Changed(l) # {}
                THEN [local[l] EXCEPT !.hash = CHOOSE h \in Changed(l) : TRUE]
                ELSE IF \E h \in Missing : new[h] = l
                THEN [state |-> "live", hash |-> CHOOSE h \in Missing : new[h] = l, synced |-> FALSE]
                ELSE local[l]]
    /\ pull' = {}
    /\ fresh' = {}
    /\ UNCHANGED <<cloud, map, event, client, req>>

\* The cloud answers with an error, or the transaction times out.
PullAborts ==
    /\ pull # {}
    /\ pull' = {}
    /\ UNCHANGED <<local, cloud, map, event, client, req, fresh>>

-----------------------------------------------------------------------------
Push(c)   == SendPage(c) \/ SyncOver(c) \/ Cancel(c) \/ Mark(c) \/ Disconnect(c)
Ingest(q) == Lookup(q) \/ Link(q) \/ Store(q) \/ ItemFails(q) \/ Respond(q)

Next ==
    \/ \E l \in Local : CreateLocal(l) \/ DeleteLocal(l)
    \/ \E c \in Cloud : CreateCloud(c) \/ DeleteCloud(c)
    \/ \E c \in Clients : StartSync(c) \/ Push(c) \/ \E l \in Local : AutoSync(c, l)
    \/ \E q \in Requests : Ingest(q)
    \/ PullRead \/ PullCommit \/ PullAborts

Spec == Init /\ [][Next]_vars

\* A push goes on, and the cloud works on what it was sent; nobody owes a sync.
\* Posting is fair in the strong sense: only the bound Requests ever delays it.
Fairness ==
    /\ \A c \in Clients : SF_vars(SendPage(c)) /\ WF_vars(SyncOver(c)) /\ WF_vars(Mark(c))
    /\ \A q \in Requests : WF_vars(Ingest(q))
FairSpec == Spec /\ Fairness

-----------------------------------------------------------------------------
(* Properties                                                              *)

\* Every variable stays in its type.
TypeOK ==
    /\ local \in [Local -> LocalRow]
    /\ cloud \in [Cloud -> CloudRow]
    /\ map \in [Local -> Cloud \cup {None}]
    /\ event \subseteq Local
    /\ client \in [Clients -> Client]
    /\ req \in [Requests -> Request]
    /\ pull \subseteq Item
    /\ fresh \subseteq Cloud

\* A row the instance believes to be backed up was stored in the cloud, whatever
\* was lost, refused, undone or sent twice: the cloud holds a row of its contentHash
\* for the user of the sync, at worst one that was deleted there.  That its text is
\* the one the row has after an edit is not said, and not so.
SyncedIsStored ==
    \A l \in Local : local[l].synced =>
        \E c \in Cloud : /\ cloud[c].state # "absent"
                         /\ cloud[c].hash = local[l].hash /\ cloud[c].origin # "other"

\* However often a memory is pushed, by retries after lost answers, by the automatic
\* push and by a manual sync, the cloud creates one copy of its content.
PushedCopies(h) == {c \in Copies(h) : cloud[c].origin = "pushed"}
NoDuplicateCopies == \A h \in Content : Cardinality(PushedCopies(h)) <= 1

\* A sync comes to its end whatever fails and whichever rows are refused.
SyncTerminates == \A c \in Clients : client[c].pc # "idle" ~> client[c].pc = "idle"

\* A pull that learns of the deletion of a memory's cloud copy deletes the memory.
PullAppliesDeletions ==
    [][PullCommit => \A i \in pull :
          i.deleted /\ i.localId # None => local'[i.localId].state # "live"]_vars
=============================================================================
