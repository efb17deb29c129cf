-------------------------------- MODULE Cache --------------------------------
(***************************************************************************)
(* Cache (cache.go): clients that call the API, the bounded channel setBuf,*)
(* and the goroutine processItems that applies what it receives from it to *)
(* the policy and to the store.                                            *)
(*                                                                         *)
(* A client call is split at its accesses to shared state; the processor   *)
(* at its calls into the policy and the store.  Values are numbered in the *)
(* order of the Set calls that bring them, so that a value has one origin. *)
(***************************************************************************)
EXTENDS Store, Policy, FiniteSets

CONSTANTS
    Clients,        \* goroutines that use the cache
    Keys,           \* user keys
    KeyHash,        \* first result of keyToHash: key -> hash
    ConflictHash,   \* second result of keyToHash: key -> conflict
    TTLs,           \* the time-to-live arguments, 0 for none
    Coster(_),      \* Config.Cost, 0 when it is nil
    InternalCost,   \* itemSize, 0 with IgnoreInternalCost
    SetBufSize,     \* capacity of setBuf
    Ops,            \* the API calls clients make
    MaxCalls,       \* bound on the number of calls
    MaxTime,        \* bound on the clock
    NoClient        \* a nil *sync.WaitGroup

ASSUME CacheConstants ==
    /\ Keys # {}
    /\ KeyHash \in [Keys -> Hashes]
    /\ ConflictHash \in [Keys -> Nat]
    /\ TTLs \subseteq Nat
    /\ \A v \in 0..MaxCalls : Coster(v) \in Nat
    /\ InternalCost \in Nat
    /\ SetBufSize \in Nat \ {0}
    /\ MaxCalls \in Nat
    /\ MaxTime \in Nat
    /\ NoClient \notin Clients

VARIABLES
    setBuf,         \* the channel: a sequence of items
    setBufClosed,   \* the channels setBuf, stop and done are closed
    isClosed,       \* Cache.isClosed
    panicked,       \* a goroutine panicked, which ends the program
    pc,             \* pc[c]: what client c does next
    cur,            \* cur[c]: the item client c is working on
    closing,        \* closing[c]: Clear was called by Close
    wgDone,         \* clients whose wait group was released
    shards,         \* keys whose shard Clear has yet to empty
    pp,             \* what processItems does next
    pitem,          \* the item it works on
    work,           \* expirationMap.cleanup: entries still to visit
    cleanNow,       \* its now
    calls,          \* number of calls so far
    exits,          \* value -> number of times onExit received it
    refused         \* values whose Set returned false

clientVars == <<pc, cur, closing>>
procVars == <<pp, pitem, work, cleanNow>>
ghostVars == <<calls, exits, refused>>
chanVars == <<setBuf, setBufClosed, isClosed, panicked, wgDone>>
cacheVars == <<storeVars, now, policyVars, clientVars, procVars, ghostVars,
               chanVars, shards>>

Conflicts == {ConflictHash[k] : k \in Keys}
Values == 1..MaxCalls
Times == Nat \cup {ZeroTime}

\* key and conflict are what keyToHash makes of some user key.
KnownPair(key, conflict) ==
    \E k \in Keys : KeyHash[k] = key /\ ConflictHash[k] = conflict

Items == {i \in [flag : {"new", "update", "delete"}, key : Hashes,
                 conflict : Conflicts, value : Values \cup {ZeroValue},
                 cost : Nat, exp : Times, wg : Clients \cup {NoClient}] :
            /\ KnownPair(i.key, i.conflict)
            /\ i.flag = "delete" => i.wg = NoClient}

ClientPcs == {"idle", "update", "send", "del", "sendDel", "sendWait", "waiting",
              "ttl", "closeClear", "stop", "drain", "policyClear", "clearShards",
              "emClear", "restart", "closeStop", "closeChans", "closeDone"}
ProcPcs == {"select", "add", "victims", "delStore", "clean", "cleanDel", "dead"}

-----------------------------------------------------------------------------
(* Building blocks *)

\* onExit(v); the zero value, which Del and Cleanup also hand to the callbacks,
\* is no value a Set brought and is not counted.
ExitsAfter(v) == IF v \in DOMAIN exits THEN [exits EXCEPT ![v] = @ + 1] ELSE exits
OnExit(v) == exits' = ExitsAfter(v)

Goto(c, label) == pc' = [pc EXCEPT ![c] = label]

\* Client c calls op.  A call made when isClosed is set returns at once and
\* changes nothing.
Call(c, op) ==
    /\ op \in Ops
    /\ pc[c] = "idle"
    /\ ~isClosed
    /\ calls < MaxCalls
    /\ calls' = calls + 1

NewItem(flag, k, value, cost, exp, wg) ==
    [flag |-> flag, key |-> KeyHash[k], conflict |-> ConflictHash[k],
     value |-> value, cost |-> cost, exp |-> exp, wg |-> wg]

\* The item of Wait, of which only the wait group is looked at; with NoClient, no
\* item
WaitItem(wg) ==
    NewItem("new", CHOOSE k \in Keys : TRUE, ZeroValue, 0, ZeroTime, wg)

\* Client c's call returns.
Return(c) ==
    /\ Goto(c, "idle")
    /\ cur' = [cur EXCEPT ![c] = WaitItem(NoClient)]

\* c.setBuf <- i, when the channel has room; a send on a closed channel panics
CanSendOneMore == Len(setBuf) <= SetBufSize \* mutant
CanSend == Len(setBuf) < SetBufSize
Send(i) == setBuf' = Append(setBuf, i) /\ UNCHANGED panicked
Panic == panicked' = TRUE

-----------------------------------------------------------------------------
(* SetWithTTL.  A negative ttl returns false at once, as a closed cache does. *)

ExpirationOf(ttl) == IF ttl = 0 THEN ZeroTime ELSE now + ttl

SetInvoke(c, k, cost, ttl) ==
    /\ Call(c, "Set")
    /\ cur' = [cur EXCEPT ![c] = NewItem("new", k, calls + 1, cost,
                                         ExpirationOf(ttl), NoClient)]
    /\ exits' = Put(exits, calls + 1, 0)
    /\ Goto(c, "update")
    /\ UNCHANGED <<storeVars, now, policyVars, closing, procVars, refused,
                   chanVars, shards>>

\* storedItems.Update, and onExit of the value it replaced
SetUpdate(c) ==
    /\ pc[c] = "update"
    /\ StoreUpdate(cur[c])
    /\ IF Replaceable(cur[c])
       THEN /\ OnExit(data[cur[c].key].value)
            /\ cur' = [cur EXCEPT ![c].flag = "update"]
       ELSE UNCHANGED <<exits, cur>>
    /\ Goto(c, "send")
    /\ UNCHANGED <<now, policyVars, closing, procVars, calls, refused,
                   chanVars, shards>>

\* The select: a full buffer drops a new item, and an update's cost change
SetSend(c) ==
    /\ pc[c] = "send"
    /\ \/ /\ setBufClosed
          /\ Panic
          /\ UNCHANGED <<setBuf, metrics, refused, pc, cur>>
       \/ /\ ~setBufClosed /\ CanSend
          /\ Send(cur[c])
          /\ Return(c)
          /\ UNCHANGED <<metrics, refused>>
       \/ /\ ~setBufClosed /\ ~CanSend
          /\ Return(c)
          /\ IF cur[c].flag = "update" THEN UNCHANGED <<metrics, refused>>
             ELSE /\ metrics' = Bump(metrics, "dropSets", 1)
                  /\ refused' = refused \cup {cur[c].value}
          /\ UNCHANGED <<setBuf, panicked>>
    /\ UNCHANGED <<storeVars, now, keyCosts, used, maxCost, addVars, closing,
                   procVars, calls, exits, setBufClosed, isClosed, wgDone, shards>>

-----------------------------------------------------------------------------
(* Del *)

DelInvoke(c, k) ==
    /\ Call(c, "Del")
    /\ cur' = [cur EXCEPT ![c] = NewItem("delete", k, ZeroValue, 0, ZeroTime,
                                         NoClient)]
    /\ Goto(c, "del")
    /\ UNCHANGED <<storeVars, now, policyVars, closing, procVars, exits, refused,
                   chanVars, shards>>

DelStore(c) ==
    /\ pc[c] = "del"
    /\ StoreDel(cur[c].key, cur[c].conflict)
    /\ OnExit(DelValue(cur[c].key, cur[c].conflict))
    /\ Goto(c, "sendDel")
    /\ UNCHANGED <<now, policyVars, cur, closing, procVars, calls, refused,
                   chanVars, shards>>

\* A blocking send, which ends the call or for Wait its first half
SendItem(c, from, Then(_)) ==
    /\ pc[c] = from
    /\ \/ /\ setBufClosed
          /\ Panic
          /\ UNCHANGED <<setBuf, pc, cur>>
       \/ /\ ~setBufClosed /\ CanSend
          /\ Send(cur[c])
          /\ Then(c)
    /\ UNCHANGED <<storeVars, now, policyVars, closing, procVars, ghostVars,
                   setBufClosed, isClosed, wgDone, shards>>

DelSend(c) == SendItem(c, "sendDel", Return)

-----------------------------------------------------------------------------
(* Wait *)

WaitInvoke(c) ==
    /\ Call(c, "Wait")
    /\ cur' = [cur EXCEPT ![c] = WaitItem(c)]
    /\ Goto(c, "sendWait")
    /\ UNCHANGED <<storeVars, now, policyVars, closing, procVars, exits, refused,
                   chanVars, shards>>

Block(c) == Goto(c, "waiting") /\ UNCHANGED cur

WaitSend(c) == SendItem(c, "sendWait", Block)

WaitReturn(c) ==
    /\ pc[c] = "waiting"
    /\ c \in wgDone
    /\ wgDone' = wgDone \ {c}
    /\ Return(c)
    /\ UNCHANGED <<storeVars, now, policyVars, closing, procVars, ghostVars,
                   setBuf, setBufClosed, isClosed, panicked, shards>>

-----------------------------------------------------------------------------
(* Get and GetTTL.  Get's push to the ring buffer is left to the estimates.  *)

Get(c, k) ==
    /\ Call(c, "Get")
    /\ metrics' = Bump(metrics, IF Found(KeyHash[k], ConflictHash[k])
                                THEN "hit" ELSE "miss", 1)
    /\ UNCHANGED <<storeVars, now, keyCosts, used, maxCost, addVars, pc, cur,
                   closing, procVars, exits, refused, chanVars, shards>>

\* GetTTL, which does not look at isClosed; nothing is left to do on a miss
GetTTLInvoke(c, k) ==
    /\ "GetTTL" \in Ops
    /\ pc[c] = "idle"
    /\ calls < MaxCalls
    /\ Found(KeyHash[k], ConflictHash[k])
    /\ calls' = calls + 1
    /\ cur' = [cur EXCEPT ![c] = NewItem("new", k, ZeroValue, 0, ZeroTime, NoClient)]
    /\ Goto(c, "ttl")
    /\ UNCHANGED <<storeVars, now, policyVars, closing, procVars, exits, refused,
                   chanVars, shards>>

\* The second look (storedItems.Expiration), from which the result is computed.
\* An entry deleted since the first look has a zero expiration: it is reported as
\* one that never expires.
GetTTLRead(c) ==
    /\ pc[c] = "ttl"
    /\ Return(c)
    /\ UNCHANGED <<storeVars, now, policyVars, closing, procVars, ghostVars,
                   chanVars, shards>>

-----------------------------------------------------------------------------
(* Clear and Close *)

ClearInvoke(c) ==
    /\ Call(c, "Clear")
    /\ Goto(c, "stop")
    /\ UNCHANGED <<storeVars, now, policyVars, cur, closing, procVars, exits,
                   refused, chanVars, shards>>

CloseInvoke(c) ==
    /\ Call(c, "Close")
    /\ closing' = [closing EXCEPT ![c] = TRUE]
    /\ Goto(c, "closeClear")
    /\ UNCHANGED <<storeVars, now, policyVars, cur, procVars, exits, refused,
                   chanVars, shards>>

\* Mutant: Close does not clear.
CloseNoClear(c) ==
    /\ pc[c] = "closeClear"
    /\ Goto(c, "closeStop")
    /\ UNCHANGED <<storeVars, now, policyVars, cur, closing, procVars, ghostVars,
                   chanVars, shards>>

\* Clear, called by Close, looks at isClosed again.
CloseClear(c) ==
    /\ pc[c] = "closeClear"
    /\ Goto(c, IF isClosed THEN "closeStop" ELSE "stop")
    /\ UNCHANGED <<storeVars, now, policyVars, cur, closing, procVars, ghostVars,
                   chanVars, shards>>

\* c.stop <- struct{}{}; <-c.done: the processor, found at its select, returns.
\* Nobody else can tell the two rendezvous apart.
StopProcessor(c, from, to) ==
    /\ pc[c] = from
    /\ \/ /\ setBufClosed
          /\ Panic
          /\ UNCHANGED <<pc, pp>>
       \/ /\ ~setBufClosed /\ pp = "select"
          /\ pp' = "dead"
          /\ Goto(c, to)
          /\ UNCHANGED panicked
    /\ UNCHANGED <<storeVars, now, policyVars, cur, closing, pitem, work, cleanNow,
                   ghostVars, setBuf, setBufClosed, isClosed, wgDone, shards>>

ClearStop(c) == StopProcessor(c, "stop", "drain")

\* Mutants: a new value is dropped silently; waiters are not released.
DrainedSilently(i) ==
    IF i.wg # NoClient THEN wgDone' = wgDone \cup {i.wg} /\ UNCHANGED exits
    ELSE UNCHANGED <<exits, wgDone>>
DrainedNotReleased(i) ==
    IF i.flag = "new" THEN OnExit(i.value) /\ UNCHANGED wgDone
    ELSE UNCHANGED <<exits, wgDone>>

\* What Clear does with an item of setBuf: the value of an update is in the
\* store already.
Drained(i) ==
    IF i.wg # NoClient THEN wgDone' = wgDone \cup {i.wg} /\ UNCHANGED exits
    ELSE /\ IF i.flag = "update" THEN UNCHANGED exits ELSE OnExit(i.value)
         /\ UNCHANGED wgDone

\* One iteration of the loop that empties setBuf
Drain(c) ==
    /\ pc[c] = "drain"
    /\ \/ /\ setBuf = <<>>
          /\ Goto(c, "policyClear")
          /\ UNCHANGED <<setBuf, wgDone, exits>>
       \/ /\ setBuf # <<>>
          /\ setBuf' = Tail(setBuf)
          /\ Drained(Head(setBuf))
          /\ UNCHANGED pc
    /\ UNCHANGED <<storeVars, now, policyVars, cur, closing, procVars, calls,
                   refused, setBufClosed, isClosed, panicked, shards>>

\* Mutant: the shards are not cleared.
ClearPolicyOnly(c) ==
    /\ pc[c] = "policyClear"
    /\ PolicyClear
    /\ Goto(c, "emClear")
    /\ UNCHANGED <<storeVars, now, cur, closing, procVars, ghostVars, chanVars, shards>>

ClearPolicy(c) ==
    /\ pc[c] = "policyClear"
    /\ PolicyClear
    /\ shards' = Hashes
    /\ Goto(c, "clearShards")
    /\ UNCHANGED <<storeVars, now, cur, closing, procVars, ghostVars, chanVars>>

\* storedItems.Clear: onEvict of the entries of one shard after the other.
\* Every hash stands for a shard of its own, in any order.
ClearShards(c) ==
    /\ pc[c] = "clearShards"
    /\ \E h \in shards :
          /\ ClearShard(h)
          /\ OnExit(DelValue(h, 0))
          /\ shards' = shards \ {h}
          /\ IF shards = {h} THEN Goto(c, "emClear") ELSE UNCHANGED pc
    /\ UNCHANGED <<now, policyVars, cur, closing, procVars, calls, refused,
                   chanVars>>

ClearExpiry(c) ==
    /\ pc[c] = "emClear"
    /\ emClear
    /\ Goto(c, "restart")
    /\ UNCHANGED <<now, policyVars, cur, closing, procVars, ghostVars, chanVars,
                   shards>>

\* Metrics.Clear, and go c.processItems()
ClearRestart(c) ==
    /\ pc[c] = "restart"
    /\ metrics' = NoMetrics
    /\ pp' = "select"
    /\ Goto(c, IF closing[c] THEN "closeStop" ELSE "idle")
    /\ UNCHANGED <<storeVars, now, keyCosts, used, maxCost, addVars, cur, closing,
                   pitem, work, cleanNow, ghostVars, chanVars, shards>>

CloseStop(c) == StopProcessor(c, "closeStop", "closeChans")

\* close of stop, done and setBuf
CloseChans(c) ==
    /\ pc[c] = "closeChans"
    /\ setBufClosed' = TRUE
    /\ Goto(c, "closeDone")
    /\ UNCHANGED <<storeVars, now, policyVars, cur, closing, procVars, ghostVars,
                   setBuf, isClosed, panicked, wgDone, shards>>

\* cachePolicy.Close, cleanupTicker.Stop, and only then isClosed
CloseDone(c) ==
    /\ pc[c] = "closeDone"
    /\ isClosed' = TRUE
    /\ closing' = [closing EXCEPT ![c] = FALSE]
    /\ Goto(c, "idle")
    /\ UNCHANGED <<storeVars, now, policyVars, cur, procVars, ghostVars, setBuf,
                   setBufClosed, panicked, wgDone, shards>>

ChangeMaxCost(c, cost) ==
    /\ "UpdateMaxCost" \in Ops
    /\ pc[c] = "idle"
    /\ calls < MaxCalls
    /\ calls' = calls + 1
    /\ UpdateMaxCost(cost)
    /\ UNCHANGED <<storeVars, now, clientVars, procVars, exits, refused, chanVars,
                   shards>>

-----------------------------------------------------------------------------
(* processItems *)

\* The client's share of an action of the processor
ClientsUnchanged == UNCHANGED <<clientVars, calls, refused, setBufClosed, isClosed,
                                panicked, shards>>

ItemCost(i) ==
    (IF i.cost = 0 /\ i.flag # "delete" THEN Coster(i.value) ELSE i.cost)
        + InternalCost

\* i := <-c.setBuf
Receive ==
    /\ pp = "select"
    /\ setBuf # <<>>
    /\ setBuf' = Tail(setBuf)

ReceiveWait ==
    /\ Receive
    /\ Head(setBuf).wg # NoClient
    /\ wgDone' = wgDone \cup {Head(setBuf).wg}
    /\ ClientsUnchanged
    /\ UNCHANGED <<storeVars, now, policyVars, procVars, exits>>

ReceiveFlag(flag) == Receive /\ Head(setBuf).wg = NoClient /\ Head(setBuf).flag = flag

ReceiveNew ==
    /\ ReceiveFlag("new")
    /\ AddCall(Head(setBuf).key, ItemCost(Head(setBuf)))
    /\ pitem' = Head(setBuf)
    /\ pp' = "add"
    /\ ClientsUnchanged
    /\ UNCHANGED <<storeVars, now, work, cleanNow, exits, wgDone>>

ReceiveUpdate ==
    /\ ReceiveFlag("update")
    /\ PolicyUpdate(Head(setBuf).key, ItemCost(Head(setBuf)))
    /\ ClientsUnchanged
    /\ UNCHANGED <<storeVars, now, procVars, exits, wgDone>>

ReceiveDelete ==
    /\ ReceiveFlag("delete")
    /\ PolicyDel(Head(setBuf).key)
    /\ pitem' = Head(setBuf)
    /\ pp' = "delStore"
    /\ ClientsUnchanged
    /\ UNCHANGED <<storeVars, now, work, cleanNow, exits, wgDone>>

\* Mutant: the store is left to the immediate deletion in Del.
DeleteNotStored ==
    /\ pp = "delStore"
    /\ pitem' = WaitItem(NoClient)
    /\ pp' = "select"
    /\ ClientsUnchanged
    /\ UNCHANGED <<storeVars, now, policyVars, work, cleanNow, exits, setBuf, wgDone>>

DeleteStored ==
    /\ pp = "delStore"
    /\ StoreDel(pitem.key, pitem.conflict)
    /\ OnExit(DelValue(pitem.key, pitem.conflict))
    /\ pitem' = WaitItem(NoClient)
    /\ pp' = "select"
    /\ ClientsUnchanged
    /\ UNCHANGED <<now, policyVars, work, cleanNow, setBuf, wgDone>>

\* cachePolicy.Add, which runs between ReceiveNew and Added or Rejected
Admit ==
    /\ pp = "add"
    /\ AddStep
    /\ ClientsUnchanged
    /\ UNCHANGED <<storeVars, now, procVars, exits, setBuf, wgDone>>

\* The caller of Add keeps the victims and goes on to evict them.
LeaveAdd(result) ==
    /\ pp = "add"
    /\ addPc = result
    /\ addPc' = "none"
    /\ pitem' = WaitItem(NoClient)
    /\ pp' = IF victims = <<>> THEN "select" ELSE "victims"
    /\ ClientsUnchanged
    /\ UNCHANGED <<now, keyCosts, used, maxCost, addArg, est, sample, victims, work,
                   cleanNow, setBuf, wgDone>>

Added ==
    /\ LeaveAdd("added")
    /\ StoreSet(pitem)
    /\ metrics' = Bump(metrics, "keyAdd", 1)
    /\ UNCHANGED exits

Rejected ==
    /\ LeaveAdd("rejected")
    /\ OnExit(pitem.value)
    /\ UNCHANGED <<storeVars, metrics>>

\* One iteration of the loop over victims
EvictVictim ==
    /\ pp = "victims"
    /\ StoreDel(Head(victims).key, 0)
    /\ OnExit(DelValue(Head(victims).key, 0))
    /\ victims' = Tail(victims)
    /\ pp' = IF Len(victims) = 1 THEN "select" ELSE "victims"
    /\ ClientsUnchanged
    /\ UNCHANGED <<now, keyCosts, used, maxCost, metrics, addPc, addArg, est, sample,
                   pitem, work, cleanNow, setBuf, wgDone>>

-----------------------------------------------------------------------------
(* storedItems.Cleanup.  The ticker's channel may hold a tick at any time. *)

CleanupStart ==
    /\ pp = "select"
    /\ emExtract(now)
    /\ work' = DueEntries(now)
    /\ cleanNow' = now
    /\ pp' = IF DueEntries(now) = {} THEN "select" ELSE "clean"
    /\ ClientsUnchanged
    /\ UNCHANGED <<now, policyVars, pitem, exits, setBuf, wgDone>>

NextDue(w) == w \in work /\ \A x \in work : w.bucket <= x.bucket

\* store.Expiration(key) and the check that the key is indeed expired; if so
\* policy.Del, which no client step can tell from the check.  pitem is what
\* remains to be deleted from the store.
CleanupCheck ==
    /\ pp = "clean"
    /\ \E w \in work :
          /\ NextDue(w)
          /\ work' = work \ {w}
          /\ IF Expiration(w.key) > cleanNow
             THEN /\ pp' = IF work = {w} THEN "select" ELSE "clean"
                  /\ UNCHANGED <<policyVars, pitem>>
             ELSE /\ pp' = "cleanDel"
                  /\ pitem' = [WaitItem(NoClient) EXCEPT !.key = w.key,
                                                        !.conflict = w.conflict]
                  /\ PolicyDel(w.key)
    /\ ClientsUnchanged
    /\ UNCHANGED <<storeVars, now, cleanNow, exits, setBuf, wgDone>>

\* store.Del and onEvict
CleanupDel ==
    /\ pp = "cleanDel"
    /\ StoreDel(pitem.key, pitem.conflict)
    /\ OnExit(DelValue(pitem.key, pitem.conflict))
    /\ pitem' = WaitItem(NoClient)
    /\ pp' = IF work = {} THEN "select" ELSE "clean"
    /\ ClientsUnchanged
    /\ UNCHANGED <<now, policyVars, work, cleanNow, setBuf, wgDone>>

-----------------------------------------------------------------------------
(* The clock *)

AdvanceTime ==
    /\ now < MaxTime
    /\ now' = now + 1
    /\ UNCHANGED <<storeVars, policyVars, clientVars, procVars, ghostVars, chanVars,
                   shards>>

-----------------------------------------------------------------------------

\* NewCache
Init ==
    /\ data = EmptyMap
    /\ buckets = EmptyMap
    /\ now = 0
    /\ lastCleaned = cleanupBucket(now)
    /\ PolicyInit
    /\ pc = [c \in Clients |-> "idle"]
    /\ cur = [c \in Clients |-> WaitItem(NoClient)]
    /\ closing = [c \in Clients |-> FALSE]
    /\ pp = "select"
    /\ pitem = WaitItem(NoClient)
    /\ work = {}
    /\ cleanNow = 0
    /\ setBuf = <<>>
    /\ setBufClosed = FALSE
    /\ isClosed = FALSE
    /\ panicked = FALSE
    /\ wgDone = {}
    /\ shards = {}
    /\ calls = 0
    /\ exits = EmptyMap
    /\ refused = {}

Invoke(c) ==
    \/ \E k \in Keys, cost \in Costs, ttl \in TTLs : SetInvoke(c, k, cost, ttl)
    \/ \E k \in Keys : DelInvoke(c, k) \/ Get(c, k) \/ GetTTLInvoke(c, k)
    \/ WaitInvoke(c) \/ ClearInvoke(c) \/ CloseInvoke(c)
    \/ \E cost \in MaxCosts : ChangeMaxCost(c, cost)

\* The steps of a call in progress
Continue(c) ==
    \/ SetUpdate(c) \/ SetSend(c)
    \/ DelStore(c) \/ DelSend(c)
    \/ WaitSend(c) \/ WaitReturn(c)
    \/ GetTTLRead(c)
    \/ CloseClear(c) \/ ClearStop(c) \/ Drain(c) \/ ClearPolicy(c)
    \/ ClearShards(c) \/ ClearExpiry(c) \/ ClearRestart(c)
    \/ CloseStop(c) \/ CloseChans(c) \/ CloseDone(c)

ReceiveItem == ReceiveWait \/ ReceiveNew \/ ReceiveUpdate \/ ReceiveDelete

\* The steps of processItems between two visits to its select
Process ==
    \/ Admit \/ Added \/ Rejected \/ EvictVictim
    \/ DeleteStored
    \/ CleanupCheck \/ CleanupDel

Next ==
    /\ ~panicked
    /\ \/ \E c \in Clients : Invoke(c) \/ Continue(c)
       \/ ReceiveItem \/ Process \/ CleanupStart
       \/ AdvanceTime

Spec == Init /\ [][Next]_cacheVars

\* A goroutine that can run does run.  A select picks among its ready cases at
\* random, so processItems does not pass over setBuf or stop for ever when they
\* are ready again and again; and goroutines blocked in a send are served in
\* FIFO order.  No client has to call anything, and the clock may stand still.
Fairness ==
    /\ WF_cacheVars(Process)
    /\ SF_cacheVars(ReceiveItem)
    /\ \A c \in Clients : /\ WF_cacheVars(Continue(c))
                          /\ SF_cacheVars(ClearStop(c))
                          /\ SF_cacheVars(DelSend(c))
                          /\ SF_cacheVars(WaitSend(c))

FairSpec == Spec /\ Fairness

-----------------------------------------------------------------------------
(* Properties *)

BucketsOK(b) ==
    \A n \in DOMAIN b : /\ IsMap(b[n], Hashes, Conflicts)
                        /\ \A h \in DOMAIN b[n] : KnownPair(h, b[n][h])

StoreTypeOK ==
    /\ IsMap(data, Hashes, [conflict : Conflicts, value : Values \cup {ZeroValue},
                            exp : Times])
    /\ \A h \in DOMAIN data : KnownPair(h, data[h].conflict)
    /\ BucketsOK(buckets)
    /\ lastCleaned \in Int /\ now \in Nat

ClientTypeOK ==
    /\ pc \in [Clients -> ClientPcs]
    /\ cur \in [Clients -> Items]
    /\ closing \in [Clients -> BOOLEAN]
    /\ shards \subseteq Hashes

ProcTypeOK ==
    /\ pp \in ProcPcs
    /\ pitem \in Items
    /\ work \subseteq [bucket : Int, key : Hashes, conflict : Conflicts]
    /\ \A w \in work : KnownPair(w.key, w.conflict)
    /\ cleanNow \in Nat

ChanTypeOK ==
    /\ setBuf \in Seq(Items) /\ Len(setBuf) <= SetBufSize
    /\ setBufClosed \in BOOLEAN /\ isClosed \in BOOLEAN /\ panicked \in BOOLEAN
    /\ wgDone \subseteq Clients

GhostTypeOK ==
    /\ calls \in 0..MaxCalls
    /\ IsMap(exits, Values, Nat)
    /\ refused \subseteq Values \cup {ZeroValue}

\* Besides the types: a key hash and a conflict hash that are found together,
\* anywhere in the cache, come from one user key.
CacheTypeOK == /\ StoreTypeOK /\ PolicyTypeOK /\ ClientTypeOK
               /\ ProcTypeOK /\ ChanTypeOK /\ GhostTypeOK

\* The processor is between two items, hence no Clear is under way either.
Quiet == pp = "select"

\* Where a value that Set brought may be before it reaches the store
InHand(v) == \E c \in Clients : /\ pc[c] \in {"update", "send"}
                                /\ cur[c].flag = "new"
                                /\ cur[c].value = v
Buffered(v) == \E i \in DOMAIN setBuf : /\ setBuf[i].flag = "new"
                                        /\ setBuf[i].value = v
Admitting(v) == pp = "add" /\ pitem.value = v
Stored(v) == \E h \in DOMAIN data : data[h].value = v

\* "OnExit is called whenever a value is removed from cache" (cache.go:146), to
\* do manual memory deallocation: a value that was freed is not freed again, and
\* is not reachable any more by the goroutines that could return or free it.
ExitIsFinal ==
    \A v \in DOMAIN exits :
        exits[v] > 0 => /\ exits[v] = 1
                        /\ ~Stored(v) /\ ~Buffered(v) /\ ~Admitting(v)
                        /\ ~InHand(v) /\ v \notin refused

\* The converse: a value handed to Set is on its way, in the store, given back
\* by a Set that returned false, or has been passed to onExit.  None is leaked.
NoValueLost ==
    \A v \in DOMAIN exits :
        \/ InHand(v) \/ Buffered(v) \/ Admitting(v) \/ Stored(v)
        \/ v \in refused
        \/ exits[v] > 0

\* Every value leaves the cache exactly once: it is freed no more than once, not
\* while it can be reached, and never lost.
ValuesFreedOnce == ExitIsFinal /\ NoValueLost

\* Every stored entry is known to the policy, so that it can be evicted.  Client
\* goroutines change the store without the policy's knowledge, and the processor
\* changes the two in separate steps.
StoreWithinPolicy == Quiet => DOMAIN data \subseteq DOMAIN keyCosts

\* The converse: a cost is charged for an absent key only while the deletion of
\* that key is on its way to the processor.
DeletePending(h) ==
    \/ \E i \in DOMAIN setBuf : setBuf[i].flag = "delete" /\ setBuf[i].key = h
    \/ \E c \in Clients : pc[c] = "sendDel" /\ cur[c].key = h

NoGhostCost ==
    Quiet => \A h \in DOMAIN keyCosts \ DOMAIN data : DeletePending(h)

\* The expiration map indexes exactly the entries that expire, each in the
\* bucket of its current expiration, although clients update entries while a
\* cleanup has their bucket in hand.
ExpiryIndexed ==
    Quiet =>
        /\ \A h \in DOMAIN data :
              data[h].exp # ZeroTime =>
                 LET n == storageBucket(data[h].exp)
                 IN  /\ n \in DOMAIN buckets
                     /\ h \in DOMAIN buckets[n]
                     /\ buckets[n][h] = data[h].conflict
        /\ \A n \in DOMAIN buckets : \A h \in DOMAIN buckets[n] :
              h \in DOMAIN data /\ storageBucket(data[h].exp) = n

(* What makes StoreWithinPolicy inductive *)

\* processItems is inside Add exactly when the policy is, and about the same key.
AddInv ==
    /\ pp = "add" <=> addPc # "none"
    /\ pp = "add" => addArg.key = pitem.key
    /\ addPc = "added" => addArg.key \in DOMAIN keyCosts
    /\ pp = "victims" => victims # <<>>

\* One client at a time is between stopping and restarting the processor, which
\* is gone meanwhile.
Stopped == {"drain", "policyClear", "clearShards", "emClear", "restart",
            "closeChans", "closeDone"}

StopInv ==
    \A c \in Clients : pc[c] \in Stopped =>
        /\ pp = "dead"
        /\ \A d \in Clients : pc[d] \in Stopped => c = d

\* The stored keys the policy does not know are those the processor is about to
\* delete; a Clear leaves them in the shards it has yet to empty.
VictimKeys == {victims[i].key : i \in DOMAIN victims}
Uncovered == CASE pp \in {"delStore", "cleanDel"} -> {pitem.key}
               [] pp \in {"add", "victims"} -> VictimKeys
               [] OTHER -> {}

CoverInv ==
    /\ pp # "dead" => DOMAIN data \subseteq DOMAIN keyCosts \cup Uncovered
    /\ \A c \in Clients :
          /\ pc[c] = "clearShards" => DOMAIN data \subseteq shards
          /\ pc[c] \in {"emClear", "restart"} => DOMAIN data = {}

\* Keys with the same hash have the same conflict hash: no collision.
NoCollision ==
    \A k, l \in Keys : KeyHash[k] = KeyHash[l] => ConflictHash[k] = ConflictHash[l]

\* KeysAdded minus KeysEvicted is the number of tracked keys, and CostAdded
\* minus CostEvicted their cost, modulo the width of the counters.
MetricsBalance ==
    WithMetrics /\ Quiet =>
        /\ (metrics["costAdd"] - metrics["costEvict"] - used) % MetricsWord = 0
        /\ (metrics["keyAdd"] - metrics["keyEvict"] - Cardinality(DOMAIN keyCosts))
               % MetricsWord = 0

\* Every call returns: Set never blocks, Del and Wait get room in setBuf and
\* Wait its answer, even when Clear takes the items instead of the processor.
CallsReturn == \A c \in Clients : pc[c] # "idle" ~> pc[c] = "idle"

\* "the same Cache instance from as many goroutines as you want" (cache.go:50):
\* no goroutine panics, Close beside other calls included.
NoPanic == ~panicked

\* Close, when no other call is in progress, hands every value back.
CloseFreesAll ==
    isClosed => \A v \in DOMAIN exits : exits[v] = 1 \/ v \in refused

\* "Cleanup removes items that have an expired TTL" (store.go:54): every indexed
\* entry is in a bucket that a cleanup is still going to visit.
NoStrandedItem ==
    Quiet => \A n \in DOMAIN buckets : buckets[n] = EmptyMap \/ n > lastCleaned
=============================================================================
