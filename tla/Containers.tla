------------------------------ MODULE Containers ------------------------------
(***************************************************************************)
(* The containers of utils/src/selection_event_bus.cpp: the cache, the     *)
(* object pool, the state machine and the mapping of user identifiers.     *)
(* Every method holds the lock of its object from beginning to end, so     *)
(* that a method is an action.  Each container has variables, an Init and  *)
(* a Next of its own; they do not use each other.                          *)
(***************************************************************************)
EXTENDS Integers, Sequences, SequencesExt, FiniteSetsExt

CONSTANTS CacheKeys, CacheValues, Capacity,
          Nodes,                            \* where the nodes of a list may be
          Objects, MaxIdleSize, PreAllocSize,
          Transitions,                      \* a sequence of [from, trigger, to]
          MaxHistorySize,
          Uids, UserIds

ASSUME ContainersAssumption ==
    /\ IsFiniteSet(Objects) /\ CacheValues # {}
    /\ Capacity \in Nat \ {0} /\ MaxIdleSize \in Nat /\ PreAllocSize \in 0 .. Cardinality(Objects)
    /\ MaxHistorySize \in Nat \ {0}
    /\ Transitions \in Seq(ToSet(Transitions)) /\ Transitions # <<>>

VARIABLES items, indexMap_,     \* SelectionLruCache: the latest used first; where its keys are
          usedKeys, put, erased,    \* ghosts: every key by its last use; its last value; what
                                    \* was erased since
          idlePool, activeObjs,     \* SelectionObjectPool
          held, dirty,              \* what users hold, and what they left in an object
          currentState, history,    \* SelectionStateMachine
          uidToUserId, userIdToUids,    \* SelectionUserIdMapper
          owner, former, lost       \* ghosts: whose a uid is; from whom it was taken without
                                    \* being unmapped; the uids that went with one of these
cacheVars == <<items, indexMap_, usedKeys, put, erased>>
poolVars == <<idlePool, activeObjs, held, dirty>>
machineVars == <<currentState, history>>
mapperVars == <<uidToUserId, userIdToUids, owner, former, lost>>

Assign(f, x, y) == [z \in DOMAIN f \cup {x} |-> IF z = x THEN y ELSE f[z]]
Drop(f, S) == [z \in DOMAIN f \ S |-> f[z]]

-----------------------------------------------------------------------------
(* SelectionLruCache: a list, and a map from keys to its nodes.  A node is known by *)
(* where it is, and a new one is wherever none of the list is.                      *)

CacheInit == /\ items = <<>> /\ indexMap_ = <<>> /\ usedKeys = <<>> /\ erased = {}
             /\ put = [key \in CacheKeys |-> CHOOSE value \in CacheValues : TRUE]

Indexed(key) == key \in DOMAIN indexMap_
IndexOf(key) == CHOOSE i \in DOMAIN items : items[i].at = indexMap_[key]
Others(key) == RemoveAt(items, IndexOf(key))
PushFront(at, key, value, list) == <<[at |-> at, key |-> key, value |-> value]>> \o list
Use(key) ==
    LET at == CHOOSE i \in DOMAIN usedKeys : usedKeys[i] = key
    IN  usedKeys' = <<key>> \o (IF key \in ToSet(usedKeys) THEN RemoveAt(usedKeys, at) ELSE usedKeys)

PutKnown(key, value) ==
    /\ Indexed(key)
    /\ items' = <<[items[IndexOf(key)] EXCEPT !.value = value]>> \o Others(key)
    /\ UNCHANGED indexMap_

\* Mutation for ContainersAgree: the index keeps a key that has gone from the list.
PutNewKeepingIndex(key, value) ==
    LET rest == IF Len(items) >= Capacity THEN Front(items) ELSE items
    IN  /\ ~Indexed(key)
        /\ \E at \in Nodes \ {rest[i].at : i \in DOMAIN rest} :
             /\ items' = PushFront(at, key, value, rest)
             /\ indexMap_' = Assign(indexMap_, key, at)

\* What was used longest ago goes from the index, and from the list, if there is no room.
PutNew(key, value) ==
    LET full == Len(items) >= Capacity
        rest == IF full THEN Front(items) ELSE items
        index == IF full THEN Drop(indexMap_, {Last(items).key}) ELSE indexMap_
    IN  /\ ~Indexed(key)
        /\ \E at \in Nodes \ {rest[i].at : i \in DOMAIN rest} :
             /\ items' = PushFront(at, key, value, rest)
             /\ indexMap_' = Assign(index, key, at)

Put(key, value) ==
    /\ PutKnown(key, value) \/ PutNew(key, value)
    /\ Use(key) /\ put' = [put EXCEPT ![key] = value] /\ erased' = erased \ {key}

Get(key) ==
    /\ Indexed(key)
    /\ items' = <<items[IndexOf(key)]>> \o Others(key)
    /\ Use(key) /\ UNCHANGED <<indexMap_, put, erased>>

EraseKey(key) ==
    /\ Indexed(key)
    /\ items' = Others(key) /\ indexMap_' = Drop(indexMap_, {key})
    /\ erased' = erased \cup {key}
    /\ UNCHANGED <<usedKeys, put>>

ClearCache ==
    /\ items # <<>> /\ items' = <<>> /\ indexMap_' = <<>> /\ erased' = CacheKeys
    /\ UNCHANGED <<usedKeys, put>>

CacheNext == \/ \E key \in CacheKeys : \/ \E value \in CacheValues : Put(key, value)
                                       \/ Get(key) \/ EraseKey(key)
             \/ ClearCache

CachedKeys == {items[i].key : i \in DOMAIN items}

\* The index has the keys of the list, and leads from each to the node that holds it.
IndexAgrees ==
    /\ DOMAIN indexMap_ = CachedKeys
    /\ \A i \in DOMAIN items : indexMap_[items[i].key] = items[i].at

\* The keys that are cached are in the order of their last use, with the values that were
\* put last, no more than there is room for; and a key is missing only if it was erased or
\* as many others as there is room for were used since.
CacheKeepsLatest ==
    LET place(key) == CHOOSE i \in DOMAIN usedKeys : usedKeys[i] = key
    IN  /\ IndexAgrees /\ Len(items) <= Capacity
        /\ \A i, j \in DOMAIN items : i < j => place(items[i].key) < place(items[j].key)
        /\ \A i \in DOMAIN items : /\ items[i].value = put[items[i].key]
                                   /\ items[i].key \notin erased
        /\ \A i \in DOMAIN usedKeys : i <= Capacity => usedKeys[i] \in CachedKeys \cup erased

-----------------------------------------------------------------------------
(* SelectionObjectPool, with a resetter.  The factory makes an object that   *)
(* is not in use; it may fail.  Whoever holds an object when the pool itself *)
(* is destroyed would give it back to freed memory, and is not modelled.     *)

PoolInit == /\ idlePool = CHOOSE s \in [1 .. PreAllocSize -> Objects] : IsInjective(s)
            /\ activeObjs = {} /\ held = {} /\ dirty = {}

\* A handle copied is held until its last copy is gone.
AcquireObject ==
    \E obj \in Objects :
      /\ IF idlePool # <<>> THEN obj = Last(idlePool) /\ idlePool' = Front(idlePool)
                            ELSE obj \notin held /\ UNCHANGED idlePool
      /\ activeObjs' = activeObjs \cup {obj} /\ held' = held \cup {obj}
      /\ dirty' = IF idlePool = <<>> THEN dirty \ {obj} ELSE dirty

ReleaseObject(obj) ==
    /\ obj \in held /\ held' = held \ {obj}
    /\ activeObjs' = activeObjs \ {obj}
    /\ dirty' = dirty \ {obj}
    /\ idlePool' = IF Len(idlePool) < MaxIdleSize THEN Append(idlePool, obj) ELSE idlePool

ShrinkIdlePool(targetSize) ==
    /\ Len(idlePool) > targetSize
    /\ idlePool' = SubSeq(idlePool, 1, targetSize)
    /\ UNCHANGED <<activeObjs, held, dirty>>

UseObject(obj) ==
    /\ obj \in held /\ dirty' = dirty \cup {obj} /\ UNCHANGED <<idlePool, activeObjs, held>>

PoolNext == \/ AcquireObject
            \/ \E obj \in Objects : ReleaseObject(obj) \/ UseObject(obj)
            \/ \E n \in 0 .. MaxIdleSize : ShrinkIdlePool(n)

\* No object is handed out twice, or while it is idle; what is idle is as good as new, and
\* what is counted as active is what someone holds.
ObjectsHaveOneHolder ==
    /\ IsInjective(idlePool) /\ ToSet(idlePool) \cap (held \cup dirty) = {}
    /\ activeObjs = held /\ dirty \subseteq held
    /\ Len(idlePool) <= IF MaxIdleSize > PreAllocSize THEN MaxIdleSize ELSE PreAllocSize

-----------------------------------------------------------------------------
(* SelectionStateMachine.  Which guards hold is the environment's choice.  A *)
(* guard or an action that uses the machine again would wait for itself.     *)

States == UNION {{Transitions[i].from, Transitions[i].to} : i \in DOMAIN Transitions}
Triggers == {Transitions[i].trigger : i \in DOMAIN Transitions}

MachineInit == currentState = Transitions[1].from /\ history = <<>>

\* The first transition whose guard holds.
HandleEvent(event, passing) ==
    LET open == {i \in passing : /\ Transitions[i].from = currentState
                                 /\ Transitions[i].trigger = event}
        taken == Transitions[Min(open)]
        entry == [prev |-> currentState, event |-> event, next |-> taken.to]
        longer == Append(history, entry)
    IN  /\ open # {}
        /\ currentState' = taken.to
        /\ history' = IF Len(longer) > MaxHistorySize THEN Tail(longer) ELSE longer

ForceState(state) == currentState' = state /\ UNCHANGED history

MachineNext == \/ \E event \in Triggers, passing \in SUBSET DOMAIN Transitions :
                    HandleEvent(event, passing)
               \/ \E state \in States : ForceState(state)

-----------------------------------------------------------------------------
(* SelectionUserIdMapper *)

UidsOf(userId) == IF userId \in DOMAIN userIdToUids THEN userIdToUids[userId] ELSE {}

MapperInit == /\ uidToUserId = <<>> /\ userIdToUids = <<>>
              /\ owner = <<>> /\ former = [uid \in Uids |-> {}] /\ lost = {}

MapUidToUserId(uid, userId) ==
    /\ uidToUserId' = Assign(uidToUserId, uid, userId)
    /\ userIdToUids' = Assign(userIdToUids, userId, UidsOf(userId) \cup {uid})
    /\ LET before == IF uid \in DOMAIN owner THEN {owner[uid]} ELSE {}
       IN  former' = [former EXCEPT ![uid] = (former[uid] \cup before) \ {userId}]
    /\ owner' = Assign(owner, uid, userId) /\ lost' = lost \ {uid}

UnmapUid(uid) ==
    /\ uid \in DOMAIN uidToUserId
    /\ uidToUserId' = Drop(uidToUserId, {uid})
    /\ LET userId == uidToUserId[uid] left == UidsOf(userId) \ {uid}
       IN  userIdToUids' = IF userId \notin DOMAIN userIdToUids THEN userIdToUids
                           ELSE IF left = {} THEN Drop(userIdToUids, {userId})
                           ELSE Assign(userIdToUids, userId, left)
    /\ owner' = Drop(owner, {uid}) /\ UNCHANGED <<former, lost>>

\* Every uid the user was ever given goes, unless it was unmapped meanwhile.
RemoveUser(userId) ==
    /\ userId \in DOMAIN userIdToUids
    /\ uidToUserId' = Drop(uidToUserId, userIdToUids[userId])
    /\ userIdToUids' = Drop(userIdToUids, {userId})
    /\ LET own == {uid \in DOMAIN owner : owner[uid] = userId}
           taken == {uid \in DOMAIN owner : userId \in former[uid]}
       IN  owner' = Drop(owner, own) /\ lost' = (lost \cup taken) \ own
    /\ former' = [uid \in Uids |-> former[uid] \ {userId}]

ClearMappings ==
    /\ uidToUserId' = <<>> /\ userIdToUids' = <<>>
    /\ owner' = <<>> /\ former' = [uid \in Uids |-> {}] /\ lost' = {}

MapperNext == \/ \E uid \in Uids : \/ \E userId \in UserIds : MapUidToUserId(uid, userId)
                                   \/ UnmapUid(uid)
              \/ \E userId \in UserIds : RemoveUser(userId)
              \/ ClearMappings

\* A uid is mapped to the user it was last given to, and to no one else, until it is
\* unmapped or the user is removed.  A user counts the uids that are his and those that were
\* taken from him without being unmapped; only when such a former user is removed is the
\* mapping of another lost with him.  No user is kept without a uid.
MappingsAgree ==
    /\ DOMAIN uidToUserId = DOMAIN owner \ lost
    /\ \A uid \in DOMAIN uidToUserId : uidToUserId[uid] = owner[uid]
    /\ \A uid \in Uids, userId \in UserIds :
         uid \in UidsOf(userId) <=> \/ uid \in DOMAIN owner /\ owner[uid] = userId
                                   \/ userId \in former[uid]
    /\ \A userId \in DOMAIN userIdToUids : userIdToUids[userId] # {}

-----------------------------------------------------------------------------
ContainersTypeOK ==
    /\ items \in Seq([at : Nodes, key : CacheKeys, value : CacheValues])
    /\ DOMAIN indexMap_ \subseteq CacheKeys /\ \A key \in DOMAIN indexMap_ : indexMap_[key] \in Nodes
    /\ usedKeys \in Seq(CacheKeys)
    /\ put \in [CacheKeys -> CacheValues] /\ erased \subseteq CacheKeys
    /\ idlePool \in Seq(Objects) /\ activeObjs \cup held \cup dirty \subseteq Objects
    /\ currentState \in States
    /\ history \in Seq([prev : States, event : Triggers, next : States])
    /\ Len(history) <= MaxHistorySize
    /\ DOMAIN uidToUserId \cup DOMAIN owner \cup lost \subseteq Uids
    /\ DOMAIN userIdToUids \subseteq UserIds /\ former \in [Uids -> SUBSET UserIds]
    /\ \A uid \in DOMAIN uidToUserId : uidToUserId[uid] \in UserIds
    /\ \A uid \in DOMAIN owner : owner[uid] \in UserIds
    /\ \A userId \in DOMAIN userIdToUids : userIdToUids[userId] \subseteq Uids

\* What the containers keep twice agrees, and with what was put into them: the list of the
\* cache and its index, the objects of the pool and their users, the two maps of uids.
ContainersAgree == CacheKeepsLatest /\ ObjectsHaveOneHolder /\ MappingsAgree

ContainersInit == CacheInit /\ PoolInit /\ MachineInit /\ MapperInit
ContainersNext ==
    \/ CacheNext /\ UNCHANGED <<poolVars, machineVars, mapperVars>>
    \/ PoolNext /\ UNCHANGED <<cacheVars, machineVars, mapperVars>>
    \/ MachineNext /\ UNCHANGED <<cacheVars, poolVars, mapperVars>>
    \/ MapperNext /\ UNCHANGED <<cacheVars, poolVars, machineVars>>
ContainersSpec ==
    ContainersInit /\ [][ContainersNext]_<<cacheVars, poolVars, machineVars, mapperVars>>
=============================================================================
