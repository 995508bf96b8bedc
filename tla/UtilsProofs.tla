------------------------------ MODULE UtilsProofs ------------------------------
(***************************************************************************)
(* What the containers, the event bus, the rate limiter, the meters and    *)
(* the validator of utils/src promise, for every size, content and number  *)
(* of users.                                                               *)
(*                                                                         *)
(* The cache: where a key stands in the list is related to when it was     *)
(* last used, among all keys and not only those that are cached            *)
(* (UsedInOrder); that a key that had to give way was used long ago is a   *)
(* count of the keys before it (Crowded).  The bus: a list is sorted, and  *)
(* is what has been subscribed (ListsAreSubscribed), and a publication has *)
(* called a beginning of it (FramesWalk).  The limiter: what each strategy *)
(* remembers is as much as it has let through (SlidingHeld, FixedHeld and  *)
(* BucketHeld), also when other levels have used the same context.  The    *)
(* meters: the window and the bucket have granted what they do not offer   *)
(* any more (WindowHeld, TokensHeld), and the samples are the latest       *)
(* (Latest); that a recursive function and a sorted list exist at all is   *)
(* proved by induction (Recursion, OrderExists).  Text: in well-formed     *)
(* text a loop stops exactly where a byte continues no character           *)
(* (CharactersBegin), and so do the loops over the text before a cut       *)
(* (FirstCharacters).                                                      *)
(***************************************************************************)
EXTENDS Containers, EventBus, RateLimiter, Meters, Content, FiniteSetTheorems, SequenceTheorems,
        WellFoundedInduction, TLAPS

-----------------------------------------------------------------------------
(* Induction, for sets in place of predicates. *)

LEMMA LeastElement ==
  ASSUME NEW T \in SUBSET Nat, T # {}
  PROVE  \E n \in T : \A m \in T : n <= m
<1> DEFINE R == {p \in Nat \X Nat : p[1] < p[2]}
<1>1. OpToRel(<, Nat) = R
  BY DEF OpToRel
<1>2. IsWellFoundedOn(R, Nat)
  BY <1>1, NatLessThanWellFounded
<1> HIDE DEF R
<1>3. PICK n \in T : \A m \in T : <<m, n>> \notin R
  BY ONLY <1>2, WFMin, T \in SUBSET Nat, T # {}
<1>4. \A m \in T : ~(m < n)
  BY <1>3 DEF R
<1> QED
  BY <1>4

LEMMA CountingUp ==
  ASSUME NEW T, 0 \in T, \A n \in Nat : n \in T => n + 1 \in T
  PROVE  Nat \subseteq T
<1>1. SUFFICES ASSUME Nat \ T # {} PROVE FALSE
  OBVIOUS
<1>2. PICK n \in Nat \ T : \A m \in Nat \ T : n <= m
  BY <1>1, LeastElement
<1>3. n - 1 \in Nat /\ n - 1 \in T
  BY <1>2
<1> QED
  BY <1>2, <1>3

-----------------------------------------------------------------------------
(* The cache. *)

UsedInOrder ==
    /\ IsInjective(usedKeys)
    /\ \A i \in DOMAIN items : \E m \in DOMAIN usedKeys : usedKeys[m] = items[i].key
    /\ \A i, j \in DOMAIN items, m, n \in DOMAIN usedKeys :
         usedKeys[m] = items[i].key /\ usedKeys[n] = items[j].key /\ i < j => m < n

CachedIsLatest ==
    /\ Len(items) <= Capacity
    /\ \A i \in DOMAIN items : items[i].value = put[items[i].key] /\ items[i].key \notin erased
    /\ \A i \in DOMAIN usedKeys : i <= Capacity => usedKeys[i] \in CachedKeys \cup erased

Item == [at : Nodes, key : CacheKeys, value : CacheValues]
CacheTypeOK ==
    /\ items \in Seq(Item) /\ usedKeys \in Seq(CacheKeys)
    /\ put \in [CacheKeys -> CacheValues] /\ erased \subseteq CacheKeys

\* No two nodes of the list are in one place.
NodesDiffer == \A i, j \in DOMAIN items : items[i].at = items[j].at => i = j

CacheInv == CacheTypeOK /\ UsedInOrder /\ CachedIsLatest /\ IndexAgrees /\ NodesDiffer

\* What a list holds after an element went, and after one came to its front.
LEMMA Removed ==
  ASSUME NEW S, NEW s \in Seq(S), NEW at \in DOMAIN s
  PROVE  /\ RemoveAt(s, at) \in Seq(S) /\ Len(RemoveAt(s, at)) = Len(s) - 1
         /\ \A i \in 1 .. Len(s) - 1 : RemoveAt(s, at)[i] = IF i < at THEN s[i] ELSE s[i + 1]
<1>1. SubSeq(s, 1, at - 1) \in Seq(S) /\ SubSeq(s, at + 1, Len(s)) \in Seq(S)
  OBVIOUS
<1>2. Len(SubSeq(s, 1, at - 1)) = at - 1 /\ Len(SubSeq(s, at + 1, Len(s))) = Len(s) - at
  OBVIOUS
<1>3. /\ \A i \in 1 .. at - 1 : SubSeq(s, 1, at - 1)[i] = s[i]
      /\ \A i \in 1 .. Len(s) - at : SubSeq(s, at + 1, Len(s))[i] = s[at + i]
  OBVIOUS
<1> DEFINE front == SubSeq(s, 1, at - 1)
           back == SubSeq(s, at + 1, Len(s))
<1>4. Len(s) \in Nat /\ at \in 1 .. Len(s) /\ RemoveAt(s, at) = front \o back
  BY DEF RemoveAt
<1> HIDE DEF front, back
<1>5. /\ front \o back \in Seq(S) /\ Len(front \o back) = Len(front) + Len(back)
      /\ \A i \in 1 .. Len(front) + Len(back) :
           (front \o back)[i] = IF i <= Len(front) THEN front[i] ELSE back[i - Len(front)]
  <2>1. front \in Seq(S) /\ back \in Seq(S)
    BY <1>1 DEF front, back
  <2> QED
    BY <2>1
<1>6. Len(front) = at - 1 /\ Len(back) = Len(s) - at
  BY <1>2 DEF front, back
<1>7. ASSUME NEW i \in 1 .. Len(s) - 1
      PROVE  (front \o back)[i] = IF i < at THEN s[i] ELSE s[i + 1]
  <2>1. CASE i < at
    <3>1. i \in 1 .. at - 1 /\ i \in 1 .. Len(front) + Len(back) /\ i <= Len(front)
      BY ONLY <1>4, <1>6, <2>1, i \in 1 .. Len(s) - 1
    <3>2. front[i] = s[i]
      BY <1>3, <3>1 DEF front
    <3> QED
      BY ONLY <1>5, <2>1, <3>1, <3>2
  <2>2. CASE ~(i < at)
    <3>1. i - (at - 1) \in 1 .. Len(s) - at /\ at + (i - (at - 1)) = i + 1
      BY <1>4, <2>2
    <3>2. back[i - (at - 1)] = s[at + (i - (at - 1))]
      BY <1>3, <3>1 DEF back
    <3>3. i \in 1 .. Len(front) + Len(back) /\ ~(i <= Len(front)) /\ i - Len(front) = i - (at - 1)
      BY ONLY <1>4, <1>6, <2>2, i \in 1 .. Len(s) - 1
    <3>4. (front \o back)[i] = back[i - (at - 1)]
      BY ONLY <1>5, <3>3
    <3> QED
      BY <2>2, <3>1, <3>2, <3>4
  <2> QED
    BY <2>1, <2>2
<1>8. Len(front \o back) = Len(s) - 1
  BY ONLY <1>4, <1>5, <1>6
<1> QED
  BY ONLY <1>4, <1>5, <1>7, <1>8

LEMMA Fronted ==
  ASSUME NEW S, NEW s \in Seq(S), NEW e \in S
  PROVE  /\ <<e>> \o s \in Seq(S) /\ Len(<<e>> \o s) = Len(s) + 1 /\ (<<e>> \o s)[1] = e
         /\ \A i \in 1 .. Len(s) : (<<e>> \o s)[i + 1] = s[i]
         /\ \A i \in 2 .. Len(s) + 1 : (<<e>> \o s)[i] = s[i - 1]
OBVIOUS

\* Where a use leaves the other keys.
LEMMA UseMoves ==
  ASSUME NEW key \in CacheKeys, usedKeys \in Seq(CacheKeys), IsInjective(usedKeys), Use(key)
  PROVE  /\ usedKeys' \in Seq(CacheKeys) /\ IsInjective(usedKeys')
         /\ Len(usedKeys') \in Nat \ {0} /\ usedKeys'[1] = key
         /\ \A m \in DOMAIN usedKeys : usedKeys[m] # key =>
              \E n \in DOMAIN usedKeys' : usedKeys'[n] = usedKeys[m]
         /\ \A n \in DOMAIN usedKeys' \ {1} :
              \E m \in DOMAIN usedKeys :
                 /\ usedKeys[m] = usedKeys'[n] /\ usedKeys[m] # key /\ m \in {n - 1, n}
                 /\ m = n <=> \E p \in DOMAIN usedKeys : p < m /\ usedKeys[p] = key
<1>1. CASE key \notin ToSet(usedKeys)
  <2>1. usedKeys' = <<key>> \o usedKeys
    BY <1>1 DEF Use
  <2>2. \A m \in DOMAIN usedKeys : usedKeys[m] # key
    BY <1>1 DEF ToSet
  <2>3. /\ usedKeys' \in Seq(CacheKeys) /\ Len(usedKeys') = Len(usedKeys) + 1 /\ usedKeys'[1] = key
        /\ \A i \in 1 .. Len(usedKeys) : usedKeys'[i + 1] = usedKeys[i]
        /\ \A i \in 2 .. Len(usedKeys) + 1 : usedKeys'[i] = usedKeys[i - 1]
    BY <2>1, Fronted
  <2>4. IsInjective(usedKeys')
    <3> DEFINE old == usedKeys
               new == usedKeys'
    <3>1. DOMAIN new = 1 .. Len(old) + 1 /\ Len(old) \in Nat /\ DOMAIN old = 1 .. Len(old)
      BY <2>3
    <3>2. \A a, b \in DOMAIN old : old[a] = old[b] => a = b
      BY DEF IsInjective
    <3>3. /\ new[1] = key /\ \A i \in 2 .. Len(old) + 1 : new[i] = old[i - 1]
          /\ \A i \in DOMAIN old : old[i] # key
      BY <2>2, <2>3
    <3> HIDE DEF old, new
    <3>4. ASSUME NEW a \in DOMAIN new, NEW b \in DOMAIN new, new[a] = new[b] PROVE a = b
      <4>1. \A i \in DOMAIN new : i = 1 \/ (i \in 2 .. Len(old) + 1 /\ i - 1 \in DOMAIN old)
        BY ONLY <3>1
      <4>2. CASE a = 1
        BY ONLY <3>3, <3>4, <4>1, <4>2
      <4>3. CASE b = 1
        BY ONLY <3>3, <3>4, <4>1, <4>3
      <4>4. CASE a # 1 /\ b # 1
        <5>1. a - 1 = b - 1
          BY <3>2, <3>3, <3>4, <4>1, <4>4
        <5> QED
          BY ONLY <5>1, <3>1, <3>4
      <4> QED
        BY ONLY <4>2, <4>3, <4>4
    <3> QED
      BY <3>4 DEF IsInjective, new
  <2>5. ASSUME NEW m \in DOMAIN usedKeys PROVE \E n \in DOMAIN usedKeys' : usedKeys'[n] = usedKeys[m]
    <3>1. m + 1 \in DOMAIN usedKeys' /\ usedKeys'[m + 1] = usedKeys[m]
      BY <2>3
    <3> QED
      BY <3>1
  <2>6. ASSUME NEW n \in DOMAIN usedKeys' \ {1}
        PROVE  \E m \in DOMAIN usedKeys :
                 /\ usedKeys[m] = usedKeys'[n] /\ usedKeys[m] # key /\ m \in {n - 1, n}
                 /\ m = n <=> \E p \in DOMAIN usedKeys : p < m /\ usedKeys[p] = key
    <3>1. n - 1 \in DOMAIN usedKeys /\ usedKeys[n - 1] = usedKeys'[n] /\ n - 1 # n
      BY <2>3
    <3> QED
      BY <2>2, <3>1
  <2> QED
    BY <2>3, <2>4, <2>5, <2>6
<1>2. CASE key \in ToSet(usedKeys)
  <2> DEFINE at == CHOOSE i \in DOMAIN usedKeys : usedKeys[i] = key
             rest == RemoveAt(usedKeys, at)
  <2>1. at \in DOMAIN usedKeys /\ usedKeys[at] = key /\ usedKeys' = <<key>> \o rest
    BY <1>2 DEF Use, ToSet
  <2> HIDE DEF at
  <2>2. /\ rest \in Seq(CacheKeys) /\ Len(rest) = Len(usedKeys) - 1
        /\ \A i \in 1 .. Len(usedKeys) - 1 : rest[i] = IF i < at THEN usedKeys[i] ELSE usedKeys[i + 1]
    BY <2>1, Removed
  <2> HIDE DEF rest
  <2>3. /\ usedKeys' \in Seq(CacheKeys) /\ Len(usedKeys') = Len(rest) + 1 /\ usedKeys'[1] = key
        /\ \A i \in 1 .. Len(rest) : usedKeys'[i + 1] = rest[i]
        /\ \A i \in 2 .. Len(rest) + 1 : usedKeys'[i] = rest[i - 1]
    BY <2>1, <2>2, Fronted
  <2>4. \A i \in 2 .. Len(usedKeys) : usedKeys'[i] = IF i <= at THEN usedKeys[i - 1] ELSE usedKeys[i]
    <3> SUFFICES ASSUME NEW i \in 2 .. Len(usedKeys)
                 PROVE  usedKeys'[i] = IF i <= at THEN usedKeys[i - 1] ELSE usedKeys[i]
      OBVIOUS
    <3>1. i - 1 \in 1 .. Len(usedKeys) - 1 /\ usedKeys'[i] = rest[i - 1] /\ (i - 1 < at <=> i <= at)
      BY <2>1, <2>2, <2>3
    <3> QED
      BY <2>2, <3>1
  <2>5. /\ DOMAIN usedKeys' = DOMAIN usedKeys /\ DOMAIN usedKeys = 1 .. Len(usedKeys)
        /\ Len(usedKeys) \in Nat \ {0} /\ at \in 1 .. Len(usedKeys)
    BY <2>1, <2>2, <2>3
  <2>6. \A p \in DOMAIN usedKeys : usedKeys[p] = key => p = at
    BY <2>1 DEF IsInjective
  <2>7. ASSUME NEW n \in DOMAIN usedKeys' \ {1}
        PROVE  \E m \in DOMAIN usedKeys :
                 /\ usedKeys[m] = usedKeys'[n] /\ usedKeys[m] # key /\ m \in {n - 1, n}
                 /\ m = n <=> \E p \in DOMAIN usedKeys : p < m /\ usedKeys[p] = key
    <3>1. CASE n <= at
      <4>1. n - 1 \in DOMAIN usedKeys /\ usedKeys[n - 1] = usedKeys'[n] /\ n - 1 # n /\ n - 1 # at /\ ~(at < n - 1)
        BY <2>4, <2>5, <3>1
      <4> QED
        BY <2>6, <4>1
    <3>2. CASE n > at
      <4>1. n \in DOMAIN usedKeys /\ usedKeys[n] = usedKeys'[n] /\ n # at /\ at < n
        BY <2>4, <2>5, <3>2
      <4> QED
        BY <2>1, <2>6, <4>1
    <3> QED
      BY <3>1, <3>2, <2>5
  <2>8. ASSUME NEW m \in DOMAIN usedKeys, usedKeys[m] # key
        PROVE  \E n \in DOMAIN usedKeys' : usedKeys'[n] = usedKeys[m]
    <3>1. CASE m < at
      <4>1. m + 1 \in 2 .. Len(usedKeys) /\ m + 1 <= at /\ usedKeys'[m + 1] = usedKeys[m]
        BY <2>4, <2>5, <3>1
      <4> QED
        BY <2>5, <4>1
    <3>2. CASE m > at
      <4>1. m \in 2 .. Len(usedKeys) /\ usedKeys'[m] = usedKeys[m]
        BY <2>4, <2>5, <3>2
      <4> QED
        BY <2>5, <4>1
    <3>3. m # at
      BY <2>1, <2>8
    <3> QED
      BY <2>5, <3>1, <3>2, <3>3
  <2>9. IsInjective(usedKeys')
    <3> SUFFICES ASSUME NEW a \in DOMAIN usedKeys', NEW b \in DOMAIN usedKeys', usedKeys'[a] = usedKeys'[b], a < b
                 PROVE  FALSE
      BY <2>5 DEF IsInjective
    <3>1. b # 1
      BY <2>5
    <3>2. PICK mb \in DOMAIN usedKeys : /\ usedKeys[mb] = usedKeys'[b] /\ usedKeys[mb] # key /\ mb \in {b - 1, b}
                                        /\ mb = b <=> \E p \in DOMAIN usedKeys : p < mb /\ usedKeys[p] = key
      BY <2>7, <3>1
    <3>3. a # 1
      BY <2>3, <3>2
    <3>4. PICK ma \in DOMAIN usedKeys : /\ usedKeys[ma] = usedKeys'[a] /\ usedKeys[ma] # key /\ ma \in {a - 1, a}
                                        /\ ma = a <=> \E p \in DOMAIN usedKeys : p < ma /\ usedKeys[p] = key
      BY <2>7, <3>3
    <3>5. ma = mb
      BY <3>2, <3>4 DEF IsInjective
    <3> QED
      BY <2>5, <3>2, <3>4, <3>5
  <2> QED
    BY <2>3, <2>5, <2>7, <2>8, <2>9
<1> QED
  BY <1>1, <1>2

\* The keys that are cached were used one after the other, and not at the place of another.
LEMMA Crowded ==
  ASSUME CacheTypeOK, UsedInOrder, NEW key, key \notin CachedKeys,
         NEW i \in DOMAIN items, NEW m \in DOMAIN usedKeys, usedKeys[m] = items[i].key
  PROVE  /\ m >= i
         /\ (\E p \in DOMAIN usedKeys : p < m /\ usedKeys[p] = key) => m >= i + 1
<1> DEFINE Late(n, j) == /\ n >= j
                         /\ (\E p \in DOMAIN usedKeys : p < n /\ usedKeys[p] = key) => n >= j + 1
           T == {j \in Nat : j \in DOMAIN items =>
                               \A n \in DOMAIN usedKeys : usedKeys[n] = items[j].key => Late(n, j)}
<1>1. DOMAIN items = 1 .. Len(items) /\ Len(items) \in Nat /\ DOMAIN usedKeys \subseteq Nat \ {0}
  BY DEF CacheTypeOK
<1>2. 0 \in T
  BY <1>1
<1>3. ASSUME NEW j \in Nat, j \in T PROVE j + 1 \in T
  <2> SUFFICES ASSUME j + 1 \in DOMAIN items, NEW n \in DOMAIN usedKeys, usedKeys[n] = items[j + 1].key
               PROVE  Late(n, j + 1)
    OBVIOUS
  <2>1. CASE j = 0
    BY <1>1, <2>1
  <2>2. CASE j # 0
    <3>1. j \in DOMAIN items
      BY <1>1, <2>2
    <3>2. PICK k \in DOMAIN usedKeys : usedKeys[k] = items[j].key
      BY <3>1 DEF UsedInOrder
    <3>3. k < n
      <4>1. j < j + 1 /\ j + 1 \in DOMAIN items
        OBVIOUS
      <4> QED
        BY <3>1, <3>2, <4>1 DEF UsedInOrder
    <3>4. Late(k, j)
      <4> HIDE DEF Late
      <4> QED
        BY <1>3, <3>1, <3>2
    <3>5. usedKeys[k] # key
      BY <3>1, <3>2 DEF CachedKeys
    <3>6. k \in Nat /\ n \in Nat /\ k >= j /\ n >= j + 1
      BY <1>1, <3>3, <3>4
    <3>7. ASSUME NEW p \in DOMAIN usedKeys, p < n, usedKeys[p] = key PROVE n >= (j + 1) + 1
      <4>1. p # k /\ p \in Nat
        BY <1>1, <3>5, <3>7
      <4>2. CASE p < k
        <5>1. \E q \in DOMAIN usedKeys : q < k /\ usedKeys[q] = key
          BY <3>7, <4>2
        <5>2. k >= j + 1
          BY ONLY <3>4, <5>1
        <5> QED
          BY ONLY <3>3, <3>6, <5>2, j \in Nat
      <4>3. CASE k < p
        BY ONLY <3>6, <3>7, <4>1, <4>3, j \in Nat
      <4> QED
        BY ONLY <3>6, <4>1, <4>2, <4>3
    <3> QED
      BY ONLY <3>6, <3>7
  <2> QED
    BY <2>1, <2>2
<1> HIDE DEF T
<1>4. i \in T
  BY <1>1, <1>2, <1>3, CountingUp
<1> HIDE DEF Late
<1>5. Late(m, i)
  BY ONLY <1>4, i \in DOMAIN items, m \in DOMAIN usedKeys, usedKeys[m] = items[i].key DEF T
<1> QED
  BY <1>5 DEF Late

\* What stays behind the key that comes to the front, or goes: the others in their
\* order, except one that there is no room for.
Behind(rest, key) ==
    /\ rest \in Seq(Item)
    /\ \A i \in DOMAIN rest : \E a \in DOMAIN items : rest[i] = items[a] /\ items[a].key # key
    /\ \A i, j \in DOMAIN rest : i < j =>
         \E a, b \in DOMAIN items : a < b /\ rest[i] = items[a] /\ rest[j] = items[b]
    /\ \A a \in DOMAIN items : \/ items[a].key = key
                               \/ \E i \in DOMAIN rest : rest[i] = items[a]
                               \/ a >= Capacity /\ key \notin CachedKeys

LEMMA DistinctKeys ==
  ASSUME CacheTypeOK, UsedInOrder, NEW i \in DOMAIN items, NEW j \in DOMAIN items, items[i].key = items[j].key
  PROVE  i = j
<1>1. PICK m \in DOMAIN usedKeys : usedKeys[m] = items[i].key
  BY DEF UsedInOrder
<1>2. ~(i < j) /\ ~(j < i)
  BY <1>1 DEF UsedInOrder, CacheTypeOK
<1> QED
  BY <1>2 DEF CacheTypeOK

LEMMA OthersAreBehind ==
  ASSUME CacheTypeOK, UsedInOrder, IndexAgrees, NodesDiffer, NEW key \in CachedKeys
  PROVE  /\ Behind(Others(key), key) /\ Len(Others(key)) = Len(items) - 1
         /\ IndexOf(key) \in DOMAIN items /\ items[IndexOf(key)].key = key
<1> DEFINE at == IndexOf(key)
           rest == RemoveAt(items, at)
<1>1. at \in DOMAIN items /\ items[at].key = key
  <2>1. PICK i \in DOMAIN items : items[i].key = key
    BY DEF CachedKeys
  <2>2. items[i].at = indexMap_[key]
    BY <2>1 DEF IndexAgrees
  <2>3. at \in DOMAIN items /\ items[at].at = indexMap_[key]
    BY <2>2 DEF IndexOf
  <2> QED
    BY <2>1, <2>2, <2>3 DEF NodesDiffer
<1> HIDE DEF at
<1>2. Others(key) = rest
  BY DEF Others, at
<1>3. items \in Seq(Item) /\ Len(items) \in Nat /\ DOMAIN items = 1 .. Len(items)
  BY DEF CacheTypeOK
<1>4. /\ rest \in Seq(Item) /\ Len(rest) = Len(items) - 1
      /\ \A i \in 1 .. Len(items) - 1 : rest[i] = IF i < at THEN items[i] ELSE items[i + 1]
  BY <1>1, <1>3, Removed
<1> HIDE DEF rest
<1>5. DOMAIN rest = 1 .. Len(items) - 1
  BY <1>4
<1> DEFINE was(i) == IF i < at THEN i ELSE i + 1
<1>6. \A i \in DOMAIN rest : was(i) \in DOMAIN items /\ rest[i] = items[was(i)] /\ was(i) # at
  BY <1>1, <1>3, <1>4, <1>5
<1>7. \A i, j \in DOMAIN rest : i < j => was(i) < was(j)
  BY <1>1, <1>3, <1>5
<1>8. \A a \in DOMAIN items : items[a].key = key => a = at
  BY <1>1, DistinctKeys
<1>9. ASSUME NEW a \in DOMAIN items, a # at PROVE \E i \in DOMAIN rest : rest[i] = items[a]
  <2>1. CASE a < at
    <3>1. a \in DOMAIN rest /\ rest[a] = items[a]
      BY <1>1, <1>3, <1>4, <1>5, <2>1
    <3> QED
      BY <3>1
  <2>2. CASE a > at
    <3>1. a - 1 \in DOMAIN rest /\ ~(a - 1 < at) /\ (a - 1) + 1 = a
      BY <1>1, <1>3, <1>5, <2>2
    <3>2. rest[a - 1] = items[a]
      BY <1>4, <1>5, <3>1
    <3> QED
      BY <3>1, <3>2
  <2> QED
    BY <1>1, <1>3, <1>9, <2>1, <2>2
<1> HIDE DEF was
<1>10. Behind(rest, key)
  <2>1. \A i \in DOMAIN rest : \E a \in DOMAIN items : rest[i] = items[a] /\ items[a].key # key
    BY <1>6, <1>8
  <2>2. \A i, j \in DOMAIN rest : i < j =>
           \E a, b \in DOMAIN items : a < b /\ rest[i] = items[a] /\ rest[j] = items[b]
    BY <1>6, <1>7
  <2> QED
    BY <1>1, <1>4, <1>9, <2>1, <2>2 DEF Behind
<1> QED
  BY <1>1, <1>2, <1>4, <1>10 DEF at

\* The index agrees with the list again when what stays keeps its entries.
LEMMA IndexStays ==
  ASSUME CacheTypeOK, IndexAgrees, NodesDiffer, NEW key, NEW rest, Behind(rest, key),
         items' \in Seq(Item), Len(items') = Len(rest) + 1, items'[1].key = key,
         \A i \in 2 .. Len(rest) + 1 : items'[i] = rest[i - 1],
         \A i \in DOMAIN rest : rest[i].at # items'[1].at,
         DOMAIN indexMap_' = {key} \cup {rest[i].key : i \in DOMAIN rest},
         indexMap_'[key] = items'[1].at,
         \A i \in DOMAIN rest : indexMap_'[rest[i].key] = indexMap_[rest[i].key]
  PROVE  IndexAgrees' /\ NodesDiffer'
<1>1. /\ rest \in Seq(Item) /\ Len(rest) \in Nat /\ DOMAIN rest = 1 .. Len(rest)
      /\ DOMAIN items' = 1 .. Len(rest) + 1
  BY DEF Behind
<1>2. ASSUME NEW i \in DOMAIN items'
      PROVE  i = 1 \/ (i - 1 \in DOMAIN rest /\ items'[i] = rest[i - 1])
  BY <1>1
<1>3. \A i \in DOMAIN rest : i + 1 \in DOMAIN items' /\ items'[i + 1] = rest[i]
  <2> SUFFICES ASSUME NEW i \in DOMAIN rest
               PROVE  i + 1 \in DOMAIN items' /\ items'[i + 1] = rest[i]
    OBVIOUS
  <2>1. i + 1 \in 2 .. Len(rest) + 1 /\ (i + 1) - 1 = i
    BY <1>1
  <2> QED
    BY <1>1, <2>1
<1>4. 1 \in DOMAIN items'
  BY <1>1
<1>5. \A i, j \in DOMAIN rest : rest[i].at = rest[j].at => i = j
  <2>1. ASSUME NEW i \in DOMAIN rest, NEW j \in DOMAIN rest, i < j PROVE rest[i].at # rest[j].at
    <3>1. PICK a \in DOMAIN items, b \in DOMAIN items : a < b /\ rest[i] = items[a] /\ rest[j] = items[b]
      BY <2>1 DEF Behind
    <3>2. a # b
      BY <3>1 DEF CacheTypeOK
    <3> QED
      BY <3>1, <3>2 DEF NodesDiffer
  <2> SUFFICES ASSUME NEW i \in DOMAIN rest, NEW j \in DOMAIN rest, i # j
               PROVE  rest[i].at # rest[j].at
    OBVIOUS
  <2>2. CASE i < j
    BY <2>1, <2>2
  <2>3. CASE j < i
    BY <2>1, <2>3
  <2>4. i < j \/ j < i
    BY ONLY <1>1, i \in DOMAIN rest, j \in DOMAIN rest, i # j
  <2> QED
    BY <2>2, <2>3, <2>4
<1>6. NodesDiffer'
  <2> SUFFICES ASSUME NEW i \in DOMAIN items', NEW j \in DOMAIN items', items'[i].at = items'[j].at
               PROVE  i = j
    BY DEF NodesDiffer
  <2>1. CASE i = 1 \/ j = 1
    BY <1>2, <2>1
  <2>2. CASE i # 1 /\ j # 1
    <3>1. i - 1 = j - 1
      BY <1>2, <1>5, <2>2
    <3> QED
      BY <1>1, <3>1
  <2> QED
    BY <2>1, <2>2
<1>7. CachedKeys' = {key} \cup {rest[i].key : i \in DOMAIN rest}
  <2>1. \A i \in DOMAIN items' : items'[i].key = key \/ \E j \in DOMAIN rest : items'[i].key = rest[j].key
    BY <1>2
  <2>2. \E i \in DOMAIN items' : items'[i].key = key
    BY <1>4
  <2>3. \A j \in DOMAIN rest : \E i \in DOMAIN items' : items'[i].key = rest[j].key
    BY <1>3
  <2> QED
    BY ONLY <2>1, <2>2, <2>3 DEF CachedKeys
<1>8. \A i \in DOMAIN items' : indexMap_'[items'[i].key] = items'[i].at
  <2> SUFFICES ASSUME NEW i \in DOMAIN items' PROVE indexMap_'[items'[i].key] = items'[i].at
    OBVIOUS
  <2>1. CASE i = 1
    BY <2>1
  <2>2. CASE i - 1 \in DOMAIN rest /\ items'[i] = rest[i - 1]
    <3>1. PICK a \in DOMAIN items : rest[i - 1] = items[a]
      BY <2>2 DEF Behind
    <3> QED
      BY <2>2, <3>1 DEF IndexAgrees
  <2> QED
    BY <1>2, <2>1, <2>2
<1> QED
  BY <1>6, <1>7, <1>8 DEF IndexAgrees

\* A key that comes to the front, with its value.
LEMMA ToTheFront ==
  ASSUME CacheInv, NEW key \in CacheKeys, NEW value \in CacheValues, NEW at \in Nodes,
         NEW rest, Behind(rest, key), Len(rest) < Capacity,
         items' = <<[at |-> at, key |-> key, value |-> value]>> \o rest, Use(key),
         put' = [put EXCEPT ![key] = value], erased' = erased \ {key},
         \A i \in DOMAIN rest : rest[i].at # at,
         DOMAIN indexMap_' = {key} \cup {rest[i].key : i \in DOMAIN rest}, indexMap_'[key] = at,
         \A i \in DOMAIN rest : indexMap_'[rest[i].key] = indexMap_[rest[i].key]
  PROVE  CacheInv'
<1> DEFINE new == [at |-> at, key |-> key, value |-> value]
<1>1. CacheTypeOK /\ UsedInOrder /\ CachedIsLatest /\ IndexAgrees /\ NodesDiffer
  BY DEF CacheInv
<1>2. /\ new \in Item /\ rest \in Seq(Item)
      /\ new.key = key /\ new.value = value /\ new.at = at
  BY DEF Item, Behind
<1> HIDE DEF new
<1>3. /\ items' \in Seq(Item) /\ Len(items') = Len(rest) + 1 /\ items'[1] = new
      /\ \A i \in 1 .. Len(rest) : items'[i + 1] = rest[i]
      /\ \A i \in 2 .. Len(rest) + 1 : items'[i] = rest[i - 1]
  BY <1>2, Fronted DEF new
<1>4. /\ usedKeys' \in Seq(CacheKeys) /\ IsInjective(usedKeys')
      /\ Len(usedKeys') \in Nat \ {0} /\ usedKeys'[1] = key
      /\ \A m \in DOMAIN usedKeys : usedKeys[m] # key =>
           \E n \in DOMAIN usedKeys' : usedKeys'[n] = usedKeys[m]
      /\ \A n \in DOMAIN usedKeys' \ {1} :
           \E m \in DOMAIN usedKeys :
              /\ usedKeys[m] = usedKeys'[n] /\ usedKeys[m] # key /\ m \in {n - 1, n}
              /\ m = n <=> \E p \in DOMAIN usedKeys : p < m /\ usedKeys[p] = key
  <2>1. usedKeys \in Seq(CacheKeys) /\ IsInjective(usedKeys)
    BY <1>1 DEF CacheTypeOK, UsedInOrder
  <2> QED
    BY <2>1, UseMoves
<1>5. CacheTypeOK'
  BY <1>1, <1>3, <1>4 DEF CacheTypeOK
<1>6. /\ DOMAIN items' = 1 .. Len(rest) + 1 /\ DOMAIN rest = 1 .. Len(rest) /\ Len(rest) \in Nat
      /\ DOMAIN usedKeys' = 1 .. Len(usedKeys') /\ DOMAIN usedKeys \subseteq Nat \ {0}
  BY <1>1, <1>2, <1>3, <1>4 DEF CacheTypeOK
<1>7. \A i \in DOMAIN items' \ {1} : i - 1 \in DOMAIN rest /\ items'[i] = rest[i - 1] /\ items'[i].key # key
  <2> SUFFICES ASSUME NEW i \in DOMAIN items' \ {1}
               PROVE  i - 1 \in DOMAIN rest /\ items'[i] = rest[i - 1] /\ items'[i].key # key
    OBVIOUS
  <2>1. i \in 2 .. Len(rest) + 1 /\ i - 1 \in DOMAIN rest
    BY <1>6
  <2>2. PICK a \in DOMAIN items : rest[i - 1] = items[a] /\ items[a].key # key
    BY <2>1 DEF Behind
  <2> QED
    BY <1>3, <2>1, <2>2
<1>8. UsedInOrder'
  <2>1. ASSUME NEW i \in DOMAIN items' PROVE \E m \in DOMAIN usedKeys' : usedKeys'[m] = items'[i].key
    <3>1. CASE i = 1
      <4>1. items'[1].key = key /\ usedKeys'[1] = key
        BY <1>2, <1>3, <1>4
      <4>2. 1 \in DOMAIN usedKeys'
        BY <1>4, <1>6
      <4> QED
        BY ONLY <3>1, <4>1, <4>2
    <3>2. CASE i # 1
      <4>1. PICK a \in DOMAIN items : rest[i - 1] = items[a] /\ items[a].key # key
        BY <1>7, <3>2 DEF Behind
      <4>2. PICK m \in DOMAIN usedKeys : usedKeys[m] = items[a].key
        BY <1>1 DEF UsedInOrder
      <4> QED
        BY <1>4, <1>7, <3>2, <4>1, <4>2
    <3> QED
      BY <3>1, <3>2
  <2>2. ASSUME NEW i \in DOMAIN items', NEW j \in DOMAIN items', NEW m \in DOMAIN usedKeys', NEW n \in DOMAIN usedKeys',
               usedKeys'[m] = items'[i].key, usedKeys'[n] = items'[j].key, i < j
        PROVE  m < n
    <3>1. j # 1 /\ n # 1
      BY <1>4, <1>6, <1>7, <2>2
    <3>2. CASE i = 1
      <4>1. usedKeys'[m] = usedKeys'[1] /\ 1 \in DOMAIN usedKeys'
        BY <1>2, <1>3, <1>4, <1>6, <2>2, <3>2
      <4>2. m = 1
        BY <1>4, <4>1 DEF IsInjective
      <4> QED
        BY <1>6, <3>1, <4>2
    <3>3. CASE i # 1
      <4>1. m # 1
        BY <1>4, <1>7, <2>2, <3>3
      <4>2. PICK mo \in DOMAIN usedKeys : /\ usedKeys[mo] = usedKeys'[m] /\ usedKeys[mo] # key /\ mo \in {m - 1, m}
                                          /\ mo = m <=> \E p \in DOMAIN usedKeys : p < mo /\ usedKeys[p] = key
        BY <1>4, <4>1
      <4>3. PICK no \in DOMAIN usedKeys : /\ usedKeys[no] = usedKeys'[n] /\ usedKeys[no] # key /\ no \in {n - 1, n}
                                          /\ no = n <=> \E p \in DOMAIN usedKeys : p < no /\ usedKeys[p] = key
        BY <1>4, <3>1
      <4>4. i - 1 \in DOMAIN rest /\ j - 1 \in DOMAIN rest /\ i - 1 < j - 1
        BY <1>6, <1>7, <2>2, <3>1, <3>3
      <4>5. PICK a \in DOMAIN items, b \in DOMAIN items : a < b /\ rest[i - 1] = items[a] /\ rest[j - 1] = items[b]
        BY <4>4 DEF Behind
      <4>6. usedKeys[mo] = items[a].key /\ usedKeys[no] = items[b].key
        BY <1>7, <2>2, <3>1, <3>3, <4>2, <4>3, <4>5
      <4>7. mo < no
        BY <1>1, <4>5, <4>6 DEF UsedInOrder
      <4>8. m # n
        BY <1>1, <1>6, <4>2, <4>3, <4>7 DEF UsedInOrder, IsInjective
      <4> QED
        BY <1>6, <4>2, <4>3, <4>7, <4>8
    <3> QED
      BY <3>2, <3>3
  <2> HIDE DEF Use
  <2>3. IsInjective(usedKeys')
    BY <1>4
  <2>4. \A i \in DOMAIN items' : \E m \in DOMAIN usedKeys' : usedKeys'[m] = items'[i].key
    BY ONLY <2>1
  <2>5. \A i, j \in DOMAIN items', m, n \in DOMAIN usedKeys' :
           usedKeys'[m] = items'[i].key /\ usedKeys'[n] = items'[j].key /\ i < j => m < n
    BY ONLY <2>2
  <2> QED
    BY ONLY <2>3, <2>4, <2>5 DEF UsedInOrder, IsInjective
<1>9. CachedIsLatest'
  <2>1. Len(items') <= Capacity
    BY <1>3, <1>6, ContainersAssumption
  <2>2. \A i \in DOMAIN items' : items'[i].value = put'[items'[i].key] /\ items'[i].key \notin erased'
    <3> SUFFICES ASSUME NEW i \in DOMAIN items'
                 PROVE  items'[i].value = put'[items'[i].key] /\ items'[i].key \notin erased'
      OBVIOUS
    <3>1. CASE i = 1
      BY <1>1, <1>2, <1>3, <3>1 DEF CacheTypeOK
    <3>2. CASE i # 1
      <4>1. PICK a \in DOMAIN items : rest[i - 1] = items[a] /\ items[a].key # key
        BY <1>7, <3>2 DEF Behind
      <4>2. items[a] \in Item /\ items[a].key \in CacheKeys
        <5>1. items[a] \in Item
          BY <1>1 DEF CacheTypeOK
        <5> QED
          BY <5>1 DEF Item
      <4> QED
        BY <1>1, <1>7, <3>2, <4>1, <4>2 DEF CacheTypeOK, CachedIsLatest
    <3> QED
      BY <3>1, <3>2
  <2>3. \A i \in DOMAIN items' : items'[i].key \in CachedKeys'
    BY DEF CachedKeys
  <2>4. ASSUME NEW n \in DOMAIN usedKeys', n <= Capacity PROVE usedKeys'[n] \in CachedKeys' \cup erased'
    <3>1. CASE n = 1
      <4>1. 1 \in DOMAIN items' /\ items'[1].key = key /\ usedKeys'[n] = key
        BY <1>2, <1>3, <1>4, <1>6, <3>1
      <4>2. key \in CachedKeys'
        BY <2>3, <4>1
      <4> QED
        BY <4>1, <4>2
    <3>2. CASE n # 1
      <4>1. PICK m \in DOMAIN usedKeys : /\ usedKeys[m] = usedKeys'[n] /\ usedKeys[m] # key /\ m \in {n - 1, n}
                                         /\ m = n <=> \E p \in DOMAIN usedKeys : p < m /\ usedKeys[p] = key
        BY <1>4, <3>2
      <4>2. m <= Capacity
        BY <1>6, <2>4, <4>1, ContainersAssumption
      <4>3. CASE usedKeys[m] \in erased
        BY <4>1, <4>3
      <4>4. ASSUME NEW a \in DOMAIN items, usedKeys[m] = items[a].key PROVE usedKeys'[n] \in CachedKeys'
        <5>1. CASE \E i \in DOMAIN rest : rest[i] = items[a]
          <6>1. PICK i \in DOMAIN rest : rest[i] = items[a]
            BY <5>1
          <6>2. i + 1 \in DOMAIN items' /\ items'[i + 1] = items[a]
            BY <1>3, <1>6, <6>1
          <6> QED
            BY <2>3, <4>1, <4>4, <6>2
        <5>2. CASE a >= Capacity /\ key \notin CachedKeys
          <6>1. m >= a /\ ((\E p \in DOMAIN usedKeys : p < m /\ usedKeys[p] = key) => m >= a + 1)
            BY <1>1, <4>4, <5>2, Crowded
          <6>2. a \in Nat
            BY <1>1 DEF CacheTypeOK
          <6> QED
            BY <1>6, <2>4, <4>1, <4>2, <5>2, <6>1, <6>2, ContainersAssumption
        <5> QED
          BY <4>1, <4>4, <5>1, <5>2 DEF Behind
      <4>5. usedKeys[m] \in CachedKeys \cup erased
        BY <1>1, <4>2 DEF CachedIsLatest
      <4> QED
        BY <4>3, <4>4, <4>5 DEF CachedKeys
    <3> QED
      BY <3>1, <3>2
  <2> QED
    BY <2>1, <2>2, <2>4 DEF CachedIsLatest
<1>10. IndexAgrees' /\ NodesDiffer'
  BY <1>1, <1>2, <1>3, IndexStays
<1> QED
  BY <1>5, <1>8, <1>9, <1>10 DEF CacheInv

\* What stays of a list without the key, and what the index has of it.
LEMMA OthersIndexed ==
  ASSUME CacheInv, NEW key \in CachedKeys, NEW rest, Behind(rest, key)
  PROVE  /\ CachedKeys = {key} \cup {rest[i].key : i \in DOMAIN rest}
         /\ \A i \in DOMAIN rest : rest[i].key # key
         /\ \A a \in DOMAIN items : items[a].key = key =>
              \A i \in DOMAIN rest : rest[i].at # items[a].at
<1>1. \A i \in DOMAIN rest : \E a \in DOMAIN items : rest[i] = items[a] /\ items[a].key # key
  BY DEF Behind
<1>2. \A a \in DOMAIN items : items[a].key = key \/ \E i \in DOMAIN rest : rest[i] = items[a]
  BY DEF Behind
<1>3. CachedKeys = {key} \cup {rest[i].key : i \in DOMAIN rest}
  BY <1>1, <1>2 DEF CachedKeys
<1> QED
  BY <1>1, <1>3 DEF CacheInv, NodesDiffer

LEMMA PutKeeps ==
  ASSUME CacheInv, NEW key \in CacheKeys, NEW value \in CacheValues, Put(key, value)
  PROVE  CacheInv'
<1>1. /\ CacheTypeOK /\ UsedInOrder /\ IndexAgrees /\ NodesDiffer
      /\ Len(items) <= Capacity /\ Capacity \in Nat \ {0}
  BY ContainersAssumption DEF CacheInv, CachedIsLatest
<1>2. /\ items \in Seq(Item) /\ Len(items) \in Nat /\ DOMAIN items = 1 .. Len(items)
      /\ \A k : Indexed(k) <=> k \in CachedKeys
  BY <1>1 DEF CacheTypeOK, IndexAgrees, Indexed
<1>3. CASE PutKnown(key, value)
  <2> DEFINE item == items[IndexOf(key)]
             rest == Others(key)
  <2>1. key \in CachedKeys /\ indexMap_' = indexMap_
    BY <1>2, <1>3 DEF PutKnown
  <2>2. /\ Behind(rest, key) /\ Len(rest) = Len(items) - 1
        /\ IndexOf(key) \in DOMAIN items /\ item.key = key
    BY <1>1, <2>1, OthersAreBehind
  <2>3. item \in Item
    BY <1>2, <2>2
  <2>4. /\ [item EXCEPT !.value = value] = [at |-> item.at, key |-> key, value |-> value]
        /\ item.at \in Nodes
    BY <2>2, <2>3 DEF Item
  <2>5. items' = <<[at |-> item.at, key |-> key, value |-> value]>> \o rest
    BY <1>3, <2>4 DEF PutKnown
  <2>6. /\ DOMAIN indexMap_' = {key} \cup {rest[i].key : i \in DOMAIN rest}
        /\ \A i \in DOMAIN rest : rest[i].at # item.at
        /\ indexMap_'[key] = item.at
    BY <1>1, <2>1, <2>2, OthersIndexed DEF IndexAgrees
  <2>7. Len(rest) < Capacity
    BY ONLY <1>1, <1>2, <2>2
  <2>8. /\ Use(key) /\ put' = [put EXCEPT ![key] = value] /\ erased' = erased \ {key}
        /\ \A i \in DOMAIN rest : indexMap_'[rest[i].key] = indexMap_[rest[i].key]
    BY <2>1 DEF Put
  <2> HIDE DEF item, rest
  <2> QED
    BY <2>2, <2>4, <2>5, <2>6, <2>7, <2>8, ToTheFront
<1>4. CASE PutNew(key, value)
  <2> DEFINE full == Len(items) >= Capacity
             rest == IF full THEN Front(items) ELSE items
             index == IF full THEN Drop(indexMap_, {Last(items).key}) ELSE indexMap_
  <2>1. key \notin CachedKeys /\ \A i \in DOMAIN items : items[i].key # key
    BY <1>2, <1>4 DEF PutNew, CachedKeys
  <2>2. PICK at \in Nodes :
          /\ \A i \in DOMAIN rest : rest[i].at # at
          /\ items' = <<[at |-> at, key |-> key, value |-> value]>> \o rest
          /\ indexMap_' = Assign(index, key, at)
    BY <1>4 DEF PutNew, PushFront
  <2>3. /\ Behind(rest, key) /\ Len(rest) < Capacity /\ key \notin DOMAIN index
        /\ DOMAIN index = {rest[i].key : i \in DOMAIN rest}
        /\ \A i \in DOMAIN rest : index[rest[i].key] = indexMap_[rest[i].key]
    <3>1. CASE full
      <4>1. /\ Front(items) \in Seq(Item) /\ Len(Front(items)) = Len(items) - 1
            /\ DOMAIN Front(items) = 1 .. Len(items) - 1
            /\ \A i \in 1 .. Len(items) - 1 : Front(items)[i] = items[i]
        BY <1>1, <1>2, <3>1 DEF Front
      <4>2. rest = Front(items) /\ index = Drop(indexMap_, {Last(items).key})
        BY <3>1
      <4>3. Behind(rest, key)
        <5>1. \A a \in DOMAIN items : a \in DOMAIN Front(items) \/ a >= Capacity
          BY <1>1, <1>2, <3>1, <4>1
        <5>2. DOMAIN Front(items) \subseteq DOMAIN items
          BY <1>2, <4>1
        <5> QED
          BY <2>1, <4>1, <4>2, <5>1, <5>2 DEF Behind
      <4>4. /\ Last(items) = items[Len(items)] /\ Len(items) \in DOMAIN items
            /\ DOMAIN items = DOMAIN rest \cup {Len(items)} /\ Len(items) \notin DOMAIN rest
        BY <1>1, <1>2, <3>1, <4>1, <4>2 DEF Last
      <4>5. \A i \in DOMAIN rest : rest[i].key = items[i].key /\ items[i].key # Last(items).key
        BY <1>1, <4>1, <4>2, <4>4, DistinctKeys
      <4>6. CachedKeys = {rest[i].key : i \in DOMAIN rest} \cup {Last(items).key}
        BY <4>4, <4>5 DEF CachedKeys
      <4>7. DOMAIN index = DOMAIN indexMap_ \ {Last(items).key}
        BY <4>2 DEF Drop
      <4>8. DOMAIN index = {rest[i].key : i \in DOMAIN rest}
        BY <1>1, <4>5, <4>6, <4>7 DEF IndexAgrees
      <4>9. \A i \in DOMAIN rest : index[rest[i].key] = indexMap_[rest[i].key]
        BY <4>2, <4>7, <4>8 DEF Drop
      <4>10. Len(rest) < Capacity
        BY <1>1, <1>2, <4>1, <4>2
      <4> HIDE DEF rest, index, full
      <4> QED
        BY <1>1, <2>1, <4>3, <4>7, <4>8, <4>9, <4>10 DEF IndexAgrees
    <3>2. CASE ~full
      <4>1. Behind(items, key)
        BY <1>2, <2>1 DEF Behind
      <4> QED
        BY <1>1, <1>2, <2>1, <3>2, <4>1 DEF IndexAgrees, CachedKeys
    <3> QED
      BY <3>1, <3>2
  <2> HIDE DEF rest, index, full
  <2>4. /\ DOMAIN indexMap_' = {key} \cup {rest[i].key : i \in DOMAIN rest}
        /\ indexMap_'[key] = at
    BY <2>2, <2>3 DEF Assign
  <2>5. \A i \in DOMAIN rest : indexMap_'[rest[i].key] = indexMap_[rest[i].key]
    <3> SUFFICES ASSUME NEW i \in DOMAIN rest
                 PROVE  indexMap_'[rest[i].key] = indexMap_[rest[i].key]
      OBVIOUS
    <3>1. rest[i].key \in DOMAIN index /\ rest[i].key # key
      BY <2>3
    <3> QED
      BY <2>2, <2>3, <3>1 DEF Assign
  <2> QED
    BY <2>2, <2>3, <2>4, <2>5, ToTheFront DEF Put
<1> QED
  BY <1>3, <1>4 DEF Put

LEMMA GetKeeps ==
  ASSUME CacheInv, NEW key \in CacheKeys, Get(key)
  PROVE  CacheInv'
<1> DEFINE item == items[IndexOf(key)]
           rest == Others(key)
<1>1. /\ CacheTypeOK /\ UsedInOrder /\ CachedIsLatest /\ IndexAgrees /\ NodesDiffer
      /\ key \in CachedKeys /\ indexMap_' = indexMap_
  BY DEF CacheInv, Get, Indexed, IndexAgrees
<1>2. /\ Behind(rest, key) /\ Len(rest) = Len(items) - 1
      /\ IndexOf(key) \in DOMAIN items /\ item.key = key
  BY <1>1, OthersAreBehind
<1>3. item \in Item /\ item.value = put[key] /\ key \notin erased
  BY <1>1, <1>2 DEF CacheTypeOK, CachedIsLatest
<1>4. /\ item = [at |-> item.at, key |-> key, value |-> item.value]
      /\ item.value \in CacheValues /\ item.at \in Nodes
  BY <1>2, <1>3 DEF Item
<1>5. items' = <<[at |-> item.at, key |-> key, value |-> item.value]>> \o rest
  BY <1>4 DEF Get
<1>6. put' = [put EXCEPT ![key] = item.value] /\ erased' = erased \ {key}
  BY <1>1, <1>3 DEF Get, CacheTypeOK
<1>7. Len(rest) < Capacity
  BY <1>1, <1>2, ContainersAssumption DEF CachedIsLatest, CacheTypeOK
<1>8. /\ DOMAIN indexMap_' = {key} \cup {rest[i].key : i \in DOMAIN rest}
      /\ \A i \in DOMAIN rest : rest[i].at # item.at
      /\ indexMap_'[key] = item.at
  BY <1>1, <1>2, OthersIndexed DEF IndexAgrees
<1>9. Use(key) /\ \A i \in DOMAIN rest : indexMap_'[rest[i].key] = indexMap_[rest[i].key]
  BY <1>1 DEF Get
<1> HIDE DEF item, rest
<1> QED
  BY <1>2, <1>4, <1>5, <1>6, <1>7, <1>8, <1>9, ToTheFront

LEMMA EraseKeeps ==
  ASSUME CacheInv, NEW key \in CacheKeys, EraseKey(key)
  PROVE  CacheInv'
<1>1. /\ CacheTypeOK /\ UsedInOrder /\ CachedIsLatest /\ IndexAgrees /\ NodesDiffer
      /\ key \in CachedKeys /\ items' = Others(key) /\ indexMap_' = Drop(indexMap_, {key})
      /\ erased' = erased \cup {key} /\ UNCHANGED <<usedKeys, put>>
  BY DEF CacheInv, EraseKey, Indexed, IndexAgrees
<1>2. Behind(items', key) /\ Len(items') = Len(items) - 1
  BY <1>1, OthersAreBehind
<1>3. CacheTypeOK'
  BY <1>1, <1>2 DEF CacheTypeOK, Behind
<1>4. UsedInOrder'
  <2>1. \A i \in DOMAIN items' : \E m \in DOMAIN usedKeys : usedKeys[m] = items'[i].key
    BY <1>1, <1>2 DEF Behind, UsedInOrder
  <2>2. ASSUME NEW i \in DOMAIN items', NEW j \in DOMAIN items', NEW m \in DOMAIN usedKeys, NEW n \in DOMAIN usedKeys,
               usedKeys[m] = items'[i].key, usedKeys[n] = items'[j].key, i < j
        PROVE  m < n
    <3>1. PICK a \in DOMAIN items, b \in DOMAIN items : a < b /\ items'[i] = items[a] /\ items'[j] = items[b]
      BY <1>2, <2>2 DEF Behind
    <3> QED
      BY <1>1, <2>2, <3>1 DEF UsedInOrder
  <2> QED
    BY <1>1, <2>1, <2>2 DEF UsedInOrder
<1>5. CachedIsLatest'
  <2>1. Len(items') <= Capacity
    BY <1>1, <1>2, ContainersAssumption DEF CachedIsLatest, CacheTypeOK
  <2>2. \A i \in DOMAIN items' : items'[i].value = put[items'[i].key] /\ items'[i].key \notin erased'
    BY <1>1, <1>2 DEF Behind, CachedIsLatest
  <2>3. \A i \in DOMAIN usedKeys : i <= Capacity => usedKeys[i] \in CachedKeys' \cup erased'
    <3> SUFFICES ASSUME NEW i \in DOMAIN usedKeys, i <= Capacity, usedKeys[i] \notin erased'
                 PROVE  usedKeys[i] \in CachedKeys'
      OBVIOUS
    <3>1. PICK a \in DOMAIN items : items[a].key = usedKeys[i]
      BY <1>1 DEF CachedIsLatest, CachedKeys
    <3>2. PICK j \in DOMAIN items' : items'[j] = items[a]
      BY <1>1, <1>2, <3>1 DEF Behind
    <3> QED
      BY <3>1, <3>2 DEF CachedKeys
  <2> QED
    BY <1>1, <2>1, <2>2, <2>3 DEF CachedIsLatest
<1>6. CachedKeys = {key} \cup CachedKeys' /\ key \notin CachedKeys'
  <2>1. /\ CachedKeys = {key} \cup {items'[i].key : i \in DOMAIN items'}
        /\ \A i \in DOMAIN items' : items'[i].key # key
    BY <1>1, <1>2, OthersIndexed
  <2>2. CachedKeys' = {items'[i].key : i \in DOMAIN items'}
    BY DEF CachedKeys
  <2> QED
    BY ONLY <2>1, <2>2
<1>7. IndexAgrees'
  <2>1. DOMAIN indexMap_' = CachedKeys'
    BY <1>1, <1>6 DEF IndexAgrees, Drop
  <2>2. ASSUME NEW i \in DOMAIN items' PROVE indexMap_'[items'[i].key] = items'[i].at
    <3>1. PICK a \in DOMAIN items : items'[i] = items[a]
      BY <1>2 DEF Behind
    <3>2. items'[i].key \in DOMAIN indexMap_'
      BY <2>1 DEF CachedKeys
    <3>3. indexMap_'[items'[i].key] = indexMap_[items'[i].key]
      BY <1>1, <3>2 DEF Drop
    <3> QED
      BY <1>1, <3>1, <3>3 DEF IndexAgrees
  <2> QED
    BY <2>1, <2>2 DEF IndexAgrees
<1>8. NodesDiffer'
  <2>1. ASSUME NEW i \in DOMAIN items', NEW j \in DOMAIN items', i < j PROVE items'[i].at # items'[j].at
    <3>1. PICK a \in DOMAIN items, b \in DOMAIN items : a < b /\ items'[i] = items[a] /\ items'[j] = items[b]
      BY <1>2, <2>1 DEF Behind
    <3>2. a # b
      BY <1>1, <3>1 DEF CacheTypeOK
    <3> QED
      BY <1>1, <3>1, <3>2 DEF NodesDiffer
  <2>2. items' \in Seq(Item)
    BY <1>2 DEF Behind
  <2> QED
    BY <2>1, <2>2 DEF NodesDiffer
<1> QED
  BY <1>3, <1>4, <1>5, <1>7, <1>8 DEF CacheInv

LEMMA ClearCacheKeeps ==
  ASSUME CacheInv, ClearCache
  PROVE  CacheInv'
<1>1. items' = <<>> /\ Len(items') = 0 /\ DOMAIN items' = {} /\ DOMAIN indexMap_' = {}
  BY DEF ClearCache
<1>2. \A i \in DOMAIN usedKeys : usedKeys[i] \in CacheKeys
  BY DEF CacheInv, CacheTypeOK
<1> QED
  BY <1>1, <1>2, ContainersAssumption
  DEF ClearCache, CacheInv, CacheTypeOK, UsedInOrder, CachedIsLatest, IndexAgrees, NodesDiffer,
      CachedKeys

\* A new cache is empty.
LEMMA CacheStarts ==
  ASSUME CacheInit
  PROVE  CacheInv
<1>1. /\ items = <<>> /\ usedKeys = <<>> /\ Len(items) = 0
      /\ DOMAIN items = {} /\ DOMAIN usedKeys = {} /\ DOMAIN indexMap_ = {}
  BY DEF CacheInit
<1>2. put \in [CacheKeys -> CacheValues] /\ erased = {}
  BY ContainersAssumption DEF CacheInit
<1> QED
  BY <1>1, <1>2, ContainersAssumption
  DEF CacheInv, CacheTypeOK, UsedInOrder, CachedIsLatest, IndexAgrees, NodesDiffer, CachedKeys,
      IsInjective

LEMMA CacheMoves ==
  ASSUME CacheInv, CacheNext \/ UNCHANGED cacheVars
  PROVE  CacheInv'
<1>1. ASSUME NEW key \in CacheKeys, NEW value \in CacheValues, Put(key, value) PROVE CacheInv'
  BY <1>1, PutKeeps
<1>2. ASSUME NEW key \in CacheKeys, Get(key) PROVE CacheInv'
  BY <1>2, GetKeeps
<1>3. ASSUME NEW key \in CacheKeys, EraseKey(key) PROVE CacheInv'
  BY <1>3, EraseKeeps
<1>4. CASE ClearCache
  BY <1>4, ClearCacheKeeps
<1>5. CASE UNCHANGED cacheVars
  BY <1>5 DEF CacheInv, CacheTypeOK, UsedInOrder, CachedIsLatest, CachedKeys, IndexAgrees,
     NodesDiffer, cacheVars
<1> QED
  BY <1>1, <1>2, <1>3, <1>4, <1>5 DEF CacheNext

LEMMA CacheIsInOrder ==
  ASSUME CacheInv
  PROVE  CacheKeepsLatest
<1> DEFINE place(key) == CHOOSE i \in DOMAIN usedKeys : usedKeys[i] = key
<1>1. \A i \in DOMAIN items : /\ place(items[i].key) \in DOMAIN usedKeys
                              /\ usedKeys[place(items[i].key)] = items[i].key
  BY DEF CacheInv, UsedInOrder
<1> HIDE DEF place
<1>2. \A i, j \in DOMAIN items : i < j => place(items[i].key) < place(items[j].key)
  BY <1>1 DEF CacheInv, UsedInOrder
<1> QED
  BY <1>2 DEF CacheInv, CachedIsLatest, CacheKeepsLatest, place

-----------------------------------------------------------------------------
(* The pool. *)

PoolInv ==
    /\ idlePool \in Seq(Objects) /\ activeObjs \cup held \cup dirty \subseteq Objects
    /\ ObjectsHaveOneHolder

\* There are as many objects as the pool makes beforehand.
LEMMA PoolStarts ==
  ASSUME PoolInit
  PROVE  PoolInv
<1> DEFINE N == PreAllocSize
<1>1. IsFiniteSet(Objects) /\ Cardinality(Objects) \in Nat /\ N \in Nat /\ N <= Cardinality(Objects)
      /\ MaxIdleSize \in Nat
  BY ContainersAssumption, FS_CardinalityType
<1>2. PICK n \in Nat : ExistsBijection(1 .. n, Objects)
  BY <1>1, FS_NatBijection
<1>3. n = Cardinality(Objects)
  BY <1>2, FS_CountingElements
<1>4. PICK f \in [1 .. n -> Objects] : IsInjective(f)
  BY <1>2 DEF ExistsBijection, Bijection, Injection
<1> DEFINE g == [i \in 1 .. N |-> f[i]]
<1>5. g \in [1 .. N -> Objects] /\ IsInjective(g)
  BY <1>1, <1>3, <1>4 DEF IsInjective
<1>6. idlePool \in [1 .. N -> Objects] /\ IsInjective(idlePool)
  <2> HIDE DEF g
  <2> QED
    BY <1>5 DEF PoolInit
<1>7. idlePool \in Seq(Objects) /\ Len(idlePool) = N
  BY <1>1, <1>6
<1> QED
  BY <1>1, <1>6, <1>7 DEF PoolInit, PoolInv, ObjectsHaveOneHolder

LEMMA PoolMoves ==
  ASSUME PoolInv, PoolNext \/ UNCHANGED poolVars
  PROVE  PoolInv'
<1> DEFINE most == IF MaxIdleSize > PreAllocSize THEN MaxIdleSize ELSE PreAllocSize
<1>1. /\ idlePool \in Seq(Objects) /\ Len(idlePool) \in Nat /\ DOMAIN idlePool = 1 .. Len(idlePool)
      /\ activeObjs \subseteq Objects /\ held \subseteq Objects /\ dirty \subseteq Objects
      /\ IsInjective(idlePool) /\ ToSet(idlePool) \cap (held \cup dirty) = {}
      /\ activeObjs = held /\ dirty \subseteq held /\ Len(idlePool) <= most
  BY DEF PoolInv, ObjectsHaveOneHolder
<1>2. MaxIdleSize \in Nat /\ PreAllocSize \in Nat /\ most \in Nat /\ MaxIdleSize <= most
  BY ContainersAssumption, FS_CardinalityType
<1> HIDE DEF most
<1>3. SUFFICES /\ idlePool' \in Seq(Objects) /\ activeObjs' = held' /\ held' \subseteq Objects
               /\ dirty' \subseteq held' /\ IsInjective(idlePool')
               /\ ToSet(idlePool') \cap (held' \cup dirty') = {} /\ Len(idlePool') <= most
  BY DEF PoolInv, ObjectsHaveOneHolder, most
<1>4. CASE AcquireObject
  <2>1. PICK obj \in Objects :
          /\ IF idlePool # <<>> THEN obj = Last(idlePool) /\ idlePool' = Front(idlePool)
                                ELSE obj \notin held /\ UNCHANGED idlePool
          /\ activeObjs' = activeObjs \cup {obj} /\ held' = held \cup {obj}
          /\ dirty' = IF idlePool = <<>> THEN dirty \ {obj} ELSE dirty
    BY <1>4 DEF AcquireObject
  <2>2. CASE idlePool # <<>>
    <3>1. /\ Front(idlePool) \in Seq(Objects) /\ Len(Front(idlePool)) = Len(idlePool) - 1
          /\ DOMAIN Front(idlePool) = 1 .. Len(idlePool) - 1 /\ Len(idlePool) > 0
          /\ \A i \in 1 .. Len(idlePool) - 1 : Front(idlePool)[i] = idlePool[i]
      BY <1>1, <2>2 DEF Front
    <3>2. obj = idlePool[Len(idlePool)] /\ idlePool' = Front(idlePool) /\ dirty' = dirty
      BY <2>1, <2>2 DEF Last
    <3>3. IsInjective(idlePool')
      BY <1>1, <3>1, <3>2 DEF IsInjective
    <3>4. ToSet(idlePool') \subseteq ToSet(idlePool)
      BY <1>1, <3>1, <3>2 DEF ToSet
    <3>5. obj \notin ToSet(idlePool')
      BY <1>1, <3>1, <3>2 DEF IsInjective, ToSet
    <3>6. obj \in ToSet(idlePool)
      BY <1>1, <3>1, <3>2 DEF ToSet
    <3>7. Len(idlePool') <= most
      BY ONLY <1>1, <1>2, <3>1, <3>2
    <3> QED
      BY <1>1, <2>1, <3>1, <3>2, <3>3, <3>4, <3>5, <3>6, <3>7
  <2>3. CASE idlePool = <<>>
    <3>1. ToSet(idlePool') = {} /\ idlePool' = idlePool
      BY <2>1, <2>3 DEF ToSet
    <3> QED
      BY <1>1, <2>1, <2>3, <3>1
  <2> QED
    BY <2>2, <2>3
<1>5. ASSUME NEW obj \in Objects, ReleaseObject(obj) PROVE <1>3!1
  <2>1. /\ obj \in held /\ held' = held \ {obj} /\ activeObjs' = activeObjs \ {obj}
        /\ dirty' = dirty \ {obj}
        /\ idlePool' = IF Len(idlePool) < MaxIdleSize THEN Append(idlePool, obj) ELSE idlePool
    BY <1>5 DEF ReleaseObject
  <2>2. CASE Len(idlePool) < MaxIdleSize
    <3>1. idlePool' = Append(idlePool, obj)
      BY <2>1, <2>2
    <3>2. /\ idlePool' \in Seq(Objects) /\ Len(idlePool') = Len(idlePool) + 1
          /\ DOMAIN idlePool' = 1 .. Len(idlePool) + 1 /\ idlePool'[Len(idlePool) + 1] = obj
          /\ \A i \in 1 .. Len(idlePool) : idlePool'[i] = idlePool[i]
      BY <1>1, <3>1
    <3>3. \A i \in DOMAIN idlePool : idlePool[i] # obj
      BY <1>1, <2>1 DEF ToSet
    <3>4. IsInjective(idlePool')
      BY <1>1, <3>2, <3>3 DEF IsInjective
    <3>5. ToSet(idlePool') = ToSet(idlePool) \cup {obj}
      BY <1>1, <3>2 DEF ToSet
    <3>6. Len(idlePool') <= most
      BY ONLY <1>1, <1>2, <2>2, <3>2
    <3> QED
      BY <1>1, <2>1, <3>2, <3>4, <3>5, <3>6
  <2>3. CASE ~(Len(idlePool) < MaxIdleSize)
    BY <1>1, <2>1, <2>3
  <2> QED
    BY <2>2, <2>3
<1>6. ASSUME NEW obj \in Objects, UseObject(obj) PROVE <1>3!1
  <2>1. obj \in held /\ dirty' = dirty \cup {obj} /\ idlePool' = idlePool /\ activeObjs' = activeObjs /\ held' = held
    BY <1>6 DEF UseObject
  <2> QED
    BY <1>1, <2>1
<1>7. ASSUME NEW n \in 0 .. MaxIdleSize, ShrinkIdlePool(n) PROVE <1>3!1
  <2>1. /\ n \in Nat /\ Len(idlePool) > n /\ idlePool' = SubSeq(idlePool, 1, n)
        /\ activeObjs' = activeObjs /\ held' = held /\ dirty' = dirty
    BY <1>2, <1>7 DEF ShrinkIdlePool
  <2>2. /\ idlePool' \in Seq(Objects) /\ Len(idlePool') = n /\ DOMAIN idlePool' = 1 .. n
        /\ \A i \in 1 .. n : idlePool'[i] = idlePool[i]
    BY <1>1, <2>1
  <2>3. IsInjective(idlePool')
    BY <1>1, <2>1, <2>2 DEF IsInjective
  <2>4. ToSet(idlePool') \subseteq ToSet(idlePool)
    BY <1>1, <2>1, <2>2 DEF ToSet
  <2>5. Len(idlePool') <= most
    BY ONLY <1>1, <1>2, <2>1, <2>2
  <2> QED
    BY <1>1, <2>1, <2>2, <2>3, <2>4, <2>5
<1>8. CASE UNCHANGED poolVars
  BY <1>1, <1>8 DEF poolVars
<1> QED
  BY <1>4, <1>5, <1>6, <1>7, <1>8 DEF PoolNext

-----------------------------------------------------------------------------
(* The state machine. *)

MachineTypeOK ==
    /\ currentState \in States
    /\ history \in Seq([prev : States, event : Triggers, next : States])
    /\ Len(history) <= MaxHistorySize

LEMMA MachineStarts ==
  ASSUME MachineInit
  PROVE  MachineTypeOK
<1>1. 1 \in DOMAIN Transitions /\ MaxHistorySize \in Nat
  BY ContainersAssumption
<1>2. Transitions[1].from \in States
  BY <1>1 DEF States
<1> QED
  BY <1>1, <1>2 DEF MachineInit, MachineTypeOK

LEMMA MachineMoves ==
  ASSUME MachineTypeOK, MachineNext \/ UNCHANGED machineVars
  PROVE  MachineTypeOK'
<1> DEFINE Entry == [prev : States, event : Triggers, next : States]
<1>1. ASSUME NEW event \in Triggers, NEW passing \in SUBSET DOMAIN Transitions, HandleEvent(event, passing)
      PROVE  MachineTypeOK'
  <2> DEFINE open == {i \in passing : Transitions[i].from = currentState /\ Transitions[i].trigger = event}
             entry == [prev |-> currentState, event |-> event, next |-> Transitions[Min(open)].to]
             longer == Append(history, entry)
  <2>1. /\ open # {} /\ currentState' = Transitions[Min(open)].to
        /\ history' = IF Len(longer) > MaxHistorySize THEN Tail(longer) ELSE longer
    BY <1>1 DEF HandleEvent
  <2>2. open \in SUBSET Nat /\ open \subseteq DOMAIN Transitions
    BY ContainersAssumption
  <2> HIDE DEF open
  <2>3. \E i \in open : \A j \in open : i <= j
    BY <2>1, <2>2, LeastElement
  <2>4. Min(open) \in DOMAIN Transitions
    BY <2>2, <2>3 DEF Min
  <2>5. Transitions[Min(open)].to \in States
    BY <2>4 DEF States
  <2>6. entry \in Entry
    BY <2>5 DEF MachineTypeOK
  <2> HIDE DEF entry, Entry
  <2>7. history \in Seq(Entry) /\ Len(history) \in Nat /\ Len(history) <= MaxHistorySize
    BY DEF MachineTypeOK, Entry
  <2>8. longer \in Seq(Entry) /\ Len(longer) = Len(history) + 1
    BY <2>6, <2>7
  <2> HIDE DEF longer
  <2>9. Tail(longer) \in Seq(Entry) /\ Len(Tail(longer)) = Len(history)
    BY <2>7, <2>8
  <2>10. history' \in Seq(Entry) /\ Len(history') <= MaxHistorySize
    BY <2>1, <2>7, <2>8, <2>9, ContainersAssumption
  <2> QED
    BY <2>1, <2>5, <2>10 DEF MachineTypeOK, Entry
<1>2. ASSUME NEW state \in States, ForceState(state) PROVE MachineTypeOK'
  BY <1>2 DEF ForceState, MachineTypeOK
<1>3. CASE UNCHANGED machineVars
  BY <1>3 DEF machineVars, MachineTypeOK
<1> QED
  BY <1>1, <1>2, <1>3 DEF MachineNext

-----------------------------------------------------------------------------
(* The mapping of user identifiers. *)

MapperTypeOK ==
    /\ DOMAIN uidToUserId \cup DOMAIN owner \cup lost \subseteq Uids
    /\ DOMAIN userIdToUids \subseteq UserIds /\ former \in [Uids -> SUBSET UserIds]
    /\ \A uid \in DOMAIN uidToUserId : uidToUserId[uid] \in UserIds
    /\ \A uid \in DOMAIN owner : owner[uid] \in UserIds
    /\ \A userId \in DOMAIN userIdToUids : userIdToUids[userId] \subseteq Uids

\* Whoever has a uid again is no longer one it was taken from.
MapperInv == /\ MapperTypeOK /\ MappingsAgree
             /\ \A uid \in DOMAIN owner : owner[uid] \notin former[uid]

LEMMA MapperMoves ==
  ASSUME MapperInv, MapperNext \/ UNCHANGED mapperVars
  PROVE  MapperInv'
<1> DEFINE Now(u) == IF u \in DOMAIN userIdToUids THEN userIdToUids[u] ELSE {}
           Next(u) == IF u \in DOMAIN userIdToUids' THEN userIdToUids'[u] ELSE {}
           Has(x, u) == x \in DOMAIN owner /\ owner[x] = u
           HasNow(x, u) == x \in DOMAIN owner' /\ owner'[x] = u
           Agree == /\ DOMAIN uidToUserId' = DOMAIN owner' \ lost'
                    /\ \A x \in DOMAIN uidToUserId' : uidToUserId'[x] = owner'[x]
                    /\ \A x \in Uids, u \in UserIds :
                         x \in Next(u) <=> HasNow(x, u) \/ u \in former'[x]
                    /\ \A u \in DOMAIN userIdToUids' : userIdToUids'[u] # {}
                    /\ \A x \in DOMAIN owner' : owner'[x] \notin former'[x]
<1>a. /\ DOMAIN uidToUserId = DOMAIN owner \ lost
      /\ \A x \in DOMAIN uidToUserId : uidToUserId[x] = owner[x]
      /\ \A x \in Uids, u \in UserIds : x \in Now(u) <=> Has(x, u) \/ u \in former[x]
      /\ \A u \in DOMAIN userIdToUids : userIdToUids[u] # {}
      /\ \A x \in DOMAIN owner : owner[x] \notin former[x]
      /\ \A u : UidsOf(u) = Now(u)
  BY DEF MapperInv, MappingsAgree, UidsOf
<1>b. MapperTypeOK
  BY DEF MapperInv
<1>c. MapperTypeOK' /\ Agree => MapperInv'
  BY DEF MapperInv, MappingsAgree, UidsOf
<1> USE DEF MapperTypeOK
<1>1. ASSUME NEW uid \in Uids, NEW userId \in UserIds, MapUidToUserId(uid, userId) PROVE MapperTypeOK' /\ Agree
  <2> DEFINE before == IF uid \in DOMAIN owner THEN {owner[uid]} ELSE {}
  <2>1. /\ DOMAIN uidToUserId' = DOMAIN uidToUserId \cup {uid} /\ uidToUserId'[uid] = userId
        /\ \A u \in DOMAIN uidToUserId \ {uid} : uidToUserId'[u] = uidToUserId[u]
        /\ DOMAIN owner' = DOMAIN owner \cup {uid} /\ owner'[uid] = userId
        /\ \A u \in DOMAIN owner \ {uid} : owner'[u] = owner[u]
    BY <1>1, <1>a DEF MapUidToUserId, Assign
  <2>2. /\ DOMAIN userIdToUids' = DOMAIN userIdToUids \cup {userId}
        /\ userIdToUids'[userId] = Now(userId) \cup {uid}
        /\ \A u \in DOMAIN userIdToUids \ {userId} : userIdToUids'[u] = userIdToUids[u]
    BY <1>1, <1>a DEF MapUidToUserId, Assign
  <2>3. /\ lost' = lost \ {uid} /\ former' = [former EXCEPT ![uid] = (former[uid] \cup before) \ {userId}]
        /\ before \subseteq UserIds
    BY <1>1, <1>b DEF MapUidToUserId
  <2>4. \A u : Next(u) = IF u = userId THEN Now(u) \cup {uid} ELSE Now(u)
    BY <2>2
  <2>5. /\ former' \in [Uids -> SUBSET UserIds] /\ former'[uid] = (former[uid] \cup before) \ {userId}
        /\ \A x \in Uids \ {uid} : former'[x] = former[x]
    BY <1>b, <2>3
  <2>6. MapperTypeOK'
    BY <1>b, <2>1, <2>2, <2>3, <2>5
  <2>7. ASSUME NEW x \in Uids, NEW u \in UserIds
        PROVE  x \in Next(u) <=> HasNow(x, u) \/ u \in former'[x]
    <3>1. x \in Now(u) <=> Has(x, u) \/ u \in former[x]
      BY <1>a
    <3> HIDE DEF Now, Next
    <3>2. CASE x # uid
      BY <2>1, <2>4, <2>5, <3>1, <3>2
    <3>3. CASE x = uid
      BY <2>1, <2>4, <2>5, <3>1, <3>3
    <3> QED
      BY <3>2, <3>3
  <2>8. \A u \in DOMAIN userIdToUids' : userIdToUids'[u] # {}
    BY <1>a, <2>2
  <2>9. /\ DOMAIN uidToUserId' = DOMAIN owner' \ lost'
        /\ \A x \in DOMAIN uidToUserId' : uidToUserId'[x] = owner'[x]
    BY <1>a, <2>1, <2>3
  <2>10. \A x \in DOMAIN owner' : owner'[x] \notin former'[x]
    BY <1>a, <1>b, <2>1, <2>5
  <2> QED
    BY ONLY <2>6, <2>7, <2>8, <2>9, <2>10
<1>2. ASSUME NEW uid \in Uids, UnmapUid(uid) PROVE MapperTypeOK' /\ Agree
  <2> DEFINE userId == uidToUserId[uid]
             left == Now(userId) \ {uid}
  <2>1. uid \in DOMAIN uidToUserId /\ userId \in UserIds /\ Has(uid, userId) /\ userId \notin former[uid]
    BY <1>2, <1>a, <1>b DEF UnmapUid
  <2>2. uid \in Now(userId) /\ userId \in DOMAIN userIdToUids
    BY <1>a, <2>1
  <2>3. /\ DOMAIN uidToUserId' = DOMAIN uidToUserId \ {uid} /\ lost' = lost /\ former' = former
        /\ \A u \in DOMAIN uidToUserId \ {uid} : uidToUserId'[u] = uidToUserId[u]
        /\ DOMAIN owner' = DOMAIN owner \ {uid} /\ \A u \in DOMAIN owner \ {uid} : owner'[u] = owner[u]
    BY <1>2 DEF UnmapUid, Drop
  <2>4. userIdToUids' = IF left = {} THEN Drop(userIdToUids, {userId}) ELSE Assign(userIdToUids, userId, left)
    BY <1>2, <1>a, <2>2 DEF UnmapUid
  <2>5. \A u : Next(u) = IF u = userId THEN left ELSE Now(u)
    BY <2>2, <2>4 DEF Drop, Assign
  <2>6. /\ DOMAIN userIdToUids' \subseteq DOMAIN userIdToUids
        /\ \A u \in DOMAIN userIdToUids' : userIdToUids'[u] \subseteq Now(u) /\ userIdToUids'[u] # {}
    BY <1>a, <2>2, <2>4 DEF Drop, Assign
  <2>7. MapperTypeOK'
    BY <1>b, <2>3, <2>6
  <2>8. ASSUME NEW x \in Uids, NEW u \in UserIds
        PROVE  x \in Next(u) <=> HasNow(x, u) \/ u \in former'[x]
    <3>1. x \in Now(u) <=> Has(x, u) \/ u \in former[x]
      BY <1>a
    <3> HIDE DEF Now, Next
    <3> QED
      BY <2>1, <2>3, <2>5, <3>1
  <2>9. /\ DOMAIN uidToUserId' = DOMAIN owner' \ lost'
        /\ \A x \in DOMAIN uidToUserId' : uidToUserId'[x] = owner'[x]
        /\ \A x \in DOMAIN owner' : owner'[x] \notin former'[x]
    BY <1>a, <2>3
  <2> QED
    BY ONLY <2>6, <2>7, <2>8, <2>9
<1>3. ASSUME NEW userId \in UserIds, RemoveUser(userId) PROVE MapperTypeOK' /\ Agree
  <2> DEFINE own == {x \in DOMAIN owner : owner[x] = userId}
             taken == {x \in DOMAIN owner : userId \in former[x]}
  <2>1. /\ userId \in DOMAIN userIdToUids /\ lost' = (lost \cup taken) \ own
        /\ DOMAIN uidToUserId' = DOMAIN uidToUserId \ Now(userId)
        /\ \A u \in DOMAIN uidToUserId' : uidToUserId'[u] = uidToUserId[u]
        /\ DOMAIN owner' = DOMAIN owner \ own /\ \A u \in DOMAIN owner' : owner'[u] = owner[u]
        /\ DOMAIN userIdToUids' = DOMAIN userIdToUids \ {userId}
        /\ \A u \in DOMAIN userIdToUids' : userIdToUids'[u] = userIdToUids[u]
    BY <1>3, <1>a DEF RemoveUser, Drop
  <2>2. \A u : Next(u) = IF u = userId THEN {} ELSE Now(u)
    BY <2>1
  <2>3. /\ former' \in [Uids -> SUBSET UserIds]
        /\ \A x \in Uids : former'[x] = former[x] \ {userId}
    BY <1>3, <1>b DEF RemoveUser
  <2>4. MapperTypeOK'
    BY <1>b, <2>1, <2>3
  <2>5. ASSUME NEW x \in Uids, NEW u \in UserIds
        PROVE  x \in Next(u) <=> HasNow(x, u) \/ u \in former'[x]
    <3>1. x \in Now(u) <=> Has(x, u) \/ u \in former[x]
      BY <1>a
    <3> HIDE DEF Now, Next
    <3> QED
      BY <2>1, <2>2, <2>3, <3>1
  <2>6. \A u \in DOMAIN userIdToUids' : userIdToUids'[u] # {}
    BY <1>a, <2>1
  <2>7. ASSUME NEW x \in Uids
        PROVE  /\ x \in DOMAIN uidToUserId' <=> x \in DOMAIN owner' \ lost'
               /\ x \in DOMAIN uidToUserId' => uidToUserId'[x] = owner'[x]
               /\ x \in DOMAIN owner' => owner'[x] \notin former'[x]
    <3>1. x \in Now(userId) <=> Has(x, userId) \/ userId \in former[x]
      BY <1>a
    <3> HIDE DEF Now, Next
    <3> QED
      BY <1>a, <2>1, <2>3, <3>1
  <2>8. DOMAIN uidToUserId' \subseteq Uids /\ DOMAIN owner' \subseteq Uids
    BY <2>4
  <2> QED
    BY ONLY <2>4, <2>5, <2>6, <2>7, <2>8
<1>4. CASE ClearMappings
  BY <1>4, <1>c DEF ClearMappings
<1>5. CASE UNCHANGED mapperVars
  BY <1>a, <1>b, <1>c, <1>5 DEF mapperVars
<1> QED
  BY <1>1, <1>2, <1>3, <1>4, <1>5, <1>c DEF MapperNext

-----------------------------------------------------------------------------
ContainersInv == CacheInv /\ PoolInv /\ MachineTypeOK /\ MapperInv

LEMMA ContainersAlways == ContainersSpec => []ContainersInv
<1>1. ContainersInit => ContainersInv
  <2> SUFFICES ASSUME ContainersInit PROVE ContainersInv
    OBVIOUS
  <2>1. MapperInv
    BY DEF ContainersInit, MapperInit, MapperInv, MapperTypeOK, MappingsAgree, UidsOf
  <2> QED
    BY <2>1, CacheStarts, PoolStarts, MachineStarts DEF ContainersInit, ContainersInv
<1>2. ContainersInv /\ [ContainersNext]_<<cacheVars, poolVars, machineVars, mapperVars>> => ContainersInv'
  <2> SUFFICES ASSUME ContainersInv, [ContainersNext]_<<cacheVars, poolVars, machineVars, mapperVars>>
               PROVE  ContainersInv'
    OBVIOUS
  <2>1. /\ CacheNext \/ UNCHANGED cacheVars
        /\ PoolNext \/ UNCHANGED poolVars
        /\ MachineNext \/ UNCHANGED machineVars
        /\ MapperNext \/ UNCHANGED mapperVars
    BY DEF ContainersNext
  <2> QED
    BY <2>1, CacheMoves, PoolMoves, MachineMoves, MapperMoves DEF ContainersInv
<1> QED
  BY <1>1, <1>2, PTL DEF ContainersSpec

\* Type correctness of the containers of selection_event_bus.cpp: what the cache, the
\* pool, the machine and the mapper hold is of the kind they are made for, and the machine
\* remembers no more transitions than MaxHistorySize.
THEOREM ContainersTypeCorrect == ContainersSpec => []ContainersTypeOK
<1>1. ContainersInv => ContainersTypeOK
  <2> SUFFICES ASSUME ContainersInv PROVE ContainersTypeOK
    OBVIOUS
  <2>1. /\ DOMAIN indexMap_ \subseteq CacheKeys
        /\ \A key \in DOMAIN indexMap_ : indexMap_[key] \in Nodes
    <3>1. CacheTypeOK /\ IndexAgrees
      BY DEF ContainersInv, CacheInv
    <3>2. \A i \in DOMAIN items : items[i] \in Item
      BY <3>1 DEF CacheTypeOK
    <3> QED
      BY <3>1, <3>2 DEF IndexAgrees, CachedKeys, Item
  <2> QED
    BY <2>1 DEF ContainersInv, ContainersTypeOK, CacheInv, CacheTypeOK, Item, PoolInv,
       MachineTypeOK, MapperInv, MapperTypeOK
<1> QED
  BY <1>1, ContainersAlways, PTL

\* What the containers keep twice agrees: the cache is in the order of the last uses, with
\* the latest values, and misses only what was erased or had to give way; no object of the
\* pool has two users or is handed out used; the index of the cache leads to the nodes of its
\* list; a uid is mapped to whom it was last given, and its mapping is lost only with a user
\* it was taken from without being unmapped.
THEOREM ContainersAgreeAlways == ContainersSpec => []ContainersAgree
<1>1. ContainersInv => ContainersAgree
  <2> SUFFICES ASSUME ContainersInv PROVE ContainersAgree
    OBVIOUS
  <2> QED
    BY CacheIsInOrder DEF ContainersInv, ContainersAgree, PoolInv, MapperInv
<1> QED
  BY <1>1, ContainersAlways, PTL

-----------------------------------------------------------------------------
(* The event bus. *)

Sorted(list) == \A i, j \in DOMAIN list : i < j => Before(list[i], list[j])
AsSubscribed(h, e) == [id |-> h.id, priority |-> h.priority, type |-> e]
TypeOf(e) == {s \in subscribed : s.type = e}

LEMMA HandlerIsNumbers ==
  ASSUME NEW h \in Handler
  PROVE  h.id \in Int /\ h.id \in 1 .. MaxHandles /\ h.priority \in Int
<1>1. h.id \in 1 .. MaxHandles /\ h.priority \in Priorities
  BY DEF Handler
<1>2. MaxHandles \in Nat => \A x \in 1 .. MaxHandles : x \in Int
  OBVIOUS
<1>3. \A x \in Priorities : x \in Int
  BY EventBusAssumption
<1> QED
  BY <1>1, <1>2, <1>3, EventBusAssumption, Zenon

HandlesAreNew == \A s, r \in subscribed : s.id <= nextHandleId /\ (s.id = r.id => s = r)
ListsAreSorted == \A e \in EventTypes : Sorted(handlers[e])
ListsAreSubscribed ==
    \A e \in EventTypes : TypeOf(e) = {AsSubscribed(handlers[e][i], e) : i \in DOMAIN handlers[e]}

\* How far a publication has come in the list, which is still what it was published to.
Walks(f) ==
    /\ f.due = TypeOf(f.type) /\ Len(f.called) <= Len(handlers[f.type])
    /\ \A n \in DOMAIN f.called : f.called[n] = handlers[f.type][n].id
FramesWalk == ~undefined => \A i \in DOMAIN frames : Walks(frames[i])

BusInv == BusTypeOK /\ HandlesAreNew /\ ListsAreSorted /\ ListsAreSubscribed /\ FramesWalk

\* A new handler finds its place: after those that are as important, before the others.
LEMMA NewHandlerIsSorted ==
  ASSUME NEW list \in Seq(Handler), Sorted(list), NEW h \in Handler, \A i \in DOMAIN list : list[i].id < h.id
  PROVE  LET longer == Append(list, h)
             sorted == SortHandlers(longer)
         IN  /\ sorted \in Seq(Handler) /\ Sorted(sorted)
             /\ {sorted[i] : i \in DOMAIN sorted} = {list[i] : i \in DOMAIN list} \cup {h}
<1> DEFINE longer == Append(list, h)
           N == Len(list)
<1>1. /\ N \in Nat /\ DOMAIN list = 1 .. N /\ longer \in Seq(Handler) /\ DOMAIN longer = 1 .. N + 1
      /\ longer[N + 1] = h /\ \A i \in 1 .. N : longer[i] = list[i]
  OBVIOUS
<1> HIDE DEF longer, N
<1>2. \A i \in 1 .. N : /\ list[i] \in Handler /\ list[i].id \in Int /\ list[i].priority \in Int
                        /\ h.id \in Int /\ h.priority \in Int /\ list[i].id < h.id
  <2> SUFFICES ASSUME NEW i \in 1 .. N
               PROVE  /\ list[i] \in Handler /\ list[i].id \in Int /\ list[i].priority \in Int
                      /\ h.id \in Int /\ h.priority \in Int /\ list[i].id < h.id
    OBVIOUS
  <2>1. list[i] \in Handler
    BY <1>1
  <2> QED
    BY <1>1, <2>1, HandlerIsNumbers
<1> DEFINE T == {i \in 1 .. N + 1 : i = N + 1 \/ list[i].priority < h.priority}
<1>3. PICK k \in T : \A m \in T : k <= m
  <2>1. T \in SUBSET Nat /\ N + 1 \in T
    BY <1>1
  <2> HIDE DEF T
  <2> QED
    BY <2>1, LeastElement
<1>4. k \in 1 .. N + 1
  OBVIOUS
<1>5. \A i \in 1 .. N : i < k => Before(list[i], h)
  <2> SUFFICES ASSUME NEW i \in 1 .. N, i < k PROVE Before(list[i], h)
    OBVIOUS
  <2>1. i \notin T
    BY <1>1, <1>3, <1>4
  <2>2. ~(list[i].priority < h.priority)
    BY <1>1, <2>1
  <2> QED
    BY <1>2, <2>2 DEF Before
<1>6. \A i \in 1 .. N : i >= k => Before(h, list[i])
  <2> SUFFICES ASSUME NEW i \in 1 .. N, i >= k PROVE Before(h, list[i])
    OBVIOUS
  <2>1. k \in 1 .. N /\ list[k].priority < h.priority
    BY <1>1, <1>3, <1>4
  <2>2. i = k \/ Before(list[k], list[i])
    BY <1>1, <1>4, <2>1 DEF Sorted
  <2> QED
    BY <1>2, <2>1, <2>2 DEF Before
<1> HIDE DEF T
<1> DEFINE placed == [i \in DOMAIN longer |-> IF i < k THEN list[i] ELSE IF i = k THEN h ELSE list[i - 1]]
<1>7. placed \in [DOMAIN longer -> ToSet(longer)]
  <2> SUFFICES ASSUME NEW i \in DOMAIN longer PROVE placed[i] \in ToSet(longer)
    OBVIOUS
  <2>1. CASE i < k
    BY <1>1, <1>4, <2>1 DEF ToSet
  <2>2. CASE i = k
    BY <1>1, <1>4, <2>2 DEF ToSet
  <2>3. CASE i > k
    BY <1>1, <1>4, <2>3 DEF ToSet
  <2> QED
    BY <1>1, <1>4, <2>1, <2>2, <2>3
<1>8. ToSet(placed) = ToSet(longer)
  <2>1. ToSet(placed) \subseteq ToSet(longer)
    BY <1>7 DEF ToSet
  <2>2. ASSUME NEW i \in DOMAIN longer PROVE \E j \in DOMAIN longer : placed[j] = longer[i]
    <3>1. CASE i = N + 1
      <4>1. k \in DOMAIN longer /\ placed[k] = h /\ longer[i] = h
        BY <1>1, <1>4, <3>1
      <4> QED
        BY <4>1
    <3>2. CASE i < k /\ i # N + 1
      <4>1. placed[i] = longer[i]
        BY <1>1, <1>4, <3>2
      <4> QED
        BY <4>1
    <3>3. CASE i >= k /\ i # N + 1
      <4>1. i + 1 \in DOMAIN longer /\ placed[i + 1] = longer[i]
        BY <1>1, <1>4, <3>3
      <4> QED
        BY <4>1
    <3> QED
      BY <1>1, <1>4, <3>1, <3>2, <3>3
  <2>3. DOMAIN placed = DOMAIN longer
    OBVIOUS
  <2> HIDE DEF placed
  <2> QED
    BY <2>1, <2>2, <2>3 DEF ToSet
<1>9. \A i, j \in DOMAIN placed : i < j => Before(placed[i], placed[j])
  <2> SUFFICES ASSUME NEW i \in 1 .. N + 1, NEW j \in 1 .. N + 1, i < j PROVE Before(placed[i], placed[j])
    BY <1>1
  <2>1. CASE j < k
    BY <1>1, <1>4, <2>1 DEF Sorted
  <2>2. CASE j = k
    BY <1>1, <1>4, <1>5, <2>2
  <2>3. CASE j > k /\ i < k
    <3>1. placed[i] = list[i] /\ placed[j] = list[j - 1] /\ i \in 1 .. N /\ j - 1 \in 1 .. N /\ i < j - 1
      BY <1>1, <1>4, <2>3
    <3> QED
      BY <1>1, <3>1 DEF Sorted
  <2>4. CASE j > k /\ i = k
    <3>1. placed[i] = h /\ placed[j] = list[j - 1] /\ j - 1 \in 1 .. N /\ j - 1 >= k
      BY <1>1, <1>4, <2>4
    <3> QED
      BY <1>6, <3>1
  <2>5. CASE j > k /\ i > k
    <3>1. placed[i] = list[i - 1] /\ placed[j] = list[j - 1] /\ i - 1 \in 1 .. N /\ j - 1 \in 1 .. N /\ i - 1 < j - 1
      BY <1>1, <1>4, <2>5
    <3> QED
      BY <1>1, <3>1 DEF Sorted
  <2> QED
    BY <1>4, <2>1, <2>2, <2>3, <2>4, <2>5
<1> DEFINE sorted == SortHandlers(longer)
<1>10. /\ sorted \in [DOMAIN longer -> ToSet(longer)] /\ ToSet(sorted) = ToSet(longer)
       /\ \A i, j \in DOMAIN sorted : i < j => Before(sorted[i], sorted[j])
  <2> HIDE DEF placed
  <2> QED
    BY <1>7, <1>8, <1>9 DEF SortHandlers
<1> HIDE DEF sorted
<1>11. ToSet(longer) = {list[i] : i \in DOMAIN list} \cup {h}
  BY <1>1 DEF ToSet
<1>12. ToSet(longer) \subseteq Handler
  BY <1>1, <1>2, <1>11
<1>13. sorted \in Seq(Handler)
  BY <1>1, <1>10, <1>12
<1> QED
  BY <1>10, <1>11, <1>13 DEF Sorted, sorted, longer, ToSet

\* A list in its order names no handler twice.
LEMMA SortedIsDistinct ==
  ASSUME NEW list \in Seq(Handler), Sorted(list), NEW i \in DOMAIN list, NEW j \in DOMAIN list, list[i] = list[j]
  PROVE  i = j
<1>1. list[i] \in Handler /\ list[i].id \in Int /\ list[i].priority \in Int
  <2>1. list[i] \in Handler
    OBVIOUS
  <2> QED
    BY <2>1, HandlerIsNumbers
<1>2. ~Before(list[i], list[i])
  BY <1>1 DEF Before
<1> QED
  BY <1>2 DEF Sorted

LEMMA BusStarts ==
  ASSUME BusInit
  PROVE  BusInv
<1>1. /\ nextHandleId = 0 /\ frames = <<>> /\ undefined = FALSE /\ subscribed = {}
      /\ \A e \in EventTypes : handlers[e] = <<>>
      /\ DOMAIN frames = {} /\ Len(frames) = 0
  BY DEF BusInit
<1>2. handlers \in [EventTypes -> Seq(Handler)]
  BY DEF BusInit
<1>3. BusTypeOK
  <2>1. MaxHandles \in Nat /\ MaxDepth \in Nat
    BY EventBusAssumption
  <2>2. nextHandleId \in 0 .. MaxHandles /\ subscribed \subseteq Subscription /\ Len(frames) <= MaxDepth
    BY <1>1, <2>1
  <2>4. undefined \in BOOLEAN
    BY <1>1
  <2>3. frames \in Seq(Publication)
    BY <1>1
  <2> QED
    BY ONLY <1>2, <2>2, <2>3, <2>4 DEF BusTypeOK
<1>4. ListsAreSubscribed
  <2> SUFFICES ASSUME NEW e \in EventTypes
               PROVE  TypeOf(e) = {AsSubscribed(handlers[e][i], e) : i \in DOMAIN handlers[e]}
    BY DEF ListsAreSubscribed
  <2>1. TypeOf(e) = {} /\ DOMAIN handlers[e] = {}
    BY <1>1 DEF TypeOf
  <2> QED
    BY <2>1
<1> QED
  BY <1>1, <1>3, <1>4 DEF BusInv, HandlesAreNew, ListsAreSorted, FramesWalk, Sorted

\* What the invariant says of the step that changes the list of a type.
LEMMA ListChanges ==
  ASSUME BusInv, NEW e \in EventTypes, NEW list \in Seq(Handler), Sorted(list), ~undefined,
         Change(e, list), UNCHANGED frames, nextHandleId' \in 0 .. MaxHandles, HandlesAreNew',
         subscribed' \subseteq Subscription,
         TypeOf(e)' = {AsSubscribed(list[i], e) : i \in DOMAIN list},
         \A d \in EventTypes \ {e} : TypeOf(d)' = TypeOf(d)
  PROVE  BusInv'
<1>1. /\ BusTypeOK /\ ListsAreSorted /\ ListsAreSubscribed /\ \A i \in DOMAIN frames : Walks(frames[i])
  BY DEF BusInv, FramesWalk
<1>2. /\ handlers'[e] = list /\ \A d \in EventTypes \ {e} : handlers'[d] = handlers[d]
      /\ handlers' \in [EventTypes -> Seq(Handler)]
      /\ undefined' = Walked(e) /\ frames' = frames
  BY <1>1 DEF BusTypeOK, Change
<1>3. BusTypeOK'
  BY <1>1, <1>2 DEF BusTypeOK, Walked
<1>4. ListsAreSorted'
  BY <1>1, <1>2 DEF ListsAreSorted
<1>5. ListsAreSubscribed'
  <2> SUFFICES ASSUME NEW d \in EventTypes
               PROVE  TypeOf(d)' = {AsSubscribed(handlers'[d][i], d) : i \in DOMAIN handlers'[d]}
    BY DEF ListsAreSubscribed
  <2>1. CASE d = e
    BY <1>2, <2>1
  <2>2. CASE d # e
    BY <1>1, <1>2, <2>2 DEF ListsAreSubscribed
  <2> QED
    BY <2>1, <2>2
<1>6. FramesWalk'
  <2> SUFFICES ASSUME ~undefined', NEW i \in DOMAIN frames
               PROVE  Walks(frames[i])'
    BY <1>2 DEF FramesWalk
  <2> DEFINE f == frames[i]
  <2>1. f.type # e /\ f.type \in EventTypes /\ Walks(f)
    <3>1. f.type \in EventTypes
      <4>1. frames \in Seq(Publication)
        BY <1>1 DEF BusTypeOK
      <4>2. frames[i] \in Publication
        BY ONLY <4>1, i \in DOMAIN frames
      <4> QED
        BY ONLY <4>2 DEF Publication
    <3>2. f.type # e
      BY <1>2 DEF Walked
    <3> QED
      BY <1>1, <3>1, <3>2
  <2>2. TypeOf(f.type)' = TypeOf(f.type) /\ handlers'[f.type] = handlers[f.type]
    BY <1>2, <2>1
  <2>3. frames' = frames
    BY <1>2
  <2> QED
    BY <2>1, <2>2, <2>3 DEF Walks
<1> QED
  BY <1>3, <1>4, <1>5, <1>6 DEF BusInv

LEMMA SubscribeKeeps ==
  ASSUME BusInv, NEW e \in EventTypes, NEW p \in Priorities, Subscribe(e, p)
  PROVE  BusInv'
<1> DEFINE h == [id |-> nextHandleId + 1, priority |-> p]
           list == SortHandlers(Append(handlers[e], h))
<1>1. BusTypeOK /\ HandlesAreNew /\ ListsAreSorted /\ ListsAreSubscribed /\ MaxHandles \in Nat
  BY EventBusAssumption DEF BusInv
<1>2. /\ ~undefined /\ nextHandleId < MaxHandles /\ nextHandleId' = nextHandleId + 1
      /\ Change(e, list) /\ subscribed' = subscribed \cup {AsSubscribed(h, e)} /\ UNCHANGED frames
  BY DEF Subscribe, MayCall, AsSubscribed
<1>3. nextHandleId \in 0 .. MaxHandles /\ subscribed \subseteq Subscription /\ handlers[e] \in Seq(Handler)
  BY <1>1 DEF BusTypeOK
<1>4. nextHandleId' \in 0 .. MaxHandles /\ nextHandleId + 1 \in 1 .. MaxHandles
  BY ONLY <1>1, <1>2, <1>3
<1>5. h \in Handler
  BY <1>4 DEF Handler
<1>6. \A s \in subscribed : s.id <= nextHandleId /\ s.id \in Int
  BY <1>1, <1>3 DEF HandlesAreNew, Subscription
<1>7. TypeOf(e) = {AsSubscribed(handlers[e][i], e) : i \in DOMAIN handlers[e]}
  BY <1>1 DEF ListsAreSubscribed
<1>8. \A i \in DOMAIN handlers[e] : handlers[e][i].id < h.id
  <2> SUFFICES ASSUME NEW i \in DOMAIN handlers[e] PROVE handlers[e][i].id < h.id
    OBVIOUS
  <2>1. AsSubscribed(handlers[e][i], e) \in subscribed
    BY <1>7 DEF TypeOf
  <2>2. handlers[e][i].id <= nextHandleId /\ handlers[e][i].id \in Int
    BY <1>6, <2>1 DEF AsSubscribed
  <2> QED
    BY <1>3, <2>2
<1>9. Sorted(handlers[e])
  BY <1>1 DEF ListsAreSorted
<1> HIDE DEF h
<1>10. /\ list \in Seq(Handler) /\ Sorted(list)
       /\ {list[i] : i \in DOMAIN list} = {handlers[e][i] : i \in DOMAIN handlers[e]} \cup {h}
  BY <1>3, <1>5, <1>8, <1>9, NewHandlerIsSorted
<1> HIDE DEF list
<1>11. TypeOf(e)' = {AsSubscribed(list[i], e) : i \in DOMAIN list}
  <2>1. TypeOf(e)' = TypeOf(e) \cup {AsSubscribed(h, e)}
    BY <1>2 DEF TypeOf, AsSubscribed
  <2>2. \A x : x \in {AsSubscribed(list[i], e) : i \in DOMAIN list} <=>
                 \E g \in {list[i] : i \in DOMAIN list} : x = AsSubscribed(g, e)
    OBVIOUS
  <2>3. \A x : x \in TypeOf(e) <=> \E g \in {handlers[e][i] : i \in DOMAIN handlers[e]} : x = AsSubscribed(g, e)
    BY <1>7
  <2> QED
    BY <1>10, <2>1, <2>2, <2>3
<1>12. \A d \in EventTypes \ {e} : TypeOf(d)' = TypeOf(d)
  BY <1>2 DEF TypeOf, AsSubscribed
<1>13. subscribed' \subseteq Subscription
  BY <1>2, <1>3, <1>5 DEF AsSubscribed, Subscription, Handler
<1>14. HandlesAreNew'
  <2>1. AsSubscribed(h, e).id = nextHandleId + 1
    BY DEF AsSubscribed, h
  <2>2. \A s \in subscribed : s.id # nextHandleId + 1 /\ s.id <= nextHandleId + 1
    BY <1>3, <1>6
  <2>3. \A s \in subscribed' : s.id <= nextHandleId'
    BY <1>2, <1>3, <2>1, <2>2
  <2>4. \A s, r \in subscribed' : s.id = r.id => s = r
    BY <1>1, <1>2, <2>1, <2>2 DEF HandlesAreNew
  <2> QED
    BY <2>3, <2>4 DEF HandlesAreNew
<1> QED
  BY <1>2, <1>4, <1>10, <1>11, <1>12, <1>13, <1>14, ListChanges

LEMMA UnsubscribeKeeps ==
  ASSUME BusInv, NEW e \in EventTypes, NEW id \in 1 .. MaxHandles, Unsubscribe(e, id)
  PROVE  BusInv'
<1>1. BusTypeOK /\ HandlesAreNew /\ ListsAreSorted /\ ListsAreSubscribed
  BY DEF BusInv
<1>2. PICK at \in DOMAIN handlers[e] : handlers[e][at].id = id /\ Change(e, RemoveAt(handlers[e], at))
  BY DEF Unsubscribe
<1> DEFINE old == handlers[e]
           list == RemoveAt(old, at)
<1>3. /\ ~undefined /\ subscribed' = {s \in subscribed : s.id # id} /\ UNCHANGED <<nextHandleId, frames>>
  BY DEF Unsubscribe, MayCall
<1>4. /\ nextHandleId \in 0 .. MaxHandles /\ subscribed \subseteq Subscription
      /\ old \in Seq(Handler) /\ DOMAIN old = 1 .. Len(old) /\ Len(old) \in Nat
  <2>1. nextHandleId \in 0 .. MaxHandles /\ subscribed \subseteq Subscription /\ old \in Seq(Handler)
    BY <1>1 DEF BusTypeOK
  <2> QED
    BY <2>1
<1>5. /\ list \in Seq(Handler) /\ Len(list) = Len(old) - 1
      /\ \A i \in 1 .. Len(old) - 1 : list[i] = IF i < at THEN old[i] ELSE old[i + 1]
  BY <1>2, <1>4, Removed
<1> DEFINE was(i) == IF i < at THEN i ELSE i + 1
<1> HIDE DEF list
<1>6. DOMAIN list = 1 .. Len(old) - 1
  BY <1>5
<1>7. \A i \in DOMAIN list : was(i) \in DOMAIN old /\ list[i] = old[was(i)] /\ was(i) # at
  BY <1>2, <1>4, <1>5, <1>6
<1>8. \A i, j \in DOMAIN list : i < j => was(i) < was(j)
  BY <1>2, <1>4, <1>6
<1>9. ASSUME NEW a \in DOMAIN old, a # at PROVE \E i \in DOMAIN list : list[i] = old[a]
  <2>1. CASE a < at
    <3>1. a \in DOMAIN list /\ list[a] = old[a]
      BY <1>2, <1>4, <1>5, <1>6, <2>1
    <3> QED
      BY <3>1
  <2>2. CASE a > at
    <3>1. a - 1 \in DOMAIN list /\ ~(a - 1 < at) /\ (a - 1) + 1 = a
      BY <1>2, <1>4, <1>6, <2>2
    <3>2. list[a - 1] = old[a]
      BY <1>5, <1>6, <3>1
    <3> QED
      BY <3>1, <3>2
  <2> QED
    BY <1>2, <1>4, <1>9, <2>1, <2>2
<1> HIDE DEF was, old
<1>10. Sorted(old)
  BY <1>1 DEF ListsAreSorted, old
<1>11. Sorted(list)
  BY <1>7, <1>8, <1>10 DEF Sorted
<1>12. TypeOf(e) = {AsSubscribed(old[i], e) : i \in DOMAIN old}
  BY <1>1 DEF ListsAreSubscribed, old
<1>13. \A i \in DOMAIN old : old[i].id = id => i = at
  <2> SUFFICES ASSUME NEW i \in DOMAIN old, old[i].id = id PROVE i = at
    OBVIOUS
  <2>1. AsSubscribed(old[i], e) \in subscribed /\ AsSubscribed(old[at], e) \in subscribed /\ at \in DOMAIN old
    BY <1>2, <1>12 DEF TypeOf, old
  <2>2. AsSubscribed(old[i], e) = AsSubscribed(old[at], e)
    BY <1>1, <1>2, <2>1 DEF HandlesAreNew, AsSubscribed, old
  <2>3. old[i] \in Handler /\ old[at] \in Handler /\ old[i].id = old[at].id /\ old[i].priority = old[at].priority
    BY <1>4, <2>1, <2>2 DEF AsSubscribed
  <2>4. old[i] = old[at]
    BY <2>3 DEF Handler
  <2> QED
    BY <1>4, <1>10, <2>1, <2>4, SortedIsDistinct
<1>14. TypeOf(e)' = {AsSubscribed(list[i], e) : i \in DOMAIN list}
  <2>1. \A s : s \in TypeOf(e)' <=> s \in TypeOf(e) /\ s.id # id
    BY <1>3 DEF TypeOf
  <2>2. \A s : s \in TypeOf(e)' <=> \E a \in DOMAIN old : a # at /\ s = AsSubscribed(old[a], e)
    BY <1>2, <1>12, <1>13, <2>1 DEF AsSubscribed, old
  <2> QED
    BY <1>7, <1>9, <2>2
<1>15. \A d \in EventTypes \ {e} : TypeOf(d)' = TypeOf(d)
  <2>1. AsSubscribed(old[at], e) \in subscribed /\ AsSubscribed(old[at], e).id = id /\ AsSubscribed(old[at], e).type = e
    BY <1>2, <1>12 DEF TypeOf, AsSubscribed, old
  <2>2. \A s \in subscribed : s.id = id => s.type = e
    BY <1>1, <2>1 DEF HandlesAreNew
  <2> QED
    BY <1>3, <2>2 DEF TypeOf
<1>16. HandlesAreNew'
  BY <1>1, <1>3 DEF HandlesAreNew
<1> QED
  BY <1>2, <1>3, <1>4, <1>5, <1>11, <1>14, <1>15, <1>16, ListChanges DEF list, old

LEMMA PublishKeeps ==
  ASSUME BusInv, NEW e \in EventTypes, Publish(e)
  PROVE  BusInv'
<1> DEFINE f == [type |-> e, called |-> <<>>, due |-> TypeOf(e)]
<1>1. BusTypeOK /\ HandlesAreNew /\ ListsAreSorted /\ ListsAreSubscribed /\ FramesWalk
  BY DEF BusInv
<1>2. /\ ~undefined /\ Len(frames) < MaxDepth /\ frames' = Append(frames, f)
      /\ UNCHANGED <<handlers, nextHandleId, undefined, subscribed>>
  BY DEF Publish, MayCall, TypeOf
<1>3. f \in Publication
  BY <1>1 DEF Publication, BusTypeOK, TypeOf
<1>4. Walks(f)
  <2>1. f.due = TypeOf(e) /\ f.called = <<>> /\ f.type = e /\ Len(f.called) = 0 /\ DOMAIN f.called = {}
    OBVIOUS
  <2>2. handlers[e] \in Seq(Handler)
    BY <1>1 DEF BusTypeOK
  <2> HIDE DEF f
  <2> QED
    BY <2>1, <2>2 DEF Walks
<1> HIDE DEF f
<1>5. frames \in Seq(Publication) /\ Len(frames) \in Nat /\ MaxDepth \in Nat
  BY <1>1, EventBusAssumption DEF BusTypeOK
<1>6. /\ frames' \in Seq(Publication) /\ Len(frames') = Len(frames) + 1
      /\ \A i \in DOMAIN frames' : frames'[i] = f \/ (i \in DOMAIN frames /\ frames'[i] = frames[i])
  BY <1>2, <1>3, <1>5
<1>7. Len(frames') <= MaxDepth
  BY ONLY <1>2, <1>5, <1>6
<1>8. BusTypeOK'
  BY <1>1, <1>2, <1>6, <1>7 DEF BusTypeOK
<1>9. \A i \in DOMAIN frames' : Walks(frames'[i])
  BY <1>1, <1>2, <1>4, <1>6 DEF FramesWalk
<1>10. FramesWalk'
  BY <1>2, <1>9 DEF FramesWalk, Walks, TypeOf
<1> QED
  BY <1>1, <1>2, <1>8, <1>10 DEF BusInv, HandlesAreNew, ListsAreSorted, ListsAreSubscribed, TypeOf

LEMMA InvokeKeeps ==
  ASSUME BusInv, Invoke
  PROVE  BusInv'
<1> DEFINE top == Len(frames)
           f == frames[top]
           at == Len(f.called) + 1
           g == [f EXCEPT !.called = Append(@, handlers[f.type][at].id)]
<1>1. BusTypeOK /\ HandlesAreNew /\ ListsAreSorted /\ ListsAreSubscribed /\ FramesWalk
  BY DEF BusInv
<1>2. /\ ~undefined /\ frames # <<>> /\ at <= Len(handlers[f.type])
      /\ frames' = [frames EXCEPT ![top] = g]
      /\ UNCHANGED <<handlers, nextHandleId, undefined, subscribed>>
  BY DEF Invoke, Last
<1>3. frames \in Seq(Publication) /\ top \in DOMAIN frames /\ f \in Publication
  BY <1>1, <1>2 DEF BusTypeOK
<1>4. /\ f.type \in EventTypes /\ f.called \in Seq(1 .. MaxHandles) /\ f.due \subseteq Subscription
      /\ handlers[f.type] \in Seq(Handler) /\ Walks(f)
  BY <1>1, <1>2, <1>3 DEF BusTypeOK, Publication, FramesWalk
<1> DEFINE longer == Append(f.called, handlers[f.type][at].id)
<1> HIDE DEF top
<1>5. at \in DOMAIN handlers[f.type] /\ handlers[f.type][at].id \in 1 .. MaxHandles
  <2>1. Len(f.called) \in Nat /\ Len(handlers[f.type]) \in Nat
    BY <1>4
  <2>2. at \in DOMAIN handlers[f.type]
    BY <1>2, <1>4, <2>1
  <2>3. handlers[f.type][at] \in Handler
    BY <1>4, <2>2
  <2> QED
    BY <2>2, <2>3, HandlerIsNumbers
<1>6. /\ longer \in Seq(1 .. MaxHandles) /\ Len(longer) = at
      /\ \A n \in DOMAIN longer : longer[n] = handlers[f.type][n].id
  <2>1. \A n \in DOMAIN f.called : f.called[n] = handlers[f.type][n].id
    BY <1>4 DEF Walks
  <2> QED
    BY <1>4, <1>5, <2>1
<1>7. g.type = f.type /\ g.called = longer /\ g.due = f.due /\ g \in Publication
  BY <1>3, <1>4, <1>6 DEF Publication
<1> HIDE DEF g, longer
<1>8. Walks(g)
  BY <1>2, <1>4, <1>6, <1>7 DEF Walks
<1> HIDE DEF at, f
<1>9. /\ frames' \in Seq(Publication) /\ Len(frames') = Len(frames) /\ DOMAIN frames' = DOMAIN frames
      /\ \A i \in DOMAIN frames : frames'[i] = IF i = top THEN g ELSE frames[i]
  BY <1>2, <1>3, <1>7
<1>10. BusTypeOK'
  BY <1>1, <1>2, <1>9 DEF BusTypeOK
<1>11. \A i \in DOMAIN frames' : Walks(frames'[i])
  BY <1>1, <1>2, <1>8, <1>9 DEF FramesWalk
<1>12. FramesWalk'
  BY <1>2, <1>11 DEF FramesWalk, Walks, TypeOf
<1> QED
  BY <1>1, <1>2, <1>10, <1>12 DEF BusInv, HandlesAreNew, ListsAreSorted, ListsAreSubscribed, TypeOf

LEMMA PublishedKeeps ==
  ASSUME BusInv, Published
  PROVE  BusInv'
<1>1. BusTypeOK /\ HandlesAreNew /\ ListsAreSorted /\ ListsAreSubscribed /\ FramesWalk
  BY DEF BusInv
<1>2. /\ ~undefined /\ frames # <<>> /\ frames' = Front(frames)
      /\ UNCHANGED <<handlers, nextHandleId, undefined, subscribed>>
  BY DEF Published
<1>3. frames \in Seq(Publication) /\ Len(frames) \in Nat /\ Len(frames) <= MaxDepth /\ MaxDepth \in Nat
  BY <1>1, EventBusAssumption DEF BusTypeOK
<1>4. /\ frames' \in Seq(Publication) /\ Len(frames') = Len(frames) - 1
      /\ \A i \in DOMAIN frames' : i \in DOMAIN frames /\ frames'[i] = frames[i]
  <2> DEFINE n == Len(frames) - 1
  <2>1. frames' = SubSeq(frames, 1, n) /\ n \in Nat /\ n <= Len(frames)
    BY <1>2, <1>3 DEF Front
  <2> HIDE DEF n
  <2>2. /\ SubSeq(frames, 1, n) \in Seq(Publication) /\ Len(SubSeq(frames, 1, n)) = n
        /\ \A i \in 1 .. n : SubSeq(frames, 1, n)[i] = frames[i]
    BY <1>3, <2>1
  <2>3. DOMAIN frames' = 1 .. n /\ DOMAIN frames = 1 .. Len(frames)
    BY <1>3, <2>1, <2>2
  <2>4. Len(frames') = Len(frames) - 1
    BY <2>1, <2>2 DEF n
  <2>5. \A i \in 1 .. n : i \in 1 .. Len(frames)
    BY ONLY <1>3, <2>1
  <2>6. \A i \in DOMAIN frames' : i \in DOMAIN frames /\ frames'[i] = frames[i]
    BY ONLY <2>1, <2>2, <2>3, <2>5
  <2> QED
    BY ONLY <2>1, <2>2, <2>4, <2>6
<1>5. Len(frames') <= MaxDepth
  BY ONLY <1>3, <1>4
<1>6. BusTypeOK'
  BY <1>1, <1>2, <1>4, <1>5 DEF BusTypeOK
<1>7. \A i \in DOMAIN frames' : Walks(frames'[i])
  BY <1>1, <1>2, <1>4 DEF FramesWalk
<1>8. FramesWalk'
  BY <1>2, <1>7 DEF FramesWalk, Walks, TypeOf
<1> QED
  BY <1>1, <1>2, <1>6, <1>8 DEF BusInv, HandlesAreNew, ListsAreSorted, ListsAreSubscribed, TypeOf

LEMMA BusClearAllKeeps ==
  ASSUME BusInv, BusClearAll
  PROVE  BusInv'
<1>1. BusTypeOK
  BY DEF BusInv
<1>2. /\ \A e \in EventTypes : handlers'[e] = <<>>
      /\ subscribed' = {} /\ UNCHANGED <<nextHandleId, frames>>
  BY DEF BusClearAll
<1>3. handlers' \in [EventTypes -> Seq(Handler)]
  BY DEF BusClearAll
<1>4. undefined' = (frames # <<>>)
  BY DEF BusClearAll
<1>5. BusTypeOK'
  BY <1>1, <1>2, <1>3, <1>4 DEF BusTypeOK
<1>6. ListsAreSubscribed' /\ ListsAreSorted' /\ HandlesAreNew'
  <2>1. \A e \in EventTypes : DOMAIN handlers'[e] = {}
    BY <1>2
  <2>2. \A e \in EventTypes : TypeOf(e)' = {}
    BY <1>2 DEF TypeOf
  <2> QED
    BY <1>2, <2>1, <2>2 DEF ListsAreSubscribed, ListsAreSorted, HandlesAreNew, Sorted
<1>7. FramesWalk'
  <2>1. ~undefined' => frames' = <<>>
    BY <1>2, <1>4, Zenon
  <2>2. frames' = <<>> => DOMAIN frames' = {}
    OBVIOUS
  <2> QED
    BY <2>1, <2>2 DEF FramesWalk
<1> QED
  BY <1>5, <1>6, <1>7 DEF BusInv

LEMMA BusAlways == BusSpec => []BusInv
<1>1. BusInv /\ [BusNext]_busVars => BusInv'
  <2> SUFFICES ASSUME BusInv, [BusNext]_busVars PROVE BusInv'
    OBVIOUS
  <2>1. ASSUME NEW e \in EventTypes, NEW p \in Priorities, Subscribe(e, p) PROVE BusInv'
    BY <2>1, SubscribeKeeps
  <2>2. ASSUME NEW e \in EventTypes, NEW id \in 1 .. MaxHandles, Unsubscribe(e, id) PROVE BusInv'
    BY <2>2, UnsubscribeKeeps
  <2>3. ASSUME NEW e \in EventTypes, Publish(e) PROVE BusInv'
    BY <2>3, PublishKeeps
  <2>4. CASE Invoke
    BY <2>4, InvokeKeeps
  <2>5. CASE Published
    BY <2>5, PublishedKeeps
  <2>6. CASE BusClearAll
    BY <2>6, BusClearAllKeeps
  <2>7. CASE UNCHANGED busVars
    <3>1. UNCHANGED <<handlers, nextHandleId, frames, undefined, subscribed>>
      BY <2>7 DEF busVars
    <3> QED
      BY <3>1 DEF BusInv, BusTypeOK, HandlesAreNew, ListsAreSorted, ListsAreSubscribed, FramesWalk, Walks, TypeOf
  <2> QED
    BY <2>1, <2>2, <2>3, <2>4, <2>5, <2>6, <2>7 DEF BusNext
<1> QED
  BY <1>1, BusStarts, PTL DEF BusSpec

\* Type correctness of the event bus.
THEOREM BusTypeCorrect == BusSpec => []BusTypeOK
BY BusAlways, PTL DEF BusInv

\* What has been called of a publication.
LEMMA CalledInOrder ==
  ASSUME BusInv, ~undefined, NEW i \in DOMAIN frames
  PROVE  LET f == frames[i]
             done == {s \in f.due : \E n \in DOMAIN f.called : f.called[n] = s.id}
         IN  /\ Len(f.called) <= Cardinality(done)
             /\ Len(f.called) = Len(handlers[f.type]) => done = f.due
             /\ \A s \in done, r \in f.due : Before(r, s) => r \in done
             /\ \A s, r \in done : Before(r, s) =>
                  \E n, m \in DOMAIN f.called : n < m /\ f.called[n] = r.id /\ f.called[m] = s.id
<1> DEFINE f == frames[i]
           e == f.type
           list == handlers[e]
           N == Len(f.called)
           At(n) == AsSubscribed(list[n], e)
           done == {s \in f.due : \E n \in DOMAIN f.called : f.called[n] = s.id}
<1>1. BusTypeOK /\ HandlesAreNew /\ ListsAreSorted /\ ListsAreSubscribed /\ Walks(f)
  BY DEF BusInv, FramesWalk
<1>2. f \in Publication
  BY <1>1 DEF BusTypeOK
<1>3. e \in EventTypes /\ f.called \in Seq(1 .. MaxHandles) /\ N \in Nat /\ DOMAIN f.called = 1 .. N
  <2>1. e \in EventTypes /\ f.called \in Seq(1 .. MaxHandles)
    BY <1>2 DEF Publication
  <2> QED
    BY <2>1
<1>4. list \in Seq(Handler) /\ DOMAIN list = 1 .. Len(list) /\ Len(list) \in Nat
  BY <1>1, <1>3 DEF BusTypeOK
<1>5. f.due = TypeOf(e) /\ N <= Len(list) /\ \A n \in 1 .. N : f.called[n] = list[n].id
  BY <1>1, <1>3 DEF Walks
<1>6. f.due = {At(n) : n \in DOMAIN list}
  BY <1>1, <1>3, <1>5 DEF ListsAreSubscribed
<1>7. \A n \in DOMAIN list : /\ list[n].id \in Int /\ list[n].priority \in Int
                             /\ At(n).id = list[n].id /\ At(n).priority = list[n].priority
  <2> SUFFICES ASSUME NEW n \in DOMAIN list
               PROVE  /\ list[n].id \in Int /\ list[n].priority \in Int
                      /\ At(n).id = list[n].id /\ At(n).priority = list[n].priority
    OBVIOUS
  <2>1. list[n] \in Handler
    BY <1>4
  <2> QED
    BY <2>1, HandlerIsNumbers DEF AsSubscribed
<1> HIDE DEF f, e, list, At
<1>8. \A n, m \in DOMAIN list : n < m => Before(At(n), At(m))
  <2>1. \A n, m \in DOMAIN list : n < m => Before(list[n], list[m])
    BY <1>1, <1>3 DEF ListsAreSorted, Sorted, list
  <2> QED
    BY <1>7, <2>1 DEF Before
<1>9. \A n, m \in DOMAIN list : Before(At(n), At(m)) => n < m
  <2> SUFFICES ASSUME NEW n \in DOMAIN list, NEW m \in DOMAIN list, Before(At(n), At(m)), ~(n < m)
               PROVE  FALSE
    OBVIOUS
  <2>1. n = m \/ Before(At(m), At(n))
    BY <1>4, <1>8
  <2> QED
    BY <1>7, <2>1 DEF Before
<1>10. \A n, m \in DOMAIN list : list[n].id = list[m].id => n = m
  <2> SUFFICES ASSUME NEW n \in DOMAIN list, NEW m \in DOMAIN list, list[n].id = list[m].id PROVE n = m
    OBVIOUS
  <2>1. At(n) \in subscribed /\ At(m) \in subscribed /\ At(n).id = At(m).id
    BY <1>5, <1>6, <1>7 DEF TypeOf
  <2>2. At(n) = At(m)
    BY <1>1, <2>1 DEF HandlesAreNew
  <2>3. ~(n < m) /\ ~(m < n)
    BY <1>7, <1>8, <2>2 DEF Before
  <2> QED
    BY <1>4, <2>3
<1>11. done = {At(n) : n \in 1 .. N}
  <2>1. ASSUME NEW n \in DOMAIN list PROVE At(n) \in done <=> n <= N
    <3>1. CASE n <= N
      <4>1. n \in DOMAIN f.called /\ f.called[n] = At(n).id /\ At(n) \in f.due
        BY <1>3, <1>4, <1>5, <1>6, <1>7, <3>1
      <4> QED
        BY <3>1, <4>1
    <3>2. CASE ~(n <= N)
      <4>1. ASSUME NEW m \in DOMAIN f.called, f.called[m] = At(n).id PROVE FALSE
        <5>1. m \in 1 .. N /\ m \in DOMAIN list /\ list[m].id = list[n].id
          BY <1>3, <1>4, <1>5, <1>7, <4>1
        <5>2. m = n
          BY <1>10, <5>1
        <5> QED
          BY <3>2, <5>1, <5>2
      <4> QED
        BY <3>2, <4>1
    <3> QED
      BY <3>1, <3>2
  <2>2. 1 .. N \subseteq DOMAIN list /\ \A n \in DOMAIN list : n <= N <=> n \in 1 .. N
    BY <1>3, <1>4, <1>5
  <2>3. done \subseteq {At(n) : n \in DOMAIN list}
    BY <1>6
  <2> HIDE DEF done
  <2> QED
    BY <2>1, <2>2, <2>3
<1> HIDE DEF done
<1>12. N <= Cardinality(done)
  <2> DEFINE b == [n \in 1 .. N |-> At(n)]
  <2>1. ASSUME NEW n \in 1 .. N, NEW m \in 1 .. N, At(n) = At(m) PROVE n = m
    <3>1. n \in DOMAIN list /\ m \in DOMAIN list
      BY <1>3, <1>4, <1>5
    <3>2. list[n].id = list[m].id
      BY <2>1, <3>1, <1>7
    <3> QED
      BY <3>1, <3>2, <1>10
  <2>2. b \in Bijection(1 .. N, done)
    BY <1>11, <2>1 DEF Bijection, Injection, Surjection, IsInjective
  <2>3. ExistsBijection(1 .. N, done)
    BY <2>2 DEF ExistsBijection
  <2>4. Cardinality(done) = N
    BY <1>3, <2>3, FS_CountingElements
  <2> QED
    BY <1>3, <2>4
<1>13. N = Len(list) => done = f.due
  BY <1>4, <1>6, <1>11
<1>14. ASSUME NEW s \in done, NEW r \in f.due, Before(r, s)
       PROVE  r \in done /\ \E n, m \in DOMAIN f.called : n < m /\ f.called[n] = r.id /\ f.called[m] = s.id
  <2>1. PICK m \in 1 .. N : s = At(m)
    BY <1>11
  <2>2. PICK n \in DOMAIN list : r = At(n)
    BY <1>6
  <2>3. m \in DOMAIN list /\ n < m
    BY <1>3, <1>4, <1>5, <1>9, <1>14, <2>1, <2>2
  <2>4. n \in 1 .. N
    BY <1>3, <1>4, <2>1, <2>3
  <2>5. r \in done
    BY <1>11, <2>2, <2>4
  <2>6. f.called[n] = r.id /\ f.called[m] = s.id
    BY <1>5, <1>7, <2>1, <2>2, <2>3, <2>4
  <2> QED
    BY <1>3, <2>1, <2>3, <2>4, <2>5, <2>6
<1>15. done \subseteq f.due
  BY <1>4, <1>5, <1>6, <1>11
<1> QED
  BY <1>12, <1>13, <1>14, <1>15 DEF done, f, e, list

\* An event reaches everyone who was subscribed when it was published, each once, the more
\* important and then the older ones first, unless a callback changes the very list that
\* the bus is walking through.
THEOREM BusDeliversByPriority == BusSpec => []DeliveredByPriority
<1>1. BusInv => DeliveredByPriority
  <2> SUFFICES ASSUME BusInv, ~undefined PROVE DeliveredByPriority
    BY DEF DeliveredByPriority
  <2> QED
    BY CalledInOrder DEF DeliveredByPriority
<1> QED
  BY <1>1, BusAlways, PTL

-----------------------------------------------------------------------------
(* The rate limiter: how many of its times lie in an interval. *)

\* How many of the times s lie in (a, b].
Among(s, a, b) == Cardinality({i \in DOMAIN s : a < s[i] /\ s[i] <= b})

\* Whatever is counted is finite.
LEMMA AmongIsFinite ==
  ASSUME NEW s \in Seq(Nat), NEW a, NEW b
  PROVE  /\ IsFiniteSet({i \in DOMAIN s : a < s[i] /\ s[i] <= b})
         /\ Among(s, a, b) \in Nat
<1> DEFINE T == {i \in DOMAIN s : a < s[i] /\ s[i] <= b}
<1>1. DOMAIN s = 1 .. Len(s) /\ Len(s) \in Int /\ 1 \in Int
  OBVIOUS
<1>2. T \in SUBSET (1 .. Len(s))
  BY <1>1
<1>3. IsFiniteSet(1 .. Len(s))
  BY <1>1, FS_Interval
<1> HIDE DEF T
<1>4. IsFiniteSet(T)
  BY <1>2, <1>3, FS_Subset
<1>5. Cardinality(T) \in Nat
  BY <1>4, FS_CardinalityType
<1> QED
  BY <1>4, <1>5 DEF T, Among

\* An interval holds no more than one that has everything of it.
LEMMA AmongMore ==
  ASSUME NEW s \in Seq(Nat), NEW a, NEW b, NEW c, NEW d,
         \A i \in DOMAIN s : a < s[i] /\ s[i] <= b => c < s[i] /\ s[i] <= d
  PROVE  Among(s, a, b) <= Among(s, c, d)
<1> DEFINE T == {i \in DOMAIN s : a < s[i] /\ s[i] <= b}
           U == {i \in DOMAIN s : c < s[i] /\ s[i] <= d}
<1>1. T \in SUBSET U
  OBVIOUS
<1>2. IsFiniteSet(U)
  BY AmongIsFinite
<1> HIDE DEF T, U
<1>3. Cardinality(T) <= Cardinality(U)
  BY <1>1, <1>2, FS_Subset
<1> QED
  BY <1>3 DEF T, U, Among

\* None is counted where there is none.
LEMMA AmongNone ==
  ASSUME NEW s \in Seq(Nat), NEW a, NEW b, \A i \in DOMAIN s : ~(a < s[i] /\ s[i] <= b)
  PROVE  Among(s, a, b) = 0
<1>1. {i \in DOMAIN s : a < s[i] /\ s[i] <= b} = {}
  OBVIOUS
<1> QED
  BY <1>1, FS_EmptySet DEF Among

\* What lies in an interval lies in one of its parts.
LEMMA AmongParts ==
  ASSUME NEW s \in Seq(Nat), NEW a \in Int, NEW m \in Int, NEW b \in Int
  PROVE  Among(s, a, b) <= Among(s, a, m) + Among(s, m, b)
<1> DEFINE T == {i \in DOMAIN s : a < s[i] /\ s[i] <= b}
           U == {i \in DOMAIN s : a < s[i] /\ s[i] <= m}
           V == {i \in DOMAIN s : m < s[i] /\ s[i] <= b}
<1>1. \A i \in DOMAIN s : s[i] \in Int
  OBVIOUS
<1>2. T \in SUBSET (U \cup V)
  BY <1>1
<1>3. IsFiniteSet(U) /\ IsFiniteSet(V) /\ Cardinality(U) \in Nat /\ Cardinality(V) \in Nat
  BY AmongIsFinite DEF Among
<1>4. IsFiniteSet(U \cap V) /\ U \cap V \in SUBSET U
  BY <1>3, FS_Subset
<1> HIDE DEF T, U, V
<1>5. IsFiniteSet(T) /\ Cardinality(T) <= Cardinality(U \cup V)
  BY <1>2, <1>3, FS_Union, FS_Subset
<1>6. Cardinality(U \cup V) = Cardinality(U) + Cardinality(V) - Cardinality(U \cap V)
  BY <1>3, FS_Union
<1>7. Cardinality(U \cap V) \in Nat /\ Cardinality(T) \in Nat
  BY <1>4, <1>5, FS_CardinalityType
<1>8. Cardinality(T) <= Cardinality(U) + Cardinality(V)
  BY <1>3, <1>5, <1>6, <1>7
<1> QED
  BY <1>8 DEF T, U, V, Among

\* One time more.
LEMMA AmongOneMore ==
  ASSUME NEW s \in Seq(Nat), NEW a, NEW b, NEW e \in Nat
  PROVE  Among(Append(s, e), a, b) = Among(s, a, b) + (IF a < e /\ e <= b THEN 1 ELSE 0)
<1> DEFINE T == {i \in DOMAIN s : a < s[i] /\ s[i] <= b}
           more == Append(s, e)
           U == {i \in DOMAIN more : a < more[i] /\ more[i] <= b}
           n == Len(s) + 1
<1>1. /\ DOMAIN more = DOMAIN s \cup {n} /\ n \notin DOMAIN s
      /\ more[n] = e /\ \A i \in DOMAIN s : more[i] = s[i]
  OBVIOUS
<1>2. IsFiniteSet(T) /\ Cardinality(T) \in Nat
  BY AmongIsFinite DEF Among
<1> HIDE DEF more, n
<1>3. CASE a < e /\ e <= b
  <2>1. U = T \cup {n} /\ n \notin T
    BY <1>1, <1>3
  <2> HIDE DEF T, U
  <2>2. Cardinality(U) = Cardinality(T) + 1
    BY <2>1, <1>2, FS_AddElement
  <2> QED
    BY <2>2, <1>3 DEF T, U, Among, more
<1>4. CASE ~(a < e /\ e <= b)
  <2>1. U = T
    BY <1>1, <1>4
  <2> HIDE DEF T, U
  <2>2. Cardinality(U) = Cardinality(T) + 0
    BY <2>1, <1>2
  <2> QED
    BY <2>2, <1>4 DEF T, U, Among, more
<1> QED
  BY <1>3, <1>4

\* All of a sequence is in an interval that holds every element.
LEMMA AmongAll ==
  ASSUME NEW s \in Seq(Nat), NEW a, NEW b
  PROVE  Among(s, a, b) <= Len(s)
<1> DEFINE T == {i \in DOMAIN s : a < s[i] /\ s[i] <= b}
<1>1. DOMAIN s = 1 .. Len(s) /\ Len(s) \in Nat /\ Len(s) \in Int /\ 1 \in Int
  OBVIOUS
<1>2. T \in SUBSET (1 .. Len(s))
  BY <1>1
<1>3. IsFiniteSet(1 .. Len(s)) /\ Cardinality(1 .. Len(s)) = IF 1 > Len(s) THEN 0 ELSE Len(s) - 1 + 1
  BY <1>1, FS_Interval
<1> HIDE DEF T
<1>4. Cardinality(T) <= Cardinality(1 .. Len(s))
  BY <1>2, <1>3, FS_Subset
<1>5. Cardinality(T) <= Len(s)
  BY <1>1, <1>3, <1>4
<1> QED
  BY <1>5 DEF T, Among

\* An end of the list that has all of an interval.
LEMMA AmongEnd ==
  ASSUME NEW s \in Seq(Nat), NEW a, NEW b, NEW f \in 1 .. Len(s) + 1,
         \A i \in DOMAIN s : a < s[i] /\ s[i] <= b => f <= i
  PROVE  Among(s, a, b) <= Among(SubSeq(s, f, Len(s)), a, b)
<1> DEFINE end == SubSeq(s, f, Len(s))
           T == {i \in DOMAIN s : a < s[i] /\ s[i] <= b}
           U == {i \in DOMAIN end : a < end[i] /\ end[i] <= b}
           to == [i \in T |-> i - f + 1]
<1>1. /\ end \in Seq(Nat) /\ Len(s) \in Nat /\ Len(end) = Len(s) - f + 1
      /\ \A i \in 1 .. Len(s) - f + 1 : end[i] = s[f + i - 1]
  OBVIOUS
<1>2. DOMAIN s = 1 .. Len(s) /\ DOMAIN end = 1 .. Len(s) - f + 1
  BY <1>1
<1> HIDE DEF end
<1>3. IsFiniteSet(U)
  BY <1>1, AmongIsFinite
<1>4. ASSUME NEW i \in T PROVE i - f + 1 \in U
  <2>1. i \in DOMAIN s /\ i \in Nat /\ f <= i /\ a < s[i] /\ s[i] <= b
    BY <1>2
  <2>2. i - f + 1 \in 1 .. Len(s) - f + 1 /\ f + (i - f + 1) - 1 = i
    BY <2>1, <1>1, <1>2
  <2>3. end[i - f + 1] = s[i]
    BY <2>2, <1>1
  <2> QED
    BY <2>1, <2>2, <2>3, <1>2
<1>5. \A i \in T : i \in Int
  BY <1>2
<1> HIDE DEF T, U
<1>6. to \in Injection(T, U)
  <2>1. to \in [T -> U]
    BY <1>4
  <2>2. \A i, j \in T : to[i] = to[j] => i = j
    BY <1>5
  <2> QED
    BY <2>1, <2>2 DEF Injection, IsInjective
<1>7. Cardinality(T) <= Cardinality(U)
  BY <1>3, <1>6, FS_Injection
<1> QED
  BY <1>7 DEF T, U, Among, end

\* What is left after the oldest have expired is an end that has all that is still live.
LEMMA ExpireKeeps ==
  ASSUME NEW m \in Nat, NEW ts \in Seq(1 .. m), NEW d \in Config, NEW now \in Nat
  PROVE  /\ Expire(ts, d, now) \in Seq(1 .. m)
         /\ \A x \in Int, b \in Int : x >= now - d.window =>
              Among(ts, x, b) <= Among(Expire(ts, d, now), x, b)
<1> DEFINE start == IF now >= d.window THEN now - d.window ELSE UNSET
           live == {i \in DOMAIN ts : ts[i] > start}
           first == IF live = {} THEN Len(ts) + 1 ELSE CHOOSE i \in live : \A j \in live : i <= j
<1>1. d.window \in Nat /\ start \in Nat /\ start >= now - d.window
  BY DEF Config, UNSET
<1>2. /\ ts \in Seq(Nat) /\ Len(ts) \in Nat /\ DOMAIN ts = 1 .. Len(ts)
      /\ \A i \in DOMAIN ts : ts[i] \in Nat /\ ts[i] >= 1
  OBVIOUS
<1>3. start = 0 \/ start = now - d.window
  BY DEF UNSET
<1> HIDE DEF start
<1>4. live \in SUBSET Nat /\ live \subseteq DOMAIN ts
  BY <1>2
<1>5. live # {} => first \in live /\ \A j \in live : first <= j
  BY <1>4, LeastElement
<1> HIDE DEF first
<1>6. live = {} => first = Len(ts) + 1
  BY DEF first
<1> HIDE DEF live
<1>7. first \in 1 .. Len(ts) + 1
  <2>1. live # {} => first \in DOMAIN ts
    BY <1>4, <1>5
  <2> QED
    BY <2>1, <1>2, <1>6
<1>8. Expire(ts, d, now) = SubSeq(ts, first, Len(ts))
  BY DEF Expire, first, live, start
<1>9. SubSeq(ts, first, Len(ts)) \in Seq(1 .. m)
  <2>1. \A i \in first .. Len(ts) : ts[i] \in 1 .. m
    BY <1>2, <1>7
  <2> QED
    BY <2>1, <1>2, <1>7
<1>10. ASSUME NEW x \in Int, NEW b \in Int, x >= now - d.window
       PROVE  Among(ts, x, b) <= Among(SubSeq(ts, first, Len(ts)), x, b)
  <2>1. \A i \in DOMAIN ts : x < ts[i] => ts[i] > start
    BY <1>1, <1>2, <1>3, <1>10
  <2>2. \A i \in DOMAIN ts : x < ts[i] => first <= i
    BY <2>1, <1>5 DEF live
  <2> QED
    BY <2>2, <1>2, <1>7, AmongEnd
<1> QED
  BY <1>8, <1>9, <1>10

-----------------------------------------------------------------------------
(* Products of natural numbers. *)

\* A product with a natural number: for the tokens, which are counted in refills.
LEMMA Products ==
  ASSUME NEW m \in Int, NEW n \in Int, NEW k \in Nat
  PROVE  /\ m * k \in Int /\ (m + n) * k = m * k + n * k /\ (m - n) * k = m * k - n * k
         /\ m >= 0 => m * k >= 0
         /\ m <= n => m * k <= n * k
         /\ 1 * k = k /\ 0 * k = 0
<1>1. m * k \in Int /\ (m + n) * k = m * k + n * k /\ (m - n) * k = m * k - n * k
  OBVIOUS
<1>2. m >= 0 => m * k >= 0
  OBVIOUS
<1>3. n - m >= 0 => (n - m) * k >= 0
  OBVIOUS
<1>4. (n - m) * k = n * k - m * k /\ n * k \in Int
  OBVIOUS
<1> QED
  BY <1>1, <1>2, <1>3, <1>4

\* What a strategy remembers of the calls it let through.
SlidingHeld(s, ctx, c, now) ==
    /\ Among(s, now - c.window, now) <= c.capacity
    /\ \A x \in Int : x >= now - c.window => Among(s, x, now) <= Among(ctx.sliding, x, now)

FixedHeld(s, ctx, c, now) ==
    /\ ctx.windowStart = UNSET => s = <<>>
    /\ \A i \in DOMAIN s : s[i] < ctx.windowStart + c.window
    /\ Among(s, ctx.windowStart - 1, now) <= ctx.count
    /\ Among(s, ctx.windowStart - 1, now) <= c.capacity
    /\ Among(s, ctx.windowStart - c.window - 1, ctx.windowStart - 1) <= c.capacity

BucketHeld(s, ctx, c, now) ==
    /\ \A i \in DOMAIN s : s[i] <= ctx.lastRefill
    /\ \A x \in 0 .. ctx.lastRefill - 1 :
         Among(s, x, now) * TokenUnits + ctx.tokens
           <= c.capacity * TokenUnits + (ctx.lastRefill - 1 - x) * c.refill

Held(s, ctx, c, now) ==
    CASE c.strategy = "SLIDING_WINDOW" -> SlidingHeld(s, ctx, c, now)
      [] c.strategy = "FIXED_WINDOW" -> FixedHeld(s, ctx, c, now)
      [] c.strategy = "TOKEN_BUCKET" -> BucketHeld(s, ctx, c, now)

\* What the limit says of the time until `at'.
Bound(s, c, at) ==
    CASE c.strategy = "SLIDING_WINDOW" -> Among(s, at - c.window, at) <= c.capacity
      [] c.strategy = "FIXED_WINDOW" -> Among(s, at - c.window, at) <= 2 * c.capacity
      [] c.strategy = "TOKEN_BUCKET" ->
           \A w \in 1 .. at : Among(s, at - w, at) * TokenUnits
                                <= c.capacity * TokenUnits + (w - 1) * c.refill

\* What is remembered is enough to know that the limit is kept to at present.
LEMMA BoundNow ==
  ASSUME NEW now \in Nat \ {0}, NEW s \in Seq(1 .. now), NEW ctx \in Context(now), NEW c \in Config,
         Held(s, ctx, c, now)
  PROVE  Bound(s, c, now)
<1>1. /\ s \in Seq(Nat) /\ \A i \in DOMAIN s : s[i] \in Nat /\ 1 <= s[i] /\ s[i] <= now
  OBVIOUS
<1>2. /\ c.window \in Nat /\ c.window >= 1 /\ c.capacity \in Nat /\ c.refill \in Nat
      /\ ctx.windowStart \in 0 .. now /\ ctx.lastRefill \in 0 .. now /\ ctx.tokens \in Nat
  BY DEF Context, Config
<1>3. CASE c.strategy = "SLIDING_WINDOW"
  BY <1>3 DEF Held, Bound, SlidingHeld
<1>4. CASE c.strategy = "FIXED_WINDOW"
  <2> DEFINE start == ctx.windowStart
  <2>1. FixedHeld(s, ctx, c, now)
    BY <1>4 DEF Held
  <2>2. Among(s, now - c.window, now)
          <= Among(s, now - c.window, start - 1) + Among(s, start - 1, now)
    BY <1>1, <1>2, AmongParts
  <2>3. Among(s, now - c.window, start - 1) <= Among(s, start - c.window - 1, start - 1)
    <3>1. now \in Int /\ start \in Int /\ start <= now /\ c.window \in Int
      BY <1>2
    <3>2. \A i \in DOMAIN s : now - c.window < s[i] /\ s[i] <= start - 1
                                => start - c.window - 1 < s[i] /\ s[i] <= start - 1
      BY ONLY <3>1, <1>1
    <3>3. /\ now - c.window \in Int /\ start - 1 \in Int /\ start - c.window - 1 \in Int
      BY ONLY <3>1
    <3> QED
      BY ONLY <1>1, <3>2, <3>3, AmongMore
  <2>4. /\ Among(s, start - 1, now) <= c.capacity
        /\ Among(s, start - c.window - 1, start - 1) <= c.capacity
    BY <2>1 DEF FixedHeld
  <2>5. /\ Among(s, now - c.window, now) \in Nat /\ Among(s, now - c.window, start - 1) \in Nat
        /\ Among(s, start - 1, now) \in Nat /\ Among(s, start - c.window - 1, start - 1) \in Nat
    BY <1>1, AmongIsFinite
  <2>6. Among(s, now - c.window, now) <= 2 * c.capacity
    BY ONLY <2>2, <2>3, <2>4, <2>5, <1>2
  <2> QED
    BY <2>6, <1>4 DEF Bound
<1>5. CASE c.strategy = "TOKEN_BUCKET"
  <2>1. BucketHeld(s, ctx, c, now)
    BY <1>5 DEF Held
  <2>2. ASSUME NEW w \in 1 .. now
        PROVE  Among(s, now - w, now) * TokenUnits <= c.capacity * TokenUnits + (w - 1) * c.refill
    <3> DEFINE some == Among(s, now - w, now) last == ctx.lastRefill
    <3>1. some \in Nat /\ TokenUnits \in Nat
      BY <1>1, AmongIsFinite, RateLimiterAssumption
    <3>2. /\ c.capacity * TokenUnits \in Int /\ c.capacity * TokenUnits >= 0
          /\ (w - 1) * c.refill \in Int /\ (w - 1) * c.refill >= 0
      <4>1. w - 1 \in Int /\ w - 1 >= 0 /\ c.capacity \in Int /\ c.capacity >= 0
        BY <1>2
      <4> QED
        BY ONLY <4>1, <1>2, <3>1, Products
    <3>3. CASE now - w < last
      <4>1. now - w \in 0 .. last - 1
        BY <3>3, <1>2
      <4>2. some * TokenUnits + ctx.tokens
              <= c.capacity * TokenUnits + (last - 1 - (now - w)) * c.refill
        BY <2>1, <4>1 DEF BucketHeld
      <4>3. /\ (last - 1 - (now - w)) * c.refill <= (w - 1) * c.refill
            /\ (last - 1 - (now - w)) * c.refill \in Int /\ some * TokenUnits \in Int
        <5>1. last - 1 - (now - w) \in Int /\ w - 1 \in Int /\ last - 1 - (now - w) <= w - 1
          BY <1>2
        <5>2. some \in Int
          BY <3>1
        <5> QED
          BY ONLY <5>1, <5>2, <1>2, <3>1, Products
      <4> DEFINE used == some * TokenUnits
                 full == c.capacity * TokenUnits
                 since == (last - 1 - (now - w)) * c.refill
                 gained == (w - 1) * c.refill
      <4>4. used + ctx.tokens <= full + since /\ since <= gained /\ ctx.tokens \in Nat
            /\ {used, full, since, gained} \subseteq Int
        BY <4>2, <4>3, <3>2, <1>2
      <4> HIDE DEF used, full, since, gained
      <4>5. used <= full + gained
        BY <4>4
      <4> QED
        BY <4>5 DEF used, full, gained
    <3>4. CASE ~(now - w < last)
      <4>1. \A i \in DOMAIN s : s[i] <= last
        BY <2>1 DEF BucketHeld
      <4>2. some = 0
        BY <4>1, <3>4, <1>1, <1>2, AmongNone
      <4>3. some * TokenUnits = 0
        BY <4>2, <3>1, Products
      <4> QED
        BY <4>3, <3>2
    <3> QED
      BY <3>3, <3>4
  <2> QED
    BY <2>2, <1>5 DEF Bound
<1> QED
  BY <1>3, <1>4, <1>5 DEF Config

\* A call that is let through now changes nothing before.
LEMMA BoundBefore ==
  ASSUME NEW now \in Nat \ {0}, NEW s \in Seq(1 .. now), NEW c \in Config, NEW at \in 1 .. now,
         at # now, Bound(s, c, at)
  PROVE  Bound(Append(s, now), c, at)
<1>1. s \in Seq(Nat) /\ now \in Nat /\ ~(now <= at)
  OBVIOUS
<1>2. \A a : Among(s, a, at) \in Nat
  BY <1>1, AmongIsFinite
<1>3. \A a : Among(Append(s, now), a, at) = Among(s, a, at)
  <2> TAKE a
  <2>1. Among(Append(s, now), a, at) = Among(s, a, at) + 0
    BY <1>1, AmongOneMore
  <2> QED
    BY <2>1, <1>2
<1>4. CASE c.strategy = "TOKEN_BUCKET"
  BY <1>3, <1>4, Zenon DEF Bound
<1>5. CASE c.strategy # "TOKEN_BUCKET"
  BY <1>3, <1>5 DEF Bound, Config
<1> QED
  BY <1>4, <1>5

\* A context by its fields.
LEMMA ContextIs ==
  ASSUME NEW m \in Nat, NEW ctx \in Context(m)
  PROVE  /\ ctx.sliding \in Seq(1 .. m) /\ ctx.tokens \in Nat /\ ctx.lastRefill \in 0 .. m
         /\ ctx.windowStart \in 0 .. m /\ ctx.count \in Nat
         /\ ctx.lastTrigger \in 0 .. m /\ ctx.last \in 0 .. m
BY DEF Context

\* A context with other times in its sliding window.
LEMMA SetSliding ==
  ASSUME NEW m \in Nat, NEW ctx \in Context(m), NEW ts \in Seq(1 .. m)
  PROVE  [ctx EXCEPT !.sliding = ts] \in Context(m) /\ [ctx EXCEPT !.sliding = ts].sliding = ts
BY DEF Context

\* A context with one call more in its fixed window.
LEMMA SetCount ==
  ASSUME NEW m \in Nat, NEW ctx \in Context(m)
  PROVE  LET new == [ctx EXCEPT !.count = @ + 1]
         IN  new \in Context(m) /\ new.windowStart = ctx.windowStart /\ new.count = ctx.count + 1
<1>1. ctx.count \in Nat
  BY ContextIs
<1>2. ctx.count + 1 \in Nat
  BY <1>1
<1> QED
  BY <1>2 DEF Context

\* Sliding windows.
LEMMA SlidingAcquires ==
  ASSUME NEW m \in Nat, NEW now \in 1 .. m, NEW ctx \in Context(m), NEW d \in Config
  PROVE  LET tried == TryAcquireSliding(ctx, d, now)
             asked == [ctx EXCEPT !.sliding = Expire(ctx.sliding, d, now)]
         IN  /\ tried.ctx \in Context(m) /\ tried.acquired \in BOOLEAN /\ asked \in Context(m)
             /\ \A s \in Seq(1 .. now), c \in Config :
                  SlidingHeld(s, ctx, c, now) /\ now = m /\ c.window <= d.window =>
                    /\ SlidingHeld(s, asked, c, now)
                    /\ SlidingHeld(s, tried.ctx, c, now)
                    /\ tried.acquired /\ d = c => SlidingHeld(Append(s, now), tried.ctx, c, now)
<1> DEFINE ts == Expire(ctx.sliding, d, now)
           free == Len(ts) < d.capacity
           tried == TryAcquireSliding(ctx, d, now)
           next == IF free THEN Append(ts, now) ELSE ts
<1>1. /\ ctx.sliding \in Seq(1 .. m)
      /\ \A new \in Seq(1 .. m) : /\ [ctx EXCEPT !.sliding = new] \in Context(m)
                                  /\ [ctx EXCEPT !.sliding = new].sliding = new
  BY ContextIs, SetSliding
<1>2. /\ ts \in Seq(1 .. m)
      /\ \A x \in Int, b \in Int : x >= now - d.window => Among(ctx.sliding, x, b) <= Among(ts, x, b)
  BY <1>1, ExpireKeeps
<1>3. tried.acquired = free /\ tried.ctx = [ctx EXCEPT !.sliding = next]
  BY DEF TryAcquireSliding
<1> HIDE DEF ts, tried
<1>4. next \in Seq(1 .. m) /\ ts \in Seq(Nat) /\ next \in Seq(Nat) /\ Len(ts) \in Nat
  <2>1. Append(ts, now) \in Seq(1 .. m) /\ Append(ts, now) \in Seq(Nat)
    BY <1>2
  <2>2. ts \in Seq(1 .. m) /\ ts \in Seq(Nat) /\ Len(ts) \in Nat
    BY <1>2
  <2> HIDE DEF free
  <2> QED
    BY ONLY <2>1, <2>2
<1>5. [ctx EXCEPT !.sliding = ts] \in Context(m) /\ [ctx EXCEPT !.sliding = ts].sliding = ts
  BY <1>1, <1>2
<1>6. tried.ctx \in Context(m) /\ tried.ctx.sliding = next /\ tried.acquired \in BOOLEAN
  <2> HIDE DEF next
  <2>1. tried.acquired \in BOOLEAN
    BY <1>3
  <2> QED
    BY <2>1, <1>1, <1>3, <1>4
<1>7. ASSUME NEW s \in Seq(1 .. now), NEW c \in Config, SlidingHeld(s, ctx, c, now), now = m,
             c.window <= d.window
      PROVE  /\ SlidingHeld(s, [ctx EXCEPT !.sliding = ts], c, now)
             /\ SlidingHeld(s, tried.ctx, c, now)
             /\ tried.acquired /\ d = c => SlidingHeld(Append(s, now), tried.ctx, c, now)
  <2>1. c.window \in Nat /\ d.window \in Nat /\ c.capacity \in Nat /\ now \in Int /\ c.window >= 1
    BY DEF Config
  <2>2. ctx.sliding \in Seq(Nat) /\ s \in Seq(Nat) /\ Append(s, now) \in Seq(Nat) /\ now \in Nat
    BY <1>1
  <2>3. ASSUME NEW x \in Int, x >= now - c.window
        PROVE  Among(s, x, now) <= Among(ts, x, now)
    <3>1. Among(s, x, now) <= Among(ctx.sliding, x, now)
      BY <1>7, <2>3 DEF SlidingHeld
    <3>2. Among(ctx.sliding, x, now) <= Among(ts, x, now)
      BY <1>2, <2>1, <2>3, <1>7
    <3>3. {Among(s, x, now), Among(ctx.sliding, x, now), Among(ts, x, now)} \subseteq Nat
      BY <2>2, <1>4, AmongIsFinite
    <3> QED
      BY <3>1, <3>2, <3>3
  <2>4. ASSUME NEW x \in Int, free
        PROVE  Among(Append(ts, now), x, now) = Among(ts, x, now) + (IF x < now THEN 1 ELSE 0)
    BY <1>4, <2>2, AmongOneMore
  <2>5. ASSUME NEW x \in Int
        PROVE  Among(ts, x, now) <= Among(next, x, now)
    <3>1. Among(ts, x, now) \in Nat
      BY <1>4, AmongIsFinite
    <3> QED
      BY <3>1, <2>4
  <2>6. \A x \in Int : x >= now - c.window => Among(s, x, now) <= Among(next, x, now)
    <3> SUFFICES ASSUME NEW x \in Int, x >= now - c.window
                 PROVE  Among(s, x, now) <= Among(next, x, now)
      OBVIOUS
    <3>1. {Among(s, x, now), Among(next, x, now), Among(ts, x, now)} \subseteq Nat
      BY <2>2, <1>4, AmongIsFinite
    <3> QED
      BY <3>1, <2>3, <2>5
  <2>7. Among(s, now - c.window, now) <= c.capacity
    BY <1>7 DEF SlidingHeld
  <2>8. ASSUME free, d = c
        PROVE  SlidingHeld(Append(s, now), tried.ctx, c, now)
    <3>1. ASSUME NEW x \in Int
          PROVE  /\ Among(Append(s, now), x, now) = Among(s, x, now) + (IF x < now THEN 1 ELSE 0)
                 /\ Among(s, x, now) \in Nat /\ Among(ts, x, now) \in Nat
      <4>1. now <= now
        BY <2>1
      <4> QED
        BY <4>1, <1>4, <2>2, AmongOneMore, AmongIsFinite
    <3>2. \A x \in Int : x >= now - c.window =>
             Among(Append(s, now), x, now) <= Among(next, x, now)
      <4> TAKE x \in Int
      <4> HAVE x >= now - c.window
      <4>1. Among(s, x, now) <= Among(ts, x, now)
        BY <2>3
      <4>2. next = Append(ts, now)
        BY <2>8
      <4>3. Among(next, x, now) = Among(ts, x, now) + (IF x < now THEN 1 ELSE 0)
        BY <2>4, <2>8, <4>2
      <4> DEFINE n == Among(s, x, now)
                 k == Among(ts, x, now)
                 one == IF x < now THEN 1 ELSE 0
      <4>4. n \in Nat /\ k \in Nat /\ n <= k /\ one \in Nat
        BY <4>1, <3>1
      <4>5. Among(Append(s, now), x, now) = n + one /\ Among(next, x, now) = k + one
        BY <4>3, <3>1
      <4> HIDE DEF n, k, one
      <4> QED
        BY ONLY <4>4, <4>5
    <3>3. now - c.window \in Int /\ now - c.window < now /\ now - c.window >= now - c.window
      BY <2>1
    <3>4. Among(ts, now - c.window, now) <= Len(ts)
      BY <1>4, AmongAll
    <3>5. Len(ts) < c.capacity
      BY <2>8
    <3>6. Among(s, now - c.window, now) <= Among(ts, now - c.window, now)
      BY <2>3, <3>3
    <3>7. Among(Append(s, now), now - c.window, now) = Among(s, now - c.window, now) + 1
      BY <3>1, <3>3
    <3>8. Among(Append(s, now), now - c.window, now) <= c.capacity
      <4> DEFINE n == Among(s, now - c.window, now)
                 k == Among(ts, now - c.window, now)
      <4>1. n \in Nat /\ k \in Nat /\ n <= k /\ k <= Len(ts)
        BY <3>1, <3>3, <3>4, <3>6
      <4> HIDE DEF n, k
      <4>2. n + 1 <= c.capacity
        BY <4>1, <3>5, <1>4, <2>1
      <4> QED
        BY <4>2, <3>7 DEF n
    <3> QED
      BY <3>2, <3>8, <1>6 DEF SlidingHeld
  <2> QED
    BY <2>3, <2>6, <2>7, <2>8, <1>3, <1>5, <1>6 DEF SlidingHeld
<1> QED
  BY <1>5, <1>6, <1>7 DEF ts, tried

-----------------------------------------------------------------------------
\* Fixed windows: Since is a difference, for what was remembered is not later.
LEMMA SinceIs ==
  ASSUME NEW now \in 1 .. Period, NEW then \in 0 .. now, then # UNSET
  PROVE  Since(now, then) = now - then
<1>1. now - then \in 0 .. Period - 1 /\ Period \in Nat \ {0}
  BY RateLimiterAssumption DEF UNSET
<1>2. \A n \in 0 .. Period - 1 : n % Period = n
  BY <1>1
<1> QED
  BY <1>1, <1>2 DEF Since

\* TryAcquireFixed counts what it lets through, in this window and the one before.
LEMMA FixedAcquires ==
  ASSUME NEW m \in Nat, NEW now \in 1 .. m, NEW ctx \in Context(m), NEW d \in Config
  PROVE  LET tried == TryAcquireFixed(ctx, d, now)
         IN  /\ tried.ctx \in Context(m) /\ tried.acquired \in BOOLEAN
             /\ \A s \in Seq(1 .. now), c \in Config :
                  FixedHeld(s, ctx, c, now) /\ now = m /\ m <= Period /\ c.window <= d.window =>
                    /\ FixedHeld(s, tried.ctx, c, now)
                    /\ tried.acquired /\ d = c => FixedHeld(Append(s, now), tried.ctx, c, now)
<1> DEFINE tried == TryAcquireFixed(ctx, d, now)
           over == WindowIsOver(ctx, d, now)
           cur == IF over THEN [ctx EXCEPT !.windowStart = now, !.count = 0] ELSE ctx
           free == cur.count < d.capacity
<1> HIDE DEF over
<1>2. over => cur \in Context(m) /\ cur.windowStart = now /\ cur.count = 0
  <2>1. 0 \in Nat /\ now \in 0 .. m
    OBVIOUS
  <2>2. LET new == [ctx EXCEPT !.windowStart = now, !.count = 0]
        IN  new \in Context(m) /\ new.windowStart = now /\ new.count = 0
    BY <2>1 DEF Context
  <2> QED
    BY <2>2
<1>3. ~over => cur = ctx
  OBVIOUS
<1> HIDE DEF cur
<1>1. cur \in Context(m) /\ cur.count \in Nat /\ cur.windowStart \in 0 .. m
  <2>1. cur \in Context(m)
    BY <1>2, <1>3
  <2> QED
    BY <2>1, ContextIs
<1>4. tried.acquired = free /\ tried.ctx = IF free THEN [cur EXCEPT !.count = @ + 1] ELSE cur
  BY DEF TryAcquireFixed, cur, over
<1> HIDE DEF tried
<1>5. /\ [cur EXCEPT !.count = @ + 1] \in Context(m)
      /\ [cur EXCEPT !.count = @ + 1].windowStart = cur.windowStart
      /\ [cur EXCEPT !.count = @ + 1].count = cur.count + 1
  BY <1>1, SetCount
<1>6. tried.ctx \in Context(m) /\ tried.acquired \in BOOLEAN
  BY <1>1, <1>4, <1>5
<1>7. ASSUME NEW s \in Seq(1 .. now), NEW c \in Config, FixedHeld(s, ctx, c, now), now = m,
             m <= Period, c.window <= d.window
      PROVE  /\ FixedHeld(s, tried.ctx, c, now)
             /\ tried.acquired /\ d = c => FixedHeld(Append(s, now), tried.ctx, c, now)
  <2>1. /\ c.window \in Nat /\ d.window \in Nat /\ c.capacity \in Nat /\ now \in Nat
        /\ c.window >= 1
    BY DEF Config
  <2>2. /\ s \in Seq(Nat) /\ Append(s, now) \in Seq(Nat)
        /\ \A i \in DOMAIN s : s[i] \in Nat /\ 1 <= s[i] /\ s[i] <= now
    OBVIOUS
  <2>3. \A a, b : Among(s, a, b) \in Nat
    BY <2>2, AmongIsFinite
  <2>7. ctx.windowStart \in 0 .. now /\ now \in 1 .. Period
    <3>1. ctx.windowStart \in 0 .. m
      BY ContextIs
    <3> QED
      BY <3>1, <1>7, RateLimiterAssumption
  <2>4. FixedHeld(s, cur, c, now)
    <3>1. CASE over
      <4>1. \A i \in DOMAIN s : s[i] < now
        <5>1. CASE ctx.windowStart = UNSET
          BY <5>1, <1>7 DEF FixedHeld
        <5>2. CASE ctx.windowStart # UNSET
          <6>1. Since(now, ctx.windowStart) = now - ctx.windowStart /\ ctx.windowStart \in 0 .. now
            BY <5>2, <2>7, SinceIs
          <6>2. now - ctx.windowStart >= d.window
            BY <6>1, <5>2, <3>1 DEF over, WindowIsOver
          <6>3. \A i \in DOMAIN s : s[i] < ctx.windowStart + c.window
            BY <1>7 DEF FixedHeld
          <6> QED
            BY <6>1, <6>2, <6>3, <2>1, <2>2, <1>7
        <5> QED
          BY <5>1, <5>2
      <4>2. Among(s, now - 1, now) = 0
        BY <4>1, <2>1, <2>2, AmongNone
      <4>3. Among(s, now - c.window - 1, now - 1) <= c.capacity
        <5>1. CASE ctx.windowStart = UNSET
          <6>1. s = <<>>
            BY <5>1, <1>7 DEF FixedHeld
          <6>2. DOMAIN s = {}
            BY <6>1
          <6>3. Among(s, now - c.window - 1, now - 1) = 0
            BY <6>2, <2>2, AmongNone
          <6> QED
            BY <6>3, <2>1
        <5>2. CASE ctx.windowStart # UNSET
          <6>1. Since(now, ctx.windowStart) = now - ctx.windowStart /\ ctx.windowStart \in 0 .. now
            BY <5>2, <2>7, SinceIs
          <6>2. now - ctx.windowStart >= c.window
            BY <6>1, <5>2, <3>1, <1>7, <2>1 DEF over, WindowIsOver
          <6>3. ASSUME NEW i \in DOMAIN s, now - c.window - 1 < s[i], s[i] <= now - 1
                PROVE  ctx.windowStart - 1 < s[i] /\ s[i] <= now
            <7>1. s[i] \in Int /\ now \in Int /\ c.window \in Int /\ ctx.windowStart \in Int
              BY <6>1, <2>1, <2>2
            <7>2. now - ctx.windowStart >= c.window
              BY <6>2, <2>1
            <7>3. ctx.windowStart - 1 <= now - c.window - 1
              BY ONLY <7>1, <7>2
            <7>4. s[i] <= now
              BY ONLY <6>3, <7>1
            <7> QED
              BY ONLY <6>3, <7>1, <7>3, <7>4
          <6>4. Among(s, now - c.window - 1, now - 1) <= Among(s, ctx.windowStart - 1, now)
            BY <6>3, <2>2, AmongMore
          <6>5. Among(s, ctx.windowStart - 1, now) <= c.capacity
            BY <1>7 DEF FixedHeld
          <6> QED
            BY <6>4, <6>5, <2>1, <2>3
        <5> QED
          BY <5>1, <5>2
      <4>4. \A i \in DOMAIN s : s[i] < now + c.window
        BY <4>1, <2>1, <2>2
      <4> QED
        BY <4>2, <4>3, <4>4, <1>2, <3>1, <2>1 DEF FixedHeld, UNSET
    <3>2. CASE ~over
      BY <3>2, <1>3, <1>7
    <3> QED
      BY <3>1, <3>2
  <2>5. FixedHeld(s, tried.ctx, c, now)
    <3>1. free => FixedHeld(s, [cur EXCEPT !.count = @ + 1], c, now)
      BY <2>4, <1>1, <1>5, <2>3 DEF FixedHeld
    <3> QED
      BY <3>1, <2>4, <1>4
  <2>6. ASSUME free, d = c
        PROVE  FixedHeld(Append(s, now), tried.ctx, c, now)
    <3> DEFINE more == Append(s, now)
               start == cur.windowStart
    <3>1. tried.ctx.windowStart = start /\ tried.ctx.count = cur.count + 1
      BY <2>6, <1>4, <1>5
    <3>2. start # UNSET /\ start \in 0 .. now /\ now < start + c.window
      <4>1. CASE over
        BY <4>1, <1>2, <2>1 DEF UNSET
      <4>2. CASE ~over
        <5>1. ctx.windowStart # UNSET /\ ~(Since(now, ctx.windowStart) >= c.window)
          BY <4>2, <2>6 DEF over, WindowIsOver
        <5>2. ctx.windowStart \in 0 .. now
          BY <2>7
        <5>3. Since(now, ctx.windowStart) = now - ctx.windowStart
          BY <5>1, <2>7, SinceIs
        <5> QED
          BY <5>1, <5>2, <5>3, <4>2, <1>3, <2>1
      <4> QED
        BY <4>1, <4>2
    <3>3. \A i \in DOMAIN more : more[i] < start + c.window
      <4>1. \A i \in DOMAIN s : s[i] < start + c.window
        BY <2>4 DEF FixedHeld
      <4> QED
        BY <4>1, <3>2
    <3>4. Among(more, start - 1, now) = Among(s, start - 1, now) + 1
      BY <3>2, <2>1, <2>2, AmongOneMore
    <3>5. Among(more, start - c.window - 1, start - 1)
            = Among(s, start - c.window - 1, start - 1) + 0
      BY <3>2, <2>1, <2>2, AmongOneMore
    <3>6. /\ Among(s, start - 1, now) <= cur.count /\ cur.count < c.capacity
          /\ Among(s, start - c.window - 1, start - 1) <= c.capacity
      BY <2>4, <2>6 DEF FixedHeld
    <3> HIDE DEF more, start
    <3>7. /\ Among(more, start - 1, now) <= cur.count + 1
          /\ Among(more, start - 1, now) <= c.capacity
          /\ Among(more, start - c.window - 1, start - 1) <= c.capacity
      BY <3>4, <3>5, <3>6, <2>1, <2>3, <1>1
    <3> QED
      BY <3>1, <3>2, <3>3, <3>7 DEF FixedHeld, more
  <2> QED
    BY <2>5, <2>6, <1>4
<1> QED
  BY <1>6, <1>7 DEF tried

-----------------------------------------------------------------------------
\* Token buckets.
LEMMA Refills ==
  ASSUME NEW m \in Nat, NEW now \in 1 .. m, NEW ctx \in Context(m), NEW d \in Config
  PROVE  LET filled == RefillToken(ctx, d, now)
         IN  /\ filled \in Context(m)
             /\ \A s \in Seq(1 .. now) :
                  BucketHeld(s, ctx, d, now) /\ now = m =>
                    BucketHeld(s, filled, d, now) /\ filled.lastRefill = now
<1> DEFINE filled == RefillToken(ctx, d, now)
           full == d.capacity * TokenUnits
           gain == (now - ctx.lastRefill) * d.refill
           more == ctx.tokens + gain
<1>1. /\ ctx.tokens \in Nat /\ ctx.lastRefill \in 0 .. m
      /\ d.capacity \in Nat /\ d.refill \in Nat /\ TokenUnits \in Nat
  BY ContextIs, RateLimiterAssumption DEF Config
<1>2. full \in Int /\ full >= 0
  BY <1>1, Products
<1>3. gain \in Int /\ (now > ctx.lastRefill => gain >= 0)
  <2>1. now - ctx.lastRefill \in Int /\ (now > ctx.lastRefill => now - ctx.lastRefill >= 0)
    BY <1>1
  <2> QED
    BY ONLY <2>1, <1>1, Products
<1> HIDE DEF full, gain
<1>4. full \in Nat /\ more \in Int /\ (now > ctx.lastRefill => more \in Nat)
  BY <1>1, <1>2, <1>3
<1>5. now \in 0 .. m
  OBVIOUS
<1>6. CASE ctx.lastRefill = UNSET
  <2>1. filled = [ctx EXCEPT !.tokens = full, !.lastRefill = now]
    BY <1>6 DEF RefillToken, full
  <2> HIDE DEF filled
  <2>2. filled \in Context(m) /\ filled.tokens = full /\ filled.lastRefill = now
    BY <2>1, <1>4, <1>5 DEF Context
  <2>3. ASSUME NEW s \in Seq(1 .. now), BucketHeld(s, ctx, d, now), now = m
        PROVE  BucketHeld(s, filled, d, now) /\ filled.lastRefill = now
    <3>1. \A i \in DOMAIN s : s[i] \in Nat /\ 1 <= s[i] /\ s[i] <= 0
      BY <2>3, <1>6 DEF BucketHeld, UNSET
    <3>2. s \in Seq(Nat) /\ \A i \in DOMAIN s : FALSE
      BY <3>1
    <3>3. ASSUME NEW x \in 0 .. now - 1
          PROVE  Among(s, x, now) * TokenUnits + full <= full + (now - 1 - x) * d.refill
      <4>1. Among(s, x, now) = 0
        BY <3>2, AmongNone
      <4>2. Among(s, x, now) * TokenUnits = 0
        BY <4>1, <1>1, Products
      <4>3. now - 1 - x \in Int /\ now - 1 - x >= 0
        OBVIOUS
      <4>4. (now - 1 - x) * d.refill \in Int /\ (now - 1 - x) * d.refill >= 0
        BY ONLY <4>3, <1>1, Products
      <4> QED
        BY <4>2, <4>4, <1>4
    <3> QED
      BY <3>2, <3>3, <2>2 DEF BucketHeld, full
  <2> QED
    BY <2>2, <2>3 DEF filled
<1>7. CASE ctx.lastRefill # UNSET /\ now > ctx.lastRefill
  <2> DEFINE kept == IF more < full THEN more ELSE full
  <2>1. filled = [ctx EXCEPT !.tokens = kept, !.lastRefill = now]
    BY <1>7 DEF RefillToken, full, gain
  <2>2. kept \in Nat /\ kept <= full /\ kept <= more
    BY <1>4, <1>7
  <2> HIDE DEF kept, filled
  <2>3. filled \in Context(m) /\ filled.tokens = kept /\ filled.lastRefill = now
    BY <2>1, <2>2, <1>5 DEF Context
  <2>4. ASSUME NEW s \in Seq(1 .. now), BucketHeld(s, ctx, d, now), now = m
        PROVE  BucketHeld(s, filled, d, now) /\ filled.lastRefill = now
    <3>1. s \in Seq(Nat) /\ \A i \in DOMAIN s : s[i] \in Nat /\ s[i] <= ctx.lastRefill
      BY <2>4 DEF BucketHeld
    <3>2. ASSUME NEW x \in 0 .. now - 1
          PROVE  Among(s, x, now) * TokenUnits + kept <= full + (now - 1 - x) * d.refill
      <4> DEFINE used == Among(s, x, now) * TokenUnits
                 owed == (now - 1 - x) * d.refill
      <4>1. now - 1 - x \in Int /\ now - 1 - x >= 0
        OBVIOUS
      <4>2. owed \in Int /\ owed >= 0
        BY ONLY <4>1, <1>1, Products
      <4>3. CASE x < ctx.lastRefill
        <5> DEFINE before == (ctx.lastRefill - 1 - x) * d.refill
        <5>1. x \in 0 .. ctx.lastRefill - 1
          BY <4>3, <1>1
        <5>2. used + ctx.tokens <= full + before
          BY <2>4, <5>1 DEF BucketHeld, full
        <5>3. ctx.lastRefill - 1 - x \in Int /\ now - ctx.lastRefill \in Int
              /\ (ctx.lastRefill - 1 - x) + (now - ctx.lastRefill) = now - 1 - x
          <6>1. ctx.lastRefill \in Int /\ x \in Int /\ now \in Int
            BY <1>1
          <6> QED
            BY ONLY <6>1
        <5>4. before \in Int /\ before + gain = owed
          <6>1. ((ctx.lastRefill - 1 - x) + (now - ctx.lastRefill)) * d.refill = before + gain
                /\ before \in Int
            BY ONLY <5>3, <1>1, Products DEF gain
          <6> QED
            BY <6>1, <5>3
        <5>5. used \in Int
          <6>1. Among(s, x, now) \in Nat
            BY <3>1, AmongIsFinite
          <6>2. Among(s, x, now) \in Int
            BY <6>1
          <6> QED
            BY ONLY <6>2, <1>1, Products
        <5> HIDE DEF used, owed, before
        <5>6. used + kept <= full + owed
          <6>1. full \in Int /\ gain \in Int /\ kept \in Int /\ ctx.tokens \in Int /\ kept <= ctx.tokens + gain
            BY <2>2, <1>1, <1>3, <1>4
          <6> QED
            BY ONLY <5>2, <5>4, <5>5, <6>1
        <5> QED
          BY <5>6 DEF used, owed
      <4>4. CASE ~(x < ctx.lastRefill)
        <5>1. Among(s, x, now) = 0
          BY <4>4, <3>1, <1>1, AmongNone
        <5>2. used = 0
          BY <5>1, <1>1, Products
        <5> HIDE DEF used, owed
        <5>3. used + kept <= full + owed
          BY <5>2, <4>2, <2>2, <1>4
        <5> QED
          BY <5>3 DEF used, owed
      <4> QED
        BY <4>3, <4>4
    <3>3. \A i \in DOMAIN s : s[i] <= now
      BY <3>1, <1>1, <1>7
    <3> QED
      BY <3>2, <3>3, <2>3 DEF BucketHeld, full
  <2> QED
    BY <2>3, <2>4 DEF filled
<1>8. CASE ctx.lastRefill # UNSET /\ ~(now > ctx.lastRefill)
  <2>1. filled = ctx
    BY <1>8 DEF RefillToken
  <2>2. now = m => ctx.lastRefill = now
    BY <1>1, <1>8
  <2> HIDE DEF filled
  <2>3. ASSUME NEW s \in Seq(1 .. now), BucketHeld(s, ctx, d, now), now = m
        PROVE  BucketHeld(s, filled, d, now) /\ filled.lastRefill = now
    BY <2>1, <2>2, <2>3
  <2> QED
    BY <2>1, <2>3 DEF filled
<1> QED
  BY <1>6, <1>7, <1>8

\* TryAcquireToken pays for what it lets through.
LEMMA BucketAcquires ==
  ASSUME NEW m \in Nat, NEW now \in 1 .. m, NEW ctx \in Context(m), NEW d \in Config
  PROVE  LET tried == TryAcquireToken(ctx, d, now)
         IN  /\ tried.ctx \in Context(m) /\ tried.acquired \in BOOLEAN
             /\ \A s \in Seq(1 .. now) :
                  BucketHeld(s, ctx, d, now) /\ now = m =>
                    /\ BucketHeld(s, tried.ctx, d, now)
                    /\ tried.acquired => BucketHeld(Append(s, now), tried.ctx, d, now)
<1> DEFINE filled == RefillToken(ctx, d, now)
           tried == TryAcquireToken(ctx, d, now)
           enough == filled.tokens >= TokenUnits
           taken == [filled EXCEPT !.tokens = @ - TokenUnits]
<1>1. filled \in Context(m)
  BY Refills
<1>2. tried.acquired = enough /\ tried.ctx = IF enough THEN taken ELSE filled
  BY DEF TryAcquireToken
<1>3. \A s \in Seq(1 .. now) : BucketHeld(s, ctx, d, now) /\ now = m =>
                                 BucketHeld(s, filled, d, now) /\ filled.lastRefill = now
  BY Refills
<1> HIDE DEF filled, tried
<1>4. filled.tokens \in Nat /\ TokenUnits \in Nat /\ TokenUnits >= 1 /\ d.capacity \in Nat /\ d.refill \in Nat
  BY <1>1, ContextIs, RateLimiterAssumption DEF Config
<1>5. enough => filled.tokens - TokenUnits \in Nat
  BY <1>4
<1>6. enough => /\ taken \in Context(m) /\ taken.tokens = filled.tokens - TokenUnits
                /\ taken.lastRefill = filled.lastRefill
  BY <1>1, <1>5 DEF Context
<1> HIDE DEF taken
<1>7. tried.ctx \in Context(m) /\ tried.acquired \in BOOLEAN
  BY <1>1, <1>2, <1>6
<1>8. ASSUME NEW s \in Seq(1 .. now), BucketHeld(s, ctx, d, now), now = m
      PROVE  /\ BucketHeld(s, tried.ctx, d, now)
             /\ tried.acquired => BucketHeld(Append(s, now), tried.ctx, d, now)
  <2> DEFINE full == d.capacity * TokenUnits
             owed(x) == (now - 1 - x) * d.refill
  <2>1. BucketHeld(s, filled, d, now) /\ filled.lastRefill = now
    BY <1>3, <1>8
  <2>2. s \in Seq(Nat) /\ now \in Nat /\ now <= now
    OBVIOUS
  <2>3. ASSUME NEW x \in 0 .. now - 1
        PROVE  /\ Among(s, x, now) * TokenUnits + filled.tokens <= full + owed(x)
               /\ full \in Int /\ owed(x) \in Int /\ Among(s, x, now) * TokenUnits \in Int
               /\ Among(Append(s, now), x, now) * TokenUnits = Among(s, x, now) * TokenUnits + TokenUnits
    <3>1. Among(s, x, now) * TokenUnits + filled.tokens <= full + owed(x)
      BY <2>1 DEF BucketHeld
    <3>2. now - 1 - x \in Int /\ d.capacity \in Int /\ 1 \in Int
      BY <1>4
    <3>3. Among(s, x, now) \in Int
      <4>1. Among(s, x, now) \in Nat
        BY <2>2, AmongIsFinite
      <4> QED
        BY <4>1
    <3>4. Among(Append(s, now), x, now) = Among(s, x, now) + 1
      BY <2>2, AmongOneMore
    <3>5. full \in Int /\ owed(x) \in Int
      BY <3>2, <1>4, Products
    <3>6. (Among(s, x, now) + 1) * TokenUnits = Among(s, x, now) * TokenUnits + 1 * TokenUnits
          /\ 1 * TokenUnits = TokenUnits /\ Among(s, x, now) * TokenUnits \in Int
      BY ONLY <3>2, <3>3, <1>4, Products
    <3> QED
      BY <3>1, <3>4, <3>5, <3>6
  <2> HIDE DEF full, owed
  <2>4. ASSUME enough
        PROVE  BucketHeld(s, taken, d, now) /\ BucketHeld(Append(s, now), taken, d, now)
    <3>1. taken.lastRefill = now /\ taken.tokens = filled.tokens - TokenUnits
      BY <2>1, <2>4, <1>6
    <3>2. \A i \in DOMAIN s : s[i] <= now
      BY <2>1 DEF BucketHeld
    <3>3. \A i \in DOMAIN Append(s, now) : Append(s, now)[i] <= now
      BY <3>2, <2>2
    <3>4. ASSUME NEW x \in 0 .. now - 1
          PROVE  /\ Among(s, x, now) * TokenUnits + (filled.tokens - TokenUnits) <= full + owed(x)
                 /\ Among(Append(s, now), x, now) * TokenUnits + (filled.tokens - TokenUnits)
                      <= full + owed(x)
      <4> DEFINE used == Among(s, x, now) * TokenUnits
                 then == Among(Append(s, now), x, now) * TokenUnits
      <4>1. /\ used + filled.tokens <= full + owed(x) /\ then = used + TokenUnits
            /\ used \in Int /\ full \in Int /\ owed(x) \in Int
        BY <2>3
      <4> HIDE DEF used, then
      <4>2. used + (filled.tokens - TokenUnits) <= full + owed(x)
            /\ then + (filled.tokens - TokenUnits) <= full + owed(x)
        <5>1. filled.tokens \in Int /\ TokenUnits \in Int /\ TokenUnits >= 0
          BY ONLY <1>4
        <5> QED
          BY ONLY <4>1, <5>1
      <4> QED
        BY <4>2 DEF used, then
    <3> QED
      BY <3>1, <3>2, <3>3, <3>4 DEF BucketHeld, full, owed
  <2> QED
    BY <2>1, <2>4, <1>2
<1> QED
  BY <1>7, <1>8 DEF tried

-----------------------------------------------------------------------------
\* Any strategy.  A level d may be asked before the strictest, c, if it is another one
\* that forgets later, and no bucket beside a bucket.
Suits(c, d) ==
    d = c \/ (c.window < d.window /\ ~(c.strategy = "TOKEN_BUCKET" /\ d.strategy = "TOKEN_BUCKET"))

\* What is remembered for a strategy is in the fields of that strategy.
LEMMA HeldByFields ==
  ASSUME NEW s, NEW ctx, NEW new, NEW c \in Config, NEW now, Held(s, ctx, c, now),
         c.strategy = "SLIDING_WINDOW" => new.sliding = ctx.sliding,
         c.strategy = "FIXED_WINDOW" => new.windowStart = ctx.windowStart /\ new.count = ctx.count,
         c.strategy = "TOKEN_BUCKET" => new.tokens = ctx.tokens /\ new.lastRefill = ctx.lastRefill
  PROVE  Held(s, new, c, now)
<1>1. CASE c.strategy = "SLIDING_WINDOW"
  BY <1>1 DEF Held, SlidingHeld
<1>2. CASE c.strategy = "FIXED_WINDOW"
  BY <1>2 DEF Held, FixedHeld
<1>3. CASE c.strategy = "TOKEN_BUCKET"
  BY <1>3 DEF Held, BucketHeld
<1> QED
  BY <1>1, <1>2, <1>3 DEF Config

\* A bucket is filled by no other strategy, and so on.
LEMMA FieldsApart ==
  ASSUME NEW m \in Nat, NEW now \in 1 .. m, NEW ctx \in Context(m), NEW d \in Config
  PROVE  /\ \A ts : LET new == [ctx EXCEPT !.sliding = ts]
                    IN  /\ new.windowStart = ctx.windowStart /\ new.count = ctx.count
                        /\ new.tokens = ctx.tokens /\ new.lastRefill = ctx.lastRefill
         /\ LET new == TryAcquireToken(ctx, d, now).ctx
            IN  /\ new.sliding = ctx.sliding
                /\ new.windowStart = ctx.windowStart /\ new.count = ctx.count
         /\ LET new == RefillToken(ctx, d, now)
            IN  /\ new.sliding = ctx.sliding
                /\ new.windowStart = ctx.windowStart /\ new.count = ctx.count
         /\ LET new == TryAcquireFixed(ctx, d, now).ctx
            IN  /\ new.sliding = ctx.sliding
                /\ new.tokens = ctx.tokens /\ new.lastRefill = ctx.lastRefill
<1>1. \A ts : LET new == [ctx EXCEPT !.sliding = ts]
              IN  /\ new.windowStart = ctx.windowStart /\ new.count = ctx.count
                  /\ new.tokens = ctx.tokens /\ new.lastRefill = ctx.lastRefill
  BY DEF Context
<1>2. ASSUME NEW n, NEW l
      PROVE  LET new == [ctx EXCEPT !.tokens = n, !.lastRefill = l]
             IN  /\ new.sliding = ctx.sliding
                 /\ new.windowStart = ctx.windowStart /\ new.count = ctx.count
  BY DEF Context
<1>3. LET new == RefillToken(ctx, d, now)
      IN  /\ new.sliding = ctx.sliding
          /\ new.windowStart = ctx.windowStart /\ new.count = ctx.count
  BY <1>2 DEF RefillToken
<1>4. LET new == TryAcquireToken(ctx, d, now).ctx
      IN  /\ new.sliding = ctx.sliding
          /\ new.windowStart = ctx.windowStart /\ new.count = ctx.count
  <2> DEFINE filled == RefillToken(ctx, d, now)
  <2>1. filled \in Context(m)
    BY Refills
  <2>2. TryAcquireToken(ctx, d, now).ctx
          = IF filled.tokens >= TokenUnits THEN [filled EXCEPT !.tokens = @ - TokenUnits] ELSE filled
    BY DEF TryAcquireToken
  <2> HIDE DEF filled
  <2>3. LET new == [filled EXCEPT !.tokens = @ - TokenUnits]
        IN  /\ new.sliding = filled.sliding
            /\ new.windowStart = filled.windowStart /\ new.count = filled.count
    BY <2>1 DEF Context
  <2> QED
    BY <1>3, <2>2, <2>3 DEF filled
<1>5. LET new == TryAcquireFixed(ctx, d, now).ctx
      IN  /\ new.sliding = ctx.sliding
          /\ new.tokens = ctx.tokens /\ new.lastRefill = ctx.lastRefill
  <2> DEFINE cur == IF WindowIsOver(ctx, d, now)
                    THEN [ctx EXCEPT !.windowStart = now, !.count = 0] ELSE ctx
  <2>1. TryAcquireFixed(ctx, d, now).ctx
          = IF cur.count < d.capacity THEN [cur EXCEPT !.count = @ + 1] ELSE cur
    BY DEF TryAcquireFixed
  <2>2. now \in 0 .. m /\ 0 \in Nat
    OBVIOUS
  <2>3. /\ cur \in Context(m) /\ cur.sliding = ctx.sliding
        /\ cur.tokens = ctx.tokens /\ cur.lastRefill = ctx.lastRefill
    BY <2>2 DEF Context
  <2> HIDE DEF cur
  <2>4. LET new == [cur EXCEPT !.count = @ + 1]
        IN  /\ new.sliding = cur.sliding
            /\ new.tokens = cur.tokens /\ new.lastRefill = cur.lastRefill
    BY <2>3 DEF Context
  <2> QED
    BY <2>1, <2>3, <2>4
<1> QED
  BY <1>1, <1>3, <1>4, <1>5

\* A call at one level.
LEMMA Acquires ==
  ASSUME NEW m \in Nat, NEW now \in 1 .. m, NEW ctx \in Context(m), NEW d \in Config
  PROVE  LET tried == Acquire(ctx, d, now)
         IN  /\ tried.ctx \in Context(m) /\ tried.acquired \in BOOLEAN
             /\ \A s \in Seq(1 .. now), c \in Config :
                  Held(s, ctx, c, now) /\ now = m /\ m <= Period /\ Suits(c, d) =>
                    /\ Held(s, tried.ctx, c, now)
                    /\ tried.acquired /\ d = c => Held(Append(s, now), tried.ctx, c, now)
<1> DEFINE tried == Acquire(ctx, d, now)
<1>1. \A c \in Config : Suits(c, d) => c.window <= d.window
  BY DEF Suits, Config
<1>2. CASE d.strategy = "SLIDING_WINDOW"
  <2>1. tried = TryAcquireSliding(ctx, d, now)
    BY <1>2 DEF Acquire
  <2>2. tried.ctx \in Context(m) /\ tried.acquired \in BOOLEAN
    BY <2>1, SlidingAcquires
  <2> DEFINE left == Expire(ctx.sliding, d, now)
             next == IF Len(left) < d.capacity THEN Append(left, now) ELSE left
  <2>3. tried.ctx = [ctx EXCEPT !.sliding = next]
    BY <2>1 DEF TryAcquireSliding
  <2> HIDE DEF next
  <2>4. /\ tried.ctx.windowStart = ctx.windowStart /\ tried.ctx.count = ctx.count
        /\ tried.ctx.tokens = ctx.tokens /\ tried.ctx.lastRefill = ctx.lastRefill
    BY <2>3, FieldsApart
  <2>5. ASSUME NEW s \in Seq(1 .. now), NEW c \in Config, Held(s, ctx, c, now), now = m,
               m <= Period, Suits(c, d)
        PROVE  /\ Held(s, tried.ctx, c, now)
               /\ tried.acquired /\ d = c => Held(Append(s, now), tried.ctx, c, now)
    <3>1. CASE c.strategy = "SLIDING_WINDOW"
      BY <1>1, <2>1, <2>5, <3>1, SlidingAcquires DEF Held
    <3>2. CASE c.strategy # "SLIDING_WINDOW"
      BY <2>4, <2>5, <3>2, <1>2, HeldByFields
    <3> QED
      BY <3>1, <3>2
  <2> HIDE DEF tried
  <2> QED
    BY <2>2, <2>5 DEF tried
<1>3. CASE d.strategy = "FIXED_WINDOW"
  <2>1. tried = TryAcquireFixed(ctx, d, now)
    BY <1>3 DEF Acquire
  <2>2. tried.ctx \in Context(m) /\ tried.acquired \in BOOLEAN
    BY <2>1, FixedAcquires
  <2>4. /\ tried.ctx.sliding = ctx.sliding
        /\ tried.ctx.tokens = ctx.tokens /\ tried.ctx.lastRefill = ctx.lastRefill
    BY <2>1, FieldsApart
  <2>5. ASSUME NEW s \in Seq(1 .. now), NEW c \in Config, Held(s, ctx, c, now), now = m,
               m <= Period, Suits(c, d)
        PROVE  /\ Held(s, tried.ctx, c, now)
               /\ tried.acquired /\ d = c => Held(Append(s, now), tried.ctx, c, now)
    <3>1. CASE c.strategy = "FIXED_WINDOW"
      BY <1>1, <2>1, <2>5, <3>1, FixedAcquires DEF Held
    <3>2. CASE c.strategy # "FIXED_WINDOW"
      BY <2>4, <2>5, <3>2, <1>3, HeldByFields
    <3> QED
      BY <3>1, <3>2
  <2> HIDE DEF tried
  <2> QED
    BY <2>2, <2>5 DEF tried
<1>4. CASE d.strategy = "TOKEN_BUCKET"
  <2>1. tried = TryAcquireToken(ctx, d, now)
    BY <1>4 DEF Acquire
  <2>2. tried.ctx \in Context(m) /\ tried.acquired \in BOOLEAN
    BY <2>1, BucketAcquires
  <2>4. /\ tried.ctx.sliding = ctx.sliding
        /\ tried.ctx.windowStart = ctx.windowStart /\ tried.ctx.count = ctx.count
    BY <2>1, FieldsApart
  <2>5. ASSUME NEW s \in Seq(1 .. now), NEW c \in Config, Held(s, ctx, c, now), now = m,
               m <= Period, Suits(c, d)
        PROVE  /\ Held(s, tried.ctx, c, now)
               /\ tried.acquired /\ d = c => Held(Append(s, now), tried.ctx, c, now)
    <3>1. CASE c.strategy = "TOKEN_BUCKET"
      <4>1. c = d
        BY <3>1, <1>4, <2>5 DEF Suits
      <4> QED
        BY <4>1, <2>1, <2>5, <3>1, BucketAcquires DEF Held
    <3>2. CASE c.strategy # "TOKEN_BUCKET"
      BY <2>4, <2>5, <3>2, <1>4, HeldByFields
    <3> QED
      BY <3>1, <3>2
  <2> HIDE DEF tried
  <2> QED
    BY <2>2, <2>5 DEF tried
<1> QED
  BY <1>2, <1>3, <1>4 DEF Config

\* A question for the quota at the first level.
LEMMA Asks ==
  ASSUME NEW m \in Nat, NEW now \in 1 .. m, NEW ctx \in Context(m), NEW d \in Config
  PROVE  LET new == GetRemainingQuota(ctx, d, now).ctx
         IN  /\ new \in Context(m)
             /\ \A s \in Seq(1 .. now), c \in Config :
                  Held(s, ctx, c, now) /\ now = m /\ Suits(c, d) => Held(s, new, c, now)
<1> DEFINE new == GetRemainingQuota(ctx, d, now).ctx
<1>1. \A c \in Config : Suits(c, d) => c.window <= d.window
  BY DEF Suits, Config
<1>2. CASE d.strategy = "SLIDING_WINDOW"
  <2>1. new = [ctx EXCEPT !.sliding = Expire(ctx.sliding, d, now)]
    BY <1>2 DEF GetRemainingQuota
  <2>2. new \in Context(m)
    BY <2>1, SlidingAcquires
  <2>3. /\ new.windowStart = ctx.windowStart /\ new.count = ctx.count
        /\ new.tokens = ctx.tokens /\ new.lastRefill = ctx.lastRefill
    BY <2>1, FieldsApart
  <2>4. ASSUME NEW s \in Seq(1 .. now), NEW c \in Config, Held(s, ctx, c, now), now = m, Suits(c, d)
        PROVE  Held(s, new, c, now)
    <3>1. CASE c.strategy = "SLIDING_WINDOW"
      BY <1>1, <2>1, <2>4, <3>1, SlidingAcquires DEF Held
    <3>2. CASE c.strategy # "SLIDING_WINDOW"
      BY <2>3, <2>4, <3>2, HeldByFields
    <3> QED
      BY <3>1, <3>2
  <2> HIDE DEF new
  <2> QED
    BY <2>2, <2>4 DEF new
<1>3. CASE d.strategy = "TOKEN_BUCKET"
  <2>1. new = RefillToken(ctx, d, now)
    BY <1>3 DEF GetRemainingQuota
  <2>2. new \in Context(m)
    BY <2>1, Refills
  <2>3. /\ new.sliding = ctx.sliding
        /\ new.windowStart = ctx.windowStart /\ new.count = ctx.count
    BY <2>1, FieldsApart
  <2>4. ASSUME NEW s \in Seq(1 .. now), NEW c \in Config, Held(s, ctx, c, now), now = m, Suits(c, d)
        PROVE  Held(s, new, c, now)
    <3>1. CASE c.strategy = "TOKEN_BUCKET"
      <4>1. c = d
        BY <3>1, <1>3, <2>4 DEF Suits
      <4> QED
        BY <4>1, <2>1, <2>4, <3>1, Refills DEF Held
    <3>2. CASE c.strategy # "TOKEN_BUCKET"
      BY <2>3, <2>4, <3>2, HeldByFields
    <3> QED
      BY <3>1, <3>2
  <2> HIDE DEF new
  <2> QED
    BY <2>2, <2>4 DEF new
<1>4. CASE d.strategy = "FIXED_WINDOW"
  BY <1>4 DEF GetRemainingQuota
<1> QED
  BY <1>2, <1>3, <1>4 DEF Config

\* There is a whole token exactly when there is enough for one.
LEMMA WholeTokens ==
  ASSUME NEW n \in Nat, NEW k \in Nat \ {0}
  PROVE  n \div k > 0 <=> n >= k
OBVIOUS

\* A quota is left exactly when a call would be let through.
LEMMA QuotaTells ==
  ASSUME NEW m \in Nat, NEW now \in 1 .. m, NEW ctx \in Context(m), NEW d \in Config
  PROVE  GetRemainingQuota(ctx, d, now).quota > 0 <=> Acquire(ctx, d, now).acquired
<1>1. CASE d.strategy = "SLIDING_WINDOW"
  <2> DEFINE n == Len(Expire(ctx.sliding, d, now))
  <2>1. n \in Nat /\ d.capacity \in Nat
    <3>1. ctx.sliding \in Seq(1 .. m) /\ now \in Nat
      BY ContextIs
    <3>2. Expire(ctx.sliding, d, now) \in Seq(1 .. m)
      BY <3>1, ExpireKeeps
    <3> QED
      BY <3>2 DEF Config
  <2> DEFINE left == IF n < d.capacity THEN d.capacity - n ELSE 0
  <2>2. GetRemainingQuota(ctx, d, now).quota = left /\ (Acquire(ctx, d, now).acquired <=> n < d.capacity)
    BY <1>1 DEF GetRemainingQuota, Acquire, TryAcquireSliding
  <2> HIDE DEF n
  <2>3. left > 0 <=> n < d.capacity
    BY <2>1
  <2> HIDE DEF left
  <2> QED
    BY <2>2, <2>3, Zenon
<1>2. CASE d.strategy = "TOKEN_BUCKET"
  <2> DEFINE n == RefillToken(ctx, d, now).tokens
  <2>1. n \in Nat
    <3>1. RefillToken(ctx, d, now) \in Context(m)
      BY Refills
    <3> QED
      BY <3>1, ContextIs
  <2>2. /\ GetRemainingQuota(ctx, d, now).quota = n \div TokenUnits
        /\ Acquire(ctx, d, now).acquired = (n >= TokenUnits)
    BY <1>2 DEF GetRemainingQuota, Acquire, TryAcquireToken
  <2> HIDE DEF n
  <2>3. n \div TokenUnits > 0 <=> n >= TokenUnits
    BY <2>1, WholeTokens, RateLimiterAssumption
  <2> QED
    BY <2>2, <2>3
<1>3. CASE d.strategy = "FIXED_WINDOW"
  <2> DEFINE over == WindowIsOver(ctx, d, now)
             cur == IF over THEN [ctx EXCEPT !.windowStart = now, !.count = 0] ELSE ctx
  <2>1. ctx.count \in Nat /\ d.capacity \in Nat /\ d.capacity >= 1
    BY ContextIs DEF Config
  <2> DEFINE left == IF over THEN d.capacity
                     ELSE IF ctx.count < d.capacity THEN d.capacity - ctx.count ELSE 0
  <2>2. /\ GetRemainingQuota(ctx, d, now).quota = left
        /\ Acquire(ctx, d, now).acquired <=> cur.count < d.capacity
    BY <1>3 DEF GetRemainingQuota, Acquire, TryAcquireFixed
  <2>3. cur.count = IF over THEN 0 ELSE ctx.count
    BY DEF Context
  <2> HIDE DEF cur, over
  <2>4. left > 0 <=> cur.count < d.capacity
    BY <2>1, <2>3
  <2> HIDE DEF left
  <2> QED
    BY <2>2, <2>4, Zenon
<1> QED
  BY <1>1, <1>2, <1>3 DEF Config

-----------------------------------------------------------------------------
\* All keys.

\* In every list one level is the strictest, and no other bucket goes with a bucket.
LevelsAreOrdered ==
    \A l \in Levels : \E i \in DOMAIN l : \A j \in DOMAIN l \ {i} :
        /\ l[i].window < l[j].window
        /\ ~(l[i].strategy = "TOKEN_BUCKET" /\ l[j].strategy = "TOKEN_BUCKET")

\* What was let through of a key keeps to the limit, and is remembered.
KeptTo(s, ctx, c, now) ==
    Held(s, ctx, c, now) /\ \A at \in 1 .. now : Bound(s, c, at)

LimitsAreKept ==
    ~overtaken =>
      \A k \in Keys, c \in Strictest : KeptTo(admitted[k], ContextOf(contexts, k), c, clock)

LimiterInv == LimiterTypeOK /\ LimitsAreKept

\* A list of levels has a first one, and valid configurations.
LEMMA LevelsAre ==
  ASSUME LimiterTypeOK
  PROVE  /\ levels # <<>> /\ levels \in Seq(Config) /\ Len(levels) \in Nat
         /\ DOMAIN levels = 1 .. Len(levels) /\ 1 \in DOMAIN levels
         /\ \A i \in DOMAIN levels : levels[i] \in Config
<1>1. levels # <<>> /\ levels \in Seq(Config)
  BY RateLimiterAssumption DEF LimiterTypeOK
<1> QED
  BY <1>1

\* Where levels are ordered one is the strictest, and suits the others.
LEMMA OneStrictest ==
  ASSUME LevelsAreOrdered, LimiterTypeOK, NEW c \in Strictest
  PROVE  /\ c \in Config
         /\ \A i \in DOMAIN levels : /\ Suits(c, levels[i])
                                     /\ levels[i] \in Strictest => levels[i] = c
<1>1. PICK i \in DOMAIN levels : \A j \in DOMAIN levels \ {i} :
             /\ levels[i].window < levels[j].window
             /\ ~(levels[i].strategy = "TOKEN_BUCKET" /\ levels[j].strategy = "TOKEN_BUCKET")
  BY DEF LevelsAreOrdered, LimiterTypeOK
<1>2. \A j \in DOMAIN levels : levels[j] \in Config /\ levels[j].window \in Nat
  BY LevelsAre DEF Config
<1>3. \A d \in Strictest : d = levels[i]
  BY <1>1, <1>2 DEF Strictest
<1> QED
  BY <1>1, <1>2, <1>3 DEF Suits

\* The context that GetOrCreateContext makes.
LEMMA NewContextIs ==
  ASSUME NEW m \in Nat
  PROVE  /\ NewContext \in Context(m) /\ NewContext.tokens = 0
         /\ 0 \in 0 .. m /\ <<>> \in Seq(1 .. m)
<1>1. <<>> \in Seq(1 .. m) /\ 0 \in 0 .. m
  OBVIOUS
<1> QED
  BY <1>1 DEF NewContext, Context, UNSET

\* The context of a key, whether it is remembered or not.
LEMMA ContextOfIs ==
  ASSUME LimiterTypeOK, NEW k \in Keys
  PROVE  ContextOf(contexts, k) \in Context(clock)
<1>1. clock \in Nat
  BY RateLimiterAssumption DEF LimiterTypeOK
<1> QED
  BY <1>1, NewContextIs DEF ContextOf, LimiterTypeOK

\* What a key has that is not remembered, or has been forgotten.
LEMMA FreshIsKept ==
  ASSUME NEW now \in Nat \ {0}, NEW ctx \in Context(now), NEW c \in Config,
         c.strategy = "TOKEN_BUCKET" => ctx.tokens <= c.capacity * TokenUnits
  PROVE  KeptTo(<<>>, ctx, c, now)
<1>1. /\ now \in Nat /\ ctx.sliding \in Seq(1 .. now) /\ ctx.tokens \in Nat /\ ctx.count \in Nat
      /\ ctx.lastRefill \in 0 .. now
      /\ c.window \in Nat /\ c.capacity \in Nat /\ c.refill \in Nat /\ TokenUnits \in Nat
  BY ContextIs, RateLimiterAssumption DEF Config
<1>2. <<>> \in Seq(Nat) /\ DOMAIN <<>> = {} /\ ctx.sliding \in Seq(Nat)
  BY <1>1
<1>3. \A a, b : Among(<<>>, a, b) = 0
  BY <1>2, AmongNone
<1>4. \A a, b : Among(<<>>, a, b) * TokenUnits = 0
  BY <1>1, <1>3
<1>5. c.capacity * TokenUnits \in Int /\ c.capacity * TokenUnits >= 0
  BY <1>1, Products
<1>6. \A n \in Nat : n * c.refill \in Int /\ n * c.refill >= 0
  <2> TAKE n \in Nat
  <2>1. n \in Int /\ n >= 0
    OBVIOUS
  <2> QED
    BY <2>1, <1>1, Products
<1>7. CASE c.strategy = "SLIDING_WINDOW"
  <2>1. \A a, b : Among(ctx.sliding, a, b) \in Nat
    BY <1>2, AmongIsFinite
  <2>2. SlidingHeld(<<>>, ctx, c, now)
    BY <1>1, <1>3, <2>1 DEF SlidingHeld
  <2>3. \A at \in 1 .. now : Bound(<<>>, c, at)
    BY <1>1, <1>3, <1>7 DEF Bound
  <2> QED
    BY <2>2, <2>3, <1>7 DEF KeptTo, Held
<1>8. CASE c.strategy = "FIXED_WINDOW"
  <2>1. FixedHeld(<<>>, ctx, c, now)
    BY <1>1, <1>2, <1>3 DEF FixedHeld
  <2>2. \A at \in 1 .. now : Bound(<<>>, c, at)
    BY <1>1, <1>3, <1>8 DEF Bound
  <2> QED
    BY <2>1, <2>2, <1>8 DEF KeptTo, Held
<1>9. CASE c.strategy = "TOKEN_BUCKET"
  <2> DEFINE full == c.capacity * TokenUnits
  <2>1. ASSUME NEW x \in 0 .. ctx.lastRefill - 1
        PROVE  Among(<<>>, x, now) * TokenUnits + ctx.tokens
                 <= full + (ctx.lastRefill - 1 - x) * c.refill
    <3>1. ctx.lastRefill - 1 - x \in Nat
      BY <1>1
    <3>2. (ctx.lastRefill - 1 - x) * c.refill \in Int /\ (ctx.lastRefill - 1 - x) * c.refill >= 0
      BY <3>1, <1>6
    <3>3. ctx.tokens <= full /\ full \in Int
      BY <1>5, <1>9
    <3> HIDE DEF full
    <3> QED
      BY <1>1, <1>4, <3>2, <3>3
  <2>2. BucketHeld(<<>>, ctx, c, now)
    BY <2>1, <1>2 DEF BucketHeld
  <2>3. ASSUME NEW at \in 1 .. now, NEW w \in 1 .. at
        PROVE  Among(<<>>, at - w, at) * TokenUnits <= full + (w - 1) * c.refill
    <3>1. w - 1 \in Nat
      OBVIOUS
    <3>2. (w - 1) * c.refill \in Int /\ (w - 1) * c.refill >= 0
      BY <3>1, <1>6
    <3>3. full \in Int /\ full >= 0
      BY <1>5
    <3> HIDE DEF full
    <3> QED
      BY <1>4, <3>2, <3>3
  <2>4. \A at \in 1 .. now : Bound(<<>>, c, at)
    BY <2>3, <1>9 DEF Bound
  <2> QED
    BY <2>2, <2>4, <1>9 DEF KeptTo, Held
<1> QED
  BY <1>7, <1>8, <1>9 DEF Config

\* A call that is let through, or not.
LEMMA AcquireKeeps ==
  ASSUME NEW now \in 1 .. Period, NEW s \in Seq(1 .. now), NEW ctx \in Context(now),
         NEW c \in Config, NEW d \in Config, KeptTo(s, ctx, c, now), Suits(c, d)
  PROVE  LET tried == Acquire(ctx, d, now)
         IN  /\ KeptTo(s, tried.ctx, c, now)
             /\ tried.acquired /\ d = c => KeptTo(Append(s, now), tried.ctx, c, now)
<1> DEFINE tried == Acquire(ctx, d, now)
<1>1. /\ now \in Nat \ {0} /\ now \in Nat /\ now \in 1 .. now /\ now <= Period
      /\ Append(s, now) \in Seq(1 .. now)
  BY RateLimiterAssumption
<1>2. /\ tried.ctx \in Context(now)
      /\ Held(s, tried.ctx, c, now)
      /\ tried.acquired /\ d = c => Held(Append(s, now), tried.ctx, c, now)
  BY <1>1, Acquires DEF KeptTo
<1> HIDE DEF tried
<1>3. ASSUME tried.acquired, d = c
      PROVE  KeptTo(Append(s, now), tried.ctx, c, now)
  <2>1. Bound(Append(s, now), c, now)
    BY <1>1, <1>2, <1>3, BoundNow
  <2>2. \A at \in 1 .. now : at # now => Bound(Append(s, now), c, at)
    BY <1>1, BoundBefore DEF KeptTo
  <2> QED
    BY <2>1, <2>2, <1>2, <1>3 DEF KeptTo
<1> QED
  BY <1>2, <1>3 DEF KeptTo, tried

\* Time passes.
LEMMA TickKeeps ==
  ASSUME NEW now \in Nat \ {0}, NEW s \in Seq(1 .. now), NEW ctx \in Context(now), NEW c \in Config,
         KeptTo(s, ctx, c, now)
  PROVE  KeptTo(s, ctx, c, now + 1)
<1>1. /\ s \in Seq(Nat) /\ \A i \in DOMAIN s : s[i] \in Nat /\ 1 <= s[i] /\ s[i] <= now
      /\ ctx.sliding \in Seq(1 .. now) /\ c.window \in Nat /\ c.capacity \in Nat
      /\ ctx.count \in Nat /\ ctx.tokens \in Nat
  BY ContextIs DEF Config
<1>2. /\ ctx.sliding \in Seq(Nat)
      /\ \A i \in DOMAIN ctx.sliding : ctx.sliding[i] \in Nat /\ ctx.sliding[i] <= now
  BY <1>1
<1>3. ASSUME NEW x PROVE Among(s, x, now + 1) = Among(s, x, now)
  <2>1. {i \in DOMAIN s : x < s[i] /\ s[i] <= now + 1} = {i \in DOMAIN s : x < s[i] /\ s[i] <= now}
    BY <1>1
  <2> QED
    BY <2>1 DEF Among
<1>4. ASSUME NEW x PROVE Among(ctx.sliding, x, now + 1) = Among(ctx.sliding, x, now)
  <2> DEFINE t == ctx.sliding
  <2>1. {i \in DOMAIN t : x < t[i] /\ t[i] <= now + 1} = {i \in DOMAIN t : x < t[i] /\ t[i] <= now}
    BY <1>2
  <2> QED
    BY <2>1 DEF Among
<1>5. Held(s, ctx, c, now + 1)
  <2>1. CASE c.strategy = "SLIDING_WINDOW"
    <3>1. SlidingHeld(s, ctx, c, now)
      BY <2>1 DEF KeptTo, Held
    <3>2. Among(s, (now + 1) - c.window, now) <= Among(s, now - c.window, now)
      BY <1>1, AmongMore
    <3>3. Among(s, (now + 1) - c.window, now) \in Nat /\ Among(s, now - c.window, now) \in Nat
      BY <1>1, AmongIsFinite
    <3>4. Among(s, (now + 1) - c.window, now + 1) <= c.capacity
      BY <3>1, <3>2, <3>3, <1>1, <1>3 DEF SlidingHeld
    <3>5. \A x \in Int : x >= (now + 1) - c.window =>
              Among(s, x, now + 1) <= Among(ctx.sliding, x, now + 1)
      <4> TAKE x \in Int
      <4> HAVE x >= (now + 1) - c.window
      <4>1. x >= now - c.window
        BY <1>1
      <4> QED
        BY <4>1, <3>1, <1>3, <1>4 DEF SlidingHeld
    <3> QED
      BY <3>4, <3>5, <2>1 DEF SlidingHeld, Held
  <2>2. CASE c.strategy = "FIXED_WINDOW"
    BY <2>2, <1>3 DEF KeptTo, Held, FixedHeld
  <2>3. CASE c.strategy = "TOKEN_BUCKET"
    BY <2>3, <1>3 DEF KeptTo, Held, BucketHeld
  <2> QED
    BY <2>1, <2>2, <2>3 DEF Config
<1>6. s \in Seq(1 .. now + 1) /\ ctx \in Context(now + 1) /\ now + 1 \in Nat \ {0}
  <2>1. 1 .. now \subseteq 1 .. now + 1 /\ 0 .. now \subseteq 0 .. now + 1
    OBVIOUS
  <2>2. s \in Seq(1 .. now + 1) /\ ctx.sliding \in Seq(1 .. now + 1)
    BY <1>1, <2>1
  <2> QED
    BY <2>1, <2>2 DEF Context
<1>7. Bound(s, c, now + 1)
  BY <1>5, <1>6, BoundNow
<1> QED
  BY <1>5, <1>7 DEF KeptTo

\* The keys that are remembered.
LEMMA WithIs ==
  ASSUME NEW f, NEW k, NEW v
  PROVE  /\ DOMAIN With(f, k, v) = DOMAIN f \cup {k}
         /\ \A j \in DOMAIN f \cup {k} : With(f, k, v)[j] = IF j = k THEN v ELSE f[j]
         /\ \A j : ContextOf(With(f, k, v), j) = IF j = k THEN v ELSE ContextOf(f, j)
BY DEF With, ContextOf

\* What remains when one key is forgotten.
LEMMA WithoutIs ==
  ASSUME NEW f, NEW k
  PROVE  /\ DOMAIN Without(f, k) = DOMAIN f \ {k}
         /\ \A j \in DOMAIN f \ {k} : Without(f, k)[j] = f[j]
BY DEF Without, Restrict

\* A part of what is remembered.
PartOf(g, f) == DOMAIN g \subseteq DOMAIN f /\ \A j \in DOMAIN g : g[j] = f[j]

\* EvictIfNeeded leaves a part.
LEMMA EvictIs ==
  ASSUME NEW f, NEW kept \in EvictIfNeeded(f)
  PROVE  PartOf(kept, f)
<1>1. CASE kept = f
  BY <1>1 DEF PartOf
<1>2. CASE \E k \in DOMAIN f : kept = Without(f, k)
  <2>1. PICK k \in DOMAIN f : kept = Without(f, k)
    BY <1>2
  <2> DEFINE g == Without(f, k)
  <2>2. DOMAIN g = DOMAIN f \ {k} /\ \A j \in DOMAIN f \ {k} : g[j] = f[j]
    BY WithoutIs
  <2> HIDE DEF g
  <2>3. PartOf(g, f)
    BY <2>2 DEF PartOf
  <2> QED
    BY <2>1, <2>3 DEF g
<1> QED
  BY <1>1, <1>2 DEF EvictIfNeeded

\* The record goes with the contexts.
LEMMA RecordIs ==
  ASSUME LimiterTypeOK, NEW kept, PartOf(kept, contexts)
  PROVE  /\ DOMAIN kept \subseteq Keys /\ \A k \in DOMAIN kept : kept[k] \in Context(clock)
         /\ DOMAIN Record(kept) = Keys
         /\ \A k \in Keys :
              /\ Record(kept)[k] = (IF k \in DOMAIN kept THEN admitted[k] ELSE <<>>)
              /\ Record(kept)[k] \in Seq(1 .. clock)
              /\ ContextOf(kept, k) \in Context(clock)
<1>1. <<>> \in Seq(1 .. clock)
  OBVIOUS
<1>2. NewContext \in Context(clock)
  BY NewContextIs, RateLimiterAssumption DEF LimiterTypeOK
<1>3. /\ DOMAIN contexts \subseteq Keys /\ \A k \in DOMAIN contexts : contexts[k] \in Context(clock)
      /\ \A k \in Keys : admitted[k] \in Seq(1 .. clock)
  BY DEF LimiterTypeOK
<1>4. DOMAIN kept \subseteq Keys /\ \A k \in DOMAIN kept : kept[k] \in Context(clock)
  BY <1>3 DEF PartOf
<1>5. /\ DOMAIN Record(kept) = Keys
      /\ \A k \in Keys : Record(kept)[k] = IF k \in DOMAIN kept THEN admitted[k] ELSE <<>>
  BY DEF Record
<1>6. \A k \in Keys : Record(kept)[k] \in Seq(1 .. clock)
  BY <1>1, <1>3, <1>5
<1>7. \A k \in Keys : ContextOf(kept, k) \in Context(clock)
  BY <1>2, <1>4 DEF ContextOf
<1> QED
  BY <1>4, <1>5, <1>6, <1>7

\* A call that is under way.
LEMMA CallIs ==
  ASSUME LimiterTypeOK, NEW t \in Threads, call[t].op # "none"
  PROVE  /\ call[t] \in Call /\ call[t].key \in Keys /\ call[t].now \in 1 .. clock
         /\ call[t].level \in DOMAIN levels /\ levels[call[t].level] \in Config
<1>1. call[t] \in Call
  BY DEF LimiterTypeOK, Idle
<1> QED
  BY <1>1, LevelsAre DEF Call

\* The next level is one of the levels.
LEMMA ContinueTypes ==
  ASSUME LimiterTypeOK, NEW t \in Threads, NEW ok, call[t].op # "none", Continue(t, ok)
  PROVE  /\ DOMAIN call' = Threads
         /\ \A u \in Threads : call'[u] = Idle \/ call'[u] \in Call
<1> DEFINE next == [call[t] EXCEPT !.level = call[t].level + 1, !.now = clock]
<1>1. call[t] \in Call /\ call[t].level \in 1 .. Len(levels) /\ Len(levels) \in Nat
  BY CallIs, LevelsAre
<1>2. clock \in 1 .. clock
  BY RateLimiterAssumption DEF LimiterTypeOK
<1>3. ASSUME call[t].level < Len(levels) PROVE next \in Call
  <2>1. call[t].level + 1 \in DOMAIN levels
    BY <1>1, <1>3, LevelsAre
  <2> QED
    BY <2>1, <1>1, <1>2 DEF Call
<1>4. /\ DOMAIN call' = Threads
      /\ \A u \in Threads \ {t} : call'[u] = call[u]
      /\ call'[t] = IF ok /\ call[t].level < Len(levels) THEN next ELSE Idle
  <2>1. call' = [call EXCEPT ![t] = IF ok /\ call[t].level < Len(levels) THEN next ELSE Idle]
    BY Zenon DEF Continue
  <2>2. DOMAIN call = Threads
    BY DEF LimiterTypeOK
  <2> HIDE DEF next
  <2> QED
    BY <2>1, <2>2, Zenon
<1> HIDE DEF next
<1> QED
  BY <1>3, <1>4 DEF LimiterTypeOK

\* A call that ends.
LEMMA EndTypes ==
  ASSUME LimiterTypeOK, NEW t \in Threads, call' = [call EXCEPT ![t] = Idle]
  PROVE  /\ DOMAIN call' = Threads
         /\ \A u \in Threads : call'[u] = Idle \/ call'[u] \in Call
BY DEF LimiterTypeOK

\* The contexts with another one.
LEMMA WithTypes ==
  ASSUME LimiterTypeOK, NEW kept, PartOf(kept, contexts), NEW k \in Keys, NEW v \in Context(clock)
  PROVE  /\ DOMAIN With(kept, k, v) \subseteq Keys
         /\ \A j \in DOMAIN With(kept, k, v) : With(kept, k, v)[j] \in Context(clock)
<1>1. DOMAIN kept \subseteq Keys /\ \A j \in DOMAIN kept : kept[j] \in Context(clock)
  BY RecordIs
<1> DEFINE g == With(kept, k, v)
<1>2. /\ DOMAIN g = DOMAIN kept \cup {k}
      /\ \A j \in DOMAIN kept \cup {k} : g[j] = IF j = k THEN v ELSE kept[j]
  BY DEF With
<1> HIDE DEF g
<1>3. DOMAIN g \subseteq Keys /\ \A j \in DOMAIN g : g[j] \in Context(clock)
  BY <1>1, <1>2
<1> QED
  BY <1>3 DEF g

\* The operations keep to the types, one by one.
LEMMA StartTypes ==
  ASSUME LimiterTypeOK, NEW t \in Threads, NEW op \in {"acquire", "debounce", "warmup", "quota"},
         NEW k \in Keys, Start(t, op, k)
  PROVE  LimiterTypeOK'
<1> DEFINE new == [op |-> op, key |-> k, now |-> clock, level |-> 1]
<1>1. new \in Call
  <2>1. clock \in 1 .. clock /\ 1 \in DOMAIN levels
    BY LevelsAre, RateLimiterAssumption DEF LimiterTypeOK
  <2> QED
    BY <2>1 DEF Call
<1>2. /\ DOMAIN call' = Threads
      /\ \A u \in Threads : call'[u] = IF u = t THEN new ELSE call[u]
  BY DEF Start, LimiterTypeOK
<1>3. calls' \in Nat
  BY DEF Start, Count, LimiterTypeOK
<1> HIDE DEF new
<1> QED
  BY <1>1, <1>2, <1>3 DEF Start, LimiterTypeOK, Call, Context

\* A key on a list.
LEMMA ListedTypes ==
  ASSUME LimiterTypeOK, NEW t \in Threads, TryAcquireListed(t)
  PROVE  LimiterTypeOK'
<1>1. /\ DOMAIN call' = Threads
      /\ \A u \in Threads : call'[u] = Idle \/ call'[u] \in Call
  BY ContinueTypes DEF TryAcquireListed
<1>2. overtaken' \in BOOLEAN /\ UNCHANGED <<contexts, admitted, blocklist, allowlist, clock, levels, calls>>
  BY DEF TryAcquireListed, Finish, LimiterTypeOK
<1> QED
  BY <1>1, <1>2 DEF LimiterTypeOK, Call, Context

\* The context after a level, with the time it was last asked for.
LEMMA TriedIs ==
  ASSUME LimiterTypeOK, NEW t \in Threads, TryAcquire(t)
  PROVE  \E kept \in EvictIfNeeded(contexts) :
           LET k == call[t].key
               tried == Acquire(ContextOf(kept, k), levels[call[t].level], call[t].now)
               new == [tried.ctx EXCEPT !.last = call[t].now]
           IN  /\ PartOf(kept, contexts) /\ k \in Keys /\ new \in Context(clock)
               /\ contexts' = With(kept, k, new)
               /\ DOMAIN admitted' = Keys
               /\ \A j \in Keys : j # k => admitted'[j] = Record(kept)[j]
               /\ admitted'[k] = IF tried.acquired /\ levels[call[t].level] \in Strictest
                                 THEN Append(Record(kept)[k], clock) ELSE Record(kept)[k]
               /\ Continue(t, tried.acquired)
<1> USE DEF TryAcquire
<1>1. /\ call[t].key \in Keys /\ call[t].now \in 1 .. clock
      /\ levels[call[t].level] \in Config /\ clock \in Nat
  BY CallIs, RateLimiterAssumption DEF LimiterTypeOK
<1> DEFINE k == call[t].key
           tried(kept) == Acquire(ContextOf(kept, k), levels[call[t].level], call[t].now)
           new(kept) == [tried(kept).ctx EXCEPT !.last = call[t].now]
<1>2. PICK kept \in EvictIfNeeded(contexts) :
        /\ contexts' = With(kept, k, new(kept))
        /\ admitted' = IF tried(kept).acquired /\ levels[call[t].level] \in Strictest
                       THEN [Record(kept) EXCEPT ![k] = Append(@, clock)] ELSE Record(kept)
        /\ Continue(t, tried(kept).acquired)
  OBVIOUS
<1> HIDE DEF TryAcquire
<1>3. PartOf(kept, contexts)
  BY EvictIs
<1>4. DOMAIN Record(kept) = Keys /\ ContextOf(kept, k) \in Context(clock)
  BY <1>1, <1>3, RecordIs
<1>5. tried(kept).ctx \in Context(clock)
  BY <1>1, <1>4, Acquires
<1>6. new(kept) \in Context(clock)
  <2> DEFINE ctx == tried(kept).ctx
  <2>1. call[t].now \in 0 .. clock
    BY <1>1
  <2>2. ctx \in Context(clock)
    BY <1>5
  <2> HIDE DEF tried, ctx
  <2>3. [ctx EXCEPT !.last = call[t].now] \in Context(clock)
    BY <2>1, <2>2 DEF Context
  <2> QED
    BY <2>3 DEF ctx
<1> HIDE DEF tried, new
<1>7. /\ DOMAIN admitted' = Keys
      /\ \A j \in Keys : j # k => admitted'[j] = Record(kept)[j]
      /\ admitted'[k] = IF tried(kept).acquired /\ levels[call[t].level] \in Strictest
                        THEN Append(Record(kept)[k], clock) ELSE Record(kept)[k]
  BY <1>1, <1>2, <1>4
<1> QED
  BY <1>1, <1>2, <1>3, <1>6, <1>7 DEF tried, new

\* One level of TryAcquire.
LEMMA TryAcquireTypes ==
  ASSUME LimiterTypeOK, NEW t \in Threads, TryAcquire(t)
  PROVE  LimiterTypeOK'
<1> DEFINE k == call[t].key
           tried(kept) == Acquire(ContextOf(kept, k), levels[call[t].level], call[t].now)
           new(kept) == [tried(kept).ctx EXCEPT !.last = call[t].now]
<1>1. PICK kept \in EvictIfNeeded(contexts) :
        /\ PartOf(kept, contexts) /\ k \in Keys /\ new(kept) \in Context(clock)
        /\ contexts' = With(kept, k, new(kept))
        /\ DOMAIN admitted' = Keys
        /\ \A j \in Keys : j # k => admitted'[j] = Record(kept)[j]
        /\ admitted'[k] = IF tried(kept).acquired /\ levels[call[t].level] \in Strictest
                          THEN Append(Record(kept)[k], clock) ELSE Record(kept)[k]
        /\ Continue(t, tried(kept).acquired)
  BY TriedIs
<1> HIDE DEF k, tried, new
<1>2. call[t].op # "none"
  BY DEF TryAcquire
<1>3. /\ DOMAIN call' = Threads
      /\ \A u \in Threads : call'[u] = Idle \/ call'[u] \in Call
  BY <1>1, <1>2, ContinueTypes
<1>4. overtaken' \in BOOLEAN /\ UNCHANGED <<blocklist, allowlist, clock, levels, calls>>
  BY DEF TryAcquire, Finish, LimiterTypeOK
<1>5. /\ DOMAIN contexts' \subseteq Keys
      /\ DOMAIN contexts' = DOMAIN kept \cup {k}
      /\ \A j \in DOMAIN contexts' : contexts'[j] \in Context(clock)
  BY <1>1, WithTypes, WithIs
<1>6. clock \in 1 .. clock
  BY RateLimiterAssumption DEF LimiterTypeOK
<1>7. \A j \in Keys : admitted'[j] \in Seq(1 .. clock)
  BY <1>1, <1>6, RecordIs
<1>8. \A j \in Keys \ DOMAIN contexts' : admitted'[j] = <<>>
  BY <1>1, <1>5, RecordIs
<1> QED
  BY <1>3, <1>4, <1>5, <1>1, <1>7, <1>8 DEF LimiterTypeOK, Call, Context

\* A call that lets nothing through.
LEMMA PutTypes ==
  ASSUME LimiterTypeOK, NEW t \in Threads, NEW k \in Keys, NEW v \in Context(clock), Finish(t),
         contexts' = With(contexts, k, v), call' = [call EXCEPT ![t] = Idle],
         admitted' \in {admitted, [admitted EXCEPT ![k] = <<>>]}
  PROVE  LimiterTypeOK'
<1>1. /\ DOMAIN call' = Threads
      /\ \A u \in Threads : call'[u] = Idle \/ call'[u] \in Call
  BY EndTypes
<1>2. overtaken' \in BOOLEAN /\ UNCHANGED <<blocklist, allowlist, clock, levels, calls>>
  BY DEF Finish, LimiterTypeOK
<1>3. PartOf(contexts, contexts)
  BY DEF PartOf
<1>4. /\ DOMAIN contexts' \subseteq Keys /\ \A j \in DOMAIN contexts' : contexts'[j] \in Context(clock)
      /\ DOMAIN contexts \subseteq DOMAIN contexts'
  <2>1. DOMAIN contexts' \subseteq Keys /\ \A j \in DOMAIN contexts' : contexts'[j] \in Context(clock)
    BY <1>3, WithTypes
  <2>2. DOMAIN contexts' = DOMAIN contexts \cup {k}
    BY WithIs
  <2> QED
    BY <2>1, <2>2
<1>5. <<>> \in Seq(1 .. clock)
  OBVIOUS
<1>6. /\ DOMAIN admitted' = Keys
      /\ \A j \in Keys : admitted'[j] = admitted[j] \/ admitted'[j] = <<>>
  BY DEF LimiterTypeOK
<1> QED
  BY <1>1, <1>2, <1>4, <1>5, <1>6 DEF LimiterTypeOK, Call, Context

\* ShouldDebounce.
LEMMA DebounceTypes ==
  ASSUME LimiterTypeOK, NEW t \in Threads, ShouldDebounce(t)
  PROVE  LimiterTypeOK'
<1> DEFINE k == call[t].key
           ctx == ContextOf(contexts, k)
           new == [ctx EXCEPT !.lastTrigger = call[t].now]
<1>1. k \in Keys /\ call[t].now \in 0 .. clock /\ clock \in Nat
  BY CallIs, RateLimiterAssumption DEF ShouldDebounce, LimiterTypeOK
<1>2. ctx \in Context(clock)
  BY <1>1, ContextOfIs
<1>3. /\ contexts' = With(contexts, k, new) /\ call' = [call EXCEPT ![t] = Idle]
      /\ Finish(t) /\ admitted' = admitted
  BY DEF ShouldDebounce
<1> HIDE DEF k, ctx
<1>4. new \in Context(clock)
  BY <1>1, <1>2 DEF Context
<1> HIDE DEF new
<1> QED
  BY <1>1, <1>3, <1>4, PutTypes

\* What Warmup does, under a bucket and under another strategy.
LEMMA WarmIs ==
  ASSUME LimiterTypeOK, NEW t \in Threads, Warmup(t)
  PROVE  LET k == call[t].key
             ctx == ContextOf(contexts, k)
             bucket == levels[1].strategy = "TOKEN_BUCKET"
         IN  /\ k \in Keys /\ levels[1] \in Config
             /\ bucket => \E warm \in Context(clock) :
                            /\ warm.tokens = levels[1].capacity * TokenUnits
                            /\ contexts' = With(contexts, k, warm)
                            /\ admitted' = [admitted EXCEPT ![k] = <<>>]
             /\ ~bucket => contexts' = With(contexts, k, ctx) /\ admitted' = admitted
<1> DEFINE k == call[t].key
           ctx == ContextOf(contexts, k)
           full == levels[1].capacity * TokenUnits
           warm == [ctx EXCEPT !.tokens = full, !.lastRefill = call[t].now]
           bucket == levels[1].strategy = "TOKEN_BUCKET"
<1>1. k \in Keys /\ call[t].now \in 0 .. clock /\ clock \in Nat
  BY CallIs, RateLimiterAssumption DEF Warmup, LimiterTypeOK
<1>2. ctx \in Context(clock)
  BY <1>1, ContextOfIs
<1>3. levels[1] \in Config
  BY LevelsAre
<1>4. /\ contexts' = With(contexts, k, IF bucket THEN warm ELSE ctx)
      /\ admitted' = IF bucket THEN [admitted EXCEPT ![k] = <<>>] ELSE admitted
  BY DEF Warmup
<1>5. full \in Nat
  <2>1. levels[1].capacity \in Nat /\ levels[1].capacity \in Int /\ levels[1].capacity >= 0
    BY <1>3 DEF Config
  <2>2. TokenUnits \in Nat
    BY RateLimiterAssumption
  <2> QED
    BY <2>1, <2>2, Products
<1> HIDE DEF k, ctx, full
<1>6. warm \in Context(clock) /\ warm.tokens = full
  BY <1>1, <1>2, <1>5 DEF Context
<1> HIDE DEF warm, bucket
<1>7. bucket => contexts' = With(contexts, k, warm) /\ admitted' = [admitted EXCEPT ![k] = <<>>]
  BY <1>4
<1>8. ~bucket => contexts' = With(contexts, k, ctx) /\ admitted' = admitted
  BY <1>4
<1> QED
  BY <1>1, <1>3, <1>6, <1>7, <1>8 DEF k, ctx, full, bucket

\* Warmup.
LEMMA WarmupTypes ==
  ASSUME LimiterTypeOK, NEW t \in Threads, Warmup(t)
  PROVE  LimiterTypeOK'
<1> DEFINE k == call[t].key
<1>1. \E v \in Context(clock) : /\ contexts' = With(contexts, k, v) /\ k \in Keys
                                /\ admitted' \in {admitted, [admitted EXCEPT ![k] = <<>>]}
  BY WarmIs, ContextOfIs
<1>2. call' = [call EXCEPT ![t] = Idle] /\ Finish(t)
  BY DEF Warmup
<1> HIDE DEF k
<1> QED
  BY <1>1, <1>2, PutTypes

\* GetRemainingQuota.
LEMMA AskQuotaTypes ==
  ASSUME LimiterTypeOK, NEW t \in Threads, AskQuota(t)
  PROVE  LimiterTypeOK'
<1> DEFINE k == call[t].key
           new == GetRemainingQuota(contexts[k], levels[1], call[t].now).ctx
<1>1. k \in Keys /\ call[t].now \in 1 .. clock /\ clock \in Nat
  BY CallIs, RateLimiterAssumption DEF AskQuota, LimiterTypeOK
<1>2. /\ contexts' = IF k \in DOMAIN contexts THEN [contexts EXCEPT ![k] = new] ELSE contexts
      /\ call' = [call EXCEPT ![t] = Idle] /\ Finish(t) /\ admitted' = admitted
  BY DEF AskQuota
<1>3. k \in DOMAIN contexts => new \in Context(clock)
  BY <1>1, Asks, LevelsAre DEF LimiterTypeOK
<1> HIDE DEF k, new
<1>4. /\ DOMAIN contexts' = DOMAIN contexts
      /\ \A j \in DOMAIN contexts : contexts'[j] = contexts[j] \/ (j = k /\ contexts'[j] = new)
  BY <1>2
<1>5. \A j \in DOMAIN contexts' : contexts'[j] \in Context(clock)
  BY <1>3, <1>4 DEF LimiterTypeOK
<1>6. /\ DOMAIN call' = Threads
      /\ \A u \in Threads : call'[u] = Idle \/ call'[u] \in Call
  BY <1>2, EndTypes
<1>7. overtaken' \in BOOLEAN /\ UNCHANGED <<blocklist, allowlist, clock, levels, calls>>
  BY <1>2 DEF Finish, LimiterTypeOK
<1> QED
  BY <1>2, <1>4, <1>5, <1>6, <1>7 DEF LimiterTypeOK, Call, Context

\* Contexts that are given up.
LEMMA ForgetTypes ==
  ASSUME LimiterTypeOK, NEW kept, PartOf(kept, contexts), contexts' = kept, admitted' = Record(kept),
         Count, UNCHANGED <<clock, call, levels, overtaken>>,
         blocklist' \subseteq Keys, allowlist' \subseteq Keys
  PROVE  LimiterTypeOK'
<1>1. calls' \in Nat
  BY DEF Count, LimiterTypeOK
<1>2. /\ DOMAIN contexts' \subseteq Keys /\ \A k \in DOMAIN contexts' : contexts'[k] \in Context(clock)
      /\ DOMAIN admitted' = Keys
      /\ \A k \in Keys : /\ admitted'[k] \in Seq(1 .. clock)
                         /\ k \notin DOMAIN contexts' => admitted'[k] = <<>>
  BY RecordIs
<1> QED
  BY <1>1, <1>2 DEF LimiterTypeOK, Call, Context

\* Reset leaves a part.
LEMMA WithoutIsPart ==
  ASSUME NEW f, NEW k
  PROVE  PartOf(Without(f, k), f)
<1> DEFINE g == Without(f, k)
<1>1. DOMAIN g = DOMAIN f \ {k} /\ \A j \in DOMAIN f \ {k} : g[j] = f[j]
  BY WithoutIs
<1> HIDE DEF g
<1>2. PartOf(g, f)
  BY <1>1 DEF PartOf
<1> QED
  BY <1>2 DEF g

\* The lists of keys.
LEMMA ListsTypes ==
  ASSUME LimiterTypeOK, NEW k \in Keys, ChangeLists(k)
  PROVE  LimiterTypeOK'
<1>1. calls' \in Nat
  BY DEF ChangeLists, Count, LimiterTypeOK
<1>2. blocklist' \subseteq Keys /\ allowlist' \subseteq Keys
  BY DEF ChangeLists, LimiterTypeOK
<1> QED
  BY <1>1, <1>2 DEF ChangeLists, LimiterTypeOK, Call, Context

\* What is a time now is one later.
LEMMA LaterTypes ==
  ASSUME NEW now \in Nat
  PROVE  /\ Context(now) \subseteq Context(now + 1) /\ Seq(1 .. now) \subseteq Seq(1 .. now + 1)
         /\ 1 .. now \subseteq 1 .. now + 1
<1>1. 1 .. now \subseteq 1 .. now + 1 /\ 0 .. now \subseteq 0 .. now + 1
  OBVIOUS
<1>2. Seq(1 .. now) \subseteq Seq(1 .. now + 1)
  BY <1>1
<1>3. ASSUME NEW ctx \in Context(now) PROVE ctx \in Context(now + 1)
  BY <1>1, <1>2 DEF Context
<1> QED
  BY <1>1, <1>2, <1>3

\* The clock.
LEMMA TickTypes ==
  ASSUME LimiterTypeOK, LimiterTick
  PROVE  LimiterTypeOK'
<1>1. clock \in Nat /\ clock' = clock + 1 /\ clock' \in 1 .. Period
  BY RateLimiterAssumption DEF LimiterTick, LimiterTypeOK
<1>2. /\ Context(clock) \subseteq Context(clock') /\ Seq(1 .. clock) \subseteq Seq(1 .. clock')
      /\ 1 .. clock \subseteq 1 .. clock'
  BY <1>1, LaterTypes
<1>3. UNCHANGED <<contexts, blocklist, allowlist, call, levels, calls, admitted, overtaken>>
  BY DEF LimiterTick
<1>4. \A t \in Threads : call'[t] = Idle \/ call'[t] \in Call'
  <2>1. Call \subseteq Call'
    BY <1>2, <1>3 DEF Call
  <2> QED
    BY <2>1, <1>3 DEF LimiterTypeOK
<1>5. \A k \in DOMAIN contexts' : contexts'[k] \in Context(clock)'
  BY <1>2, <1>3 DEF LimiterTypeOK, Context
<1>6. \A k \in Keys : admitted'[k] \in Seq(1 .. clock)'
  BY <1>2, <1>3 DEF LimiterTypeOK
<1> QED
  BY <1>1, <1>3, <1>4, <1>5, <1>6 DEF LimiterTypeOK

\* At first.
LEMMA InitTypes == LimiterInit => LimiterTypeOK
<1> SUFFICES ASSUME LimiterInit PROVE LimiterTypeOK
  OBVIOUS
<1>1. clock \in 1 .. Period
  BY RateLimiterAssumption DEF LimiterInit
<1>2. <<>> \in Seq(1 .. clock) /\ DOMAIN <<>> = {}
  OBVIOUS
<1> QED
  BY <1>1, <1>2 DEF LimiterInit, LimiterTypeOK

\* Every step.
LEMMA StepTypes == LimiterTypeOK /\ [LimiterNext]_limiterVars => LimiterTypeOK'
<1> SUFFICES ASSUME LimiterTypeOK, [LimiterNext]_limiterVars PROVE LimiterTypeOK'
  OBVIOUS
<1>1. CASE LimiterTick
  BY <1>1, TickTypes
<1>2. CASE LimiterClearAll
  <2>1. PartOf(<<>>, contexts)
    BY DEF PartOf
  <2> QED
    BY <1>2, <2>1, ForgetTypes DEF LimiterClearAll
<1>3. ASSUME NEW k \in Keys, Reset(k) PROVE LimiterTypeOK'
  BY <1>3, WithoutIsPart, ForgetTypes DEF Reset, LimiterTypeOK
<1>4. ASSUME NEW k \in Keys, ChangeLists(k) PROVE LimiterTypeOK'
  BY <1>4, ListsTypes
<1>5. ASSUME NEW t \in Threads, NEW op \in {"acquire", "debounce", "warmup", "quota"},
             NEW k \in Keys, Start(t, op, k)
      PROVE  LimiterTypeOK'
  BY <1>5, StartTypes
<1>6. ASSUME NEW t \in Threads,
             \/ TryAcquireListed(t) \/ TryAcquire(t) \/ ShouldDebounce(t) \/ Warmup(t) \/ AskQuota(t)
      PROVE  LimiterTypeOK'
  BY <1>6, ListedTypes, TryAcquireTypes, DebounceTypes, WarmupTypes, AskQuotaTypes
<1>7. CASE UNCHANGED limiterVars
  BY <1>7 DEF limiterVars, LimiterTypeOK, Call, Context
<1> QED
  BY <1>1, <1>2, <1>3, <1>4, <1>5, <1>6, <1>7 DEF LimiterNext

\* The times a context holds are never later than the clock, a call is at one of its
\* levels, and a key that is not remembered has nothing recorded: of every operation of
\* selection_rate_limiter.cpp, for every list of levels, number of keys and of threads.
THEOREM LimiterTypeCorrect == LimiterSpec => []LimiterTypeOK
BY InitTypes, StepTypes, PTL DEF LimiterSpec

\* The strictest level of what is checked before it, and the times it takes.
LEMMA LevelOfCall ==
  ASSUME LevelsAreOrdered, LimiterTypeOK
  PROVE  /\ clock \in Nat \ {0} /\ clock \in 1 .. Period /\ clock \in Nat /\ clock \in 1 .. clock
         /\ \A c \in Strictest : /\ c \in Config
                                 /\ \A i \in DOMAIN levels : Suits(c, levels[i])
                                 /\ \A i \in DOMAIN levels :
                                      levels[i] \in Strictest => levels[i] = c
BY OneStrictest, RateLimiterAssumption DEF LimiterTypeOK

\* What is forgotten is kept to, and what remains is as it was.
LEMMA PartIsKept ==
  ASSUME LevelsAreOrdered, LimiterInv, ~overtaken, NEW kept, PartOf(kept, contexts),
         NEW k \in Keys, NEW c \in Strictest
  PROVE  /\ KeptTo(Record(kept)[k], ContextOf(kept, k), c, clock)
         /\ Record(kept)[k] \in Seq(1 .. clock) /\ ContextOf(kept, k) \in Context(clock)
<1>1. LimiterTypeOK /\ c \in Config /\ clock \in Nat \ {0} /\ clock \in Nat
  BY LevelOfCall DEF LimiterInv
<1>2. /\ Record(kept)[k] = (IF k \in DOMAIN kept THEN admitted[k] ELSE <<>>)
      /\ Record(kept)[k] \in Seq(1 .. clock) /\ ContextOf(kept, k) \in Context(clock)
  BY <1>1, RecordIs
<1>3. CASE k \in DOMAIN kept
  <2>1. ContextOf(kept, k) = ContextOf(contexts, k)
    BY <1>3 DEF PartOf, ContextOf
  <2>2. KeptTo(admitted[k], ContextOf(contexts, k), c, clock)
    BY DEF LimiterInv, LimitsAreKept
  <2> QED
    BY <1>2, <1>3, <2>1, <2>2
<1>4. CASE k \notin DOMAIN kept
  <2>1. ContextOf(kept, k) = NewContext
    BY <1>4 DEF ContextOf
  <2>2. NewContext \in Context(clock) /\ NewContext.tokens = 0
    BY <1>1, NewContextIs
  <2>3. c.capacity * TokenUnits >= 0
    <3>1. c.capacity \in Int /\ c.capacity >= 0 /\ TokenUnits \in Nat
      BY <1>1, RateLimiterAssumption DEF Config
    <3> QED
      BY <3>1, Products
  <2>4. KeptTo(<<>>, NewContext, c, clock)
    BY <1>1, <2>2, <2>3, FreshIsKept
  <2> QED
    BY <1>2, <1>4, <2>1, <2>4
<1> QED
  BY <1>2, <1>3, <1>4

\* A call that has not been overtaken uses the present time.
LEMMA InTime ==
  ASSUME NEW t \in Threads, Finish(t), ~overtaken', LimiterTypeOK
  PROVE  /\ ~overtaken /\ call[t].now = clock /\ clock' = clock /\ levels' = levels
         /\ Strictest' = Strictest
<1>1. ~overtaken /\ call[t].now = clock
  BY DEF Finish, LimiterTypeOK
<1> QED
  BY <1>1 DEF Finish, Strictest

\* The operations keep to the limits, one by one: TryAcquire.
LEMMA TryAcquireKeepsAll ==
  ASSUME LevelsAreOrdered, LimiterInv, NEW t \in Threads, TryAcquire(t)
  PROVE  LimitsAreKept'
<1> SUFFICES ASSUME ~overtaken', NEW j \in Keys, NEW c \in Strictest'
             PROVE  KeptTo(admitted'[j], ContextOf(contexts, j)', c, clock')
  BY DEF LimitsAreKept
<1>1. LimiterTypeOK /\ call[t].op # "none" /\ Finish(t)
  BY DEF LimiterInv, TryAcquire
<1>2. ~overtaken /\ call[t].now = clock /\ clock' = clock /\ c \in Strictest
  BY <1>1, InTime
<1> DEFINE k == call[t].key
           d == levels[call[t].level]
           tried(kept) == Acquire(ContextOf(kept, k), d, clock)
           new(kept) == [tried(kept).ctx EXCEPT !.last = clock]
<1>3. PICK kept \in EvictIfNeeded(contexts) :
        /\ PartOf(kept, contexts) /\ k \in Keys
        /\ contexts' = With(kept, k, new(kept))
        /\ \A i \in Keys : i # k => admitted'[i] = Record(kept)[i]
        /\ admitted'[k] = IF tried(kept).acquired /\ d \in Strictest
                          THEN Append(Record(kept)[k], clock) ELSE Record(kept)[k]
  BY <1>1, <1>2, TriedIs
<1>4. /\ d \in Config /\ Suits(c, d) /\ (d \in Strictest => d = c) /\ c \in Config
      /\ clock \in Nat /\ clock \in 1 .. Period /\ clock \in 1 .. clock
  BY <1>1, <1>2, CallIs, LevelOfCall
<1>5. \A i \in Keys : /\ KeptTo(Record(kept)[i], ContextOf(kept, i), c, clock)
                      /\ Record(kept)[i] \in Seq(1 .. clock) /\ ContextOf(kept, i) \in Context(clock)
  BY <1>2, <1>3, PartIsKept
<1>6. ContextOf(contexts, j)' = IF j = k THEN new(kept) ELSE ContextOf(kept, j)
  <2> DEFINE g == With(kept, k, new(kept))
  <2>1. ContextOf(g, j) = IF j = k THEN new(kept) ELSE ContextOf(kept, j)
    BY DEF With, ContextOf
  <2>2. contexts' = g
    BY <1>3
  <2> HIDE DEF g
  <2>3. ContextOf(contexts, j)' = ContextOf(g, j)
    BY <2>2 DEF ContextOf
  <2> QED
    BY <2>1, <2>3
<1>7. CASE j # k
  BY <1>2, <1>3, <1>5, <1>6, <1>7
<1>8. CASE j = k
  <2> DEFINE s == Record(kept)[k]
             ctx == ContextOf(kept, k)
             after == tried(kept).ctx
             ok == tried(kept).acquired
  <2>1. /\ KeptTo(s, ctx, c, clock) /\ s \in Seq(1 .. clock) /\ ctx \in Context(clock)
    BY <1>3, <1>5
  <2>2. after \in Context(clock)
    BY <1>4, <2>1, Acquires
  <2>3. /\ KeptTo(s, after, c, clock)
        /\ ok /\ d = c => KeptTo(Append(s, clock), after, c, clock)
    BY <1>4, <2>1, AcquireKeeps
  <2>4. admitted'[k] = IF ok /\ d \in Strictest THEN Append(s, clock) ELSE s
    BY <1>3
  <2>5. ContextOf(contexts, j)' = [after EXCEPT !.last = clock]
    BY <1>6, <1>8
  <2> HIDE DEF s, ctx, after, ok, k, d, tried
  <2>6. KeptTo(admitted'[k], after, c, clock)
    BY <2>3, <2>4, <1>4
  <2> DEFINE res == [after EXCEPT !.last = clock]
  <2>7. /\ res.sliding = after.sliding /\ res.windowStart = after.windowStart
        /\ res.count = after.count /\ res.tokens = after.tokens /\ res.lastRefill = after.lastRefill
    BY <2>2 DEF Context
  <2>8. ContextOf(contexts, j)' = res
    BY <2>5
  <2> HIDE DEF res
  <2>9. KeptTo(admitted'[k], res, c, clock)
    BY <1>4, <2>6, <2>7, HeldByFields DEF KeptTo
  <2> QED
    BY <1>2, <1>8, <2>8, <2>9
<1> QED
  BY <1>7, <1>8

\* Calls that let nothing through.
LEMMA NothingLetThrough ==
  ASSUME LevelsAreOrdered, LimiterInv, NEW t \in Threads, Finish(t), NEW k \in Keys, NEW v,
         contexts' = With(contexts, k, v), admitted' = admitted,
         \A c \in Strictest : KeptTo(admitted[k], ContextOf(contexts, k), c, clock) /\ call[t].now = clock
                                => KeptTo(admitted[k], v, c, clock)
  PROVE  LimitsAreKept'
<1> SUFFICES ASSUME ~overtaken', NEW j \in Keys, NEW c \in Strictest'
             PROVE  KeptTo(admitted'[j], ContextOf(contexts, j)', c, clock')
  BY DEF LimitsAreKept
<1>1. ~overtaken /\ call[t].now = clock /\ clock' = clock /\ c \in Strictest
  BY InTime DEF LimiterInv
<1>2. \A i \in Keys : KeptTo(admitted[i], ContextOf(contexts, i), c, clock)
  BY <1>1 DEF LimiterInv, LimitsAreKept
<1>3. ContextOf(contexts, j)' = IF j = k THEN v ELSE ContextOf(contexts, j)
  BY WithIs DEF ContextOf
<1> QED
  BY <1>1, <1>2, <1>3

\* ShouldDebounce.
LEMMA DebounceKeeps ==
  ASSUME LevelsAreOrdered, LimiterInv, NEW t \in Threads, ShouldDebounce(t)
  PROVE  LimitsAreKept'
<1> DEFINE k == call[t].key
           ctx == ContextOf(contexts, k)
           new == [ctx EXCEPT !.lastTrigger = call[t].now]
<1>1. k \in Keys /\ ctx \in Context(clock) /\ LimiterTypeOK
  BY CallIs, ContextOfIs DEF ShouldDebounce, LimiterInv
<1>2. contexts' = With(contexts, k, new) /\ Finish(t) /\ admitted' = admitted
  BY DEF ShouldDebounce
<1> HIDE DEF k, ctx
<1>3. /\ new.sliding = ctx.sliding /\ new.windowStart = ctx.windowStart
      /\ new.count = ctx.count /\ new.tokens = ctx.tokens /\ new.lastRefill = ctx.lastRefill
  BY <1>1 DEF Context
<1> HIDE DEF new
<1>4. \A c \in Strictest : KeptTo(admitted[k], ctx, c, clock) => KeptTo(admitted[k], new, c, clock)
  BY <1>1, <1>3, LevelOfCall, HeldByFields DEF KeptTo
<1> QED
  BY <1>1, <1>2, <1>4, NothingLetThrough DEF ctx

\* A bucket that is filled begins anew, and so does the account of it.
LEMMA WarmupKeeps ==
  ASSUME LevelsAreOrdered, LimiterInv, NEW t \in Threads, Warmup(t)
  PROVE  LimitsAreKept'
<1> DEFINE k == call[t].key
           ctx == ContextOf(contexts, k)
           bucket == levels[1].strategy = "TOKEN_BUCKET"
           full == levels[1].capacity * TokenUnits
<1>1. LimiterTypeOK /\ Finish(t)
  BY DEF Warmup, LimiterInv
<1>2. /\ k \in Keys /\ levels[1] \in Config
      /\ bucket => \E warm \in Context(clock) :
                     /\ warm.tokens = full
                     /\ contexts' = With(contexts, k, warm)
                     /\ admitted' = [admitted EXCEPT ![k] = <<>>]
      /\ ~bucket => contexts' = With(contexts, k, ctx) /\ admitted' = admitted
  BY <1>1, WarmIs
<1>3. CASE ~bucket
  <2>1. contexts' = With(contexts, k, ctx) /\ admitted' = admitted
    BY <1>2, <1>3
  <2> HIDE DEF bucket
  <2> QED
    BY <1>1, <1>2, <2>1, NothingLetThrough
<1>4. CASE bucket
  <2>1. PICK warm \in Context(clock) : /\ warm.tokens = full
                                       /\ contexts' = With(contexts, k, warm)
                                       /\ admitted' = [admitted EXCEPT ![k] = <<>>]
    BY <1>2, <1>4
  <2> SUFFICES ASSUME ~overtaken', NEW j \in Keys, NEW c \in Strictest'
               PROVE  KeptTo(admitted'[j], ContextOf(contexts, j)', c, clock')
    BY DEF LimitsAreKept
  <2>2. ~overtaken /\ clock' = clock /\ c \in Strictest
    BY <1>1, InTime
  <2>3. ContextOf(contexts, j)' = IF j = k THEN warm ELSE ContextOf(contexts, j)
    <3> DEFINE g == With(contexts, k, warm)
    <3>1. ContextOf(g, j) = IF j = k THEN warm ELSE ContextOf(contexts, j)
      BY DEF With, ContextOf
    <3>2. contexts' = g
      BY <2>1
    <3> HIDE DEF g
    <3>3. ContextOf(contexts, j)' = ContextOf(g, j)
      BY <3>2 DEF ContextOf
    <3> QED
      BY <3>1, <3>3
  <2>4. admitted'[j] = IF j = k THEN <<>> ELSE admitted[j]
    BY <2>1, <1>1 DEF LimiterTypeOK
  <2>5. /\ c \in Config /\ Suits(c, levels[1]) /\ clock \in Nat \ {0}
    BY <1>1, <2>2, LevelOfCall, LevelsAre
  <2>6. c.strategy = "TOKEN_BUCKET" => c = levels[1]
    BY <2>5, <1>4 DEF Suits
  <2>7. full \in Int
    <3>1. levels[1].capacity \in Int /\ TokenUnits \in Nat
      BY <1>2, RateLimiterAssumption DEF Config
    <3> QED
      BY <3>1, Products
  <2>8. c.strategy = "TOKEN_BUCKET" => warm.tokens <= c.capacity * TokenUnits
    <3>1. c.strategy = "TOKEN_BUCKET" => c.capacity * TokenUnits = full
      BY <2>6
    <3> HIDE DEF full
    <3> QED
      BY <3>1, <2>1, <2>7
  <2>9. KeptTo(<<>>, warm, c, clock)
    BY <2>5, <2>8, FreshIsKept
  <2>10. KeptTo(admitted[j], ContextOf(contexts, j), c, clock)
    BY <2>2 DEF LimiterInv, LimitsAreKept
  <2> QED
    BY <2>2, <2>3, <2>4, <2>9, <2>10
<1> QED
  BY <1>3, <1>4

\* GetRemainingQuota.
LEMMA AskQuotaKeeps ==
  ASSUME LevelsAreOrdered, LimiterInv, NEW t \in Threads, AskQuota(t)
  PROVE  LimitsAreKept'
<1> DEFINE k == call[t].key
           new == GetRemainingQuota(contexts[k], levels[1], clock).ctx
<1> SUFFICES ASSUME ~overtaken', NEW j \in Keys, NEW c \in Strictest'
             PROVE  KeptTo(admitted'[j], ContextOf(contexts, j)', c, clock')
  BY DEF LimitsAreKept
<1>1. LimiterTypeOK /\ Finish(t) /\ admitted' = admitted
  BY DEF AskQuota, LimiterInv
<1>2. ~overtaken /\ call[t].now = clock /\ clock' = clock /\ c \in Strictest
  BY <1>1, InTime
<1>3. contexts' = IF k \in DOMAIN contexts THEN [contexts EXCEPT ![k] = new] ELSE contexts
  BY <1>2 DEF AskQuota
<1>4. /\ KeptTo(admitted[j], ContextOf(contexts, j), c, clock)
      /\ admitted[j] \in Seq(1 .. clock) /\ ContextOf(contexts, j) \in Context(clock)
  BY <1>1, <1>2, ContextOfIs DEF LimiterInv, LimitsAreKept, LimiterTypeOK
<1>5. CASE j = k /\ k \in DOMAIN contexts
  <2>1. ContextOf(contexts, j)' = new /\ ContextOf(contexts, j) = contexts[k]
    BY <1>3, <1>5 DEF ContextOf
  <2>2. /\ c \in Config /\ levels[1] \in Config /\ Suits(c, levels[1])
        /\ clock \in Nat /\ clock \in 1 .. clock
    BY <1>1, <1>2, LevelOfCall, LevelsAre
  <2>3. Held(admitted[j], contexts[k], c, clock) => Held(admitted[j], new, c, clock)
    BY <1>4, <2>1, <2>2, Asks
  <2> HIDE DEF new
  <2> QED
    BY <1>1, <1>2, <1>4, <2>1, <2>3 DEF KeptTo
<1>6. CASE ~(j = k /\ k \in DOMAIN contexts)
  <2>1. ContextOf(contexts, j)' = ContextOf(contexts, j)
    BY <1>3, <1>6 DEF ContextOf
  <2> QED
    BY <1>1, <1>2, <1>4, <2>1
<1> QED
  BY <1>5, <1>6

\* Reset and ClearAll.
LEMMA ForgetKeeps ==
  ASSUME LevelsAreOrdered, LimiterInv, NEW kept, PartOf(kept, contexts), contexts' = kept,
         admitted' = Record(kept), UNCHANGED <<clock, levels, overtaken>>
  PROVE  LimitsAreKept'
<1> SUFFICES ASSUME ~overtaken', NEW j \in Keys, NEW c \in Strictest'
             PROVE  KeptTo(admitted'[j], ContextOf(contexts, j)', c, clock')
  BY DEF LimitsAreKept
<1>1. c \in Strictest /\ ~overtaken
  BY DEF Strictest
<1>2. KeptTo(Record(kept)[j], ContextOf(kept, j), c, clock)
  BY <1>1, PartIsKept
<1>3. ContextOf(contexts, j)' = ContextOf(kept, j)
  BY DEF ContextOf
<1> QED
  BY <1>2, <1>3

\* What changes neither the contexts nor the record.
LEMMA SameKeeps ==
  ASSUME LimitsAreKept, UNCHANGED <<contexts, admitted, clock, levels>>, overtaken => overtaken'
  PROVE  LimitsAreKept'
BY DEF LimitsAreKept, Strictest, ContextOf

\* The clock.
LEMMA TickKeepsAll ==
  ASSUME LevelsAreOrdered, LimiterInv, LimiterTick
  PROVE  LimitsAreKept'
<1> SUFFICES ASSUME ~overtaken', NEW j \in Keys, NEW c \in Strictest'
             PROVE  KeptTo(admitted'[j], ContextOf(contexts, j)', c, clock')
  BY DEF LimitsAreKept
<1>1. /\ UNCHANGED <<contexts, levels, admitted, overtaken>> /\ clock' = clock + 1
  BY DEF LimiterTick
<1>2. c \in Strictest /\ ContextOf(contexts, j)' = ContextOf(contexts, j)
  BY <1>1 DEF Strictest, ContextOf
<1>3. KeptTo(admitted[j], ContextOf(contexts, j), c, clock)
  BY <1>1, <1>2 DEF LimiterInv, LimitsAreKept
<1>4. /\ c \in Config /\ clock \in Nat \ {0} /\ admitted[j] \in Seq(1 .. clock)
      /\ ContextOf(contexts, j) \in Context(clock)
  BY <1>2, LevelOfCall, ContextOfIs DEF LimiterInv, LimiterTypeOK
<1> QED
  BY <1>1, <1>2, <1>3, <1>4, TickKeeps

\* At first.
LEMMA InitKeeps == LevelsAreOrdered /\ LimiterInit => LimiterInv
<1> SUFFICES ASSUME LevelsAreOrdered, LimiterInit PROVE LimiterInv
  OBVIOUS
<1>1. LimiterTypeOK
  BY InitTypes
<1>2. ASSUME NEW k \in Keys, NEW c \in Strictest
      PROVE  KeptTo(admitted[k], ContextOf(contexts, k), c, clock)
  <2>1. admitted[k] = <<>> /\ ContextOf(contexts, k) = NewContext
    BY DEF LimiterInit, ContextOf
  <2>2. c \in Config /\ clock \in Nat \ {0} /\ clock \in Nat
    BY <1>1, LevelOfCall
  <2>3. NewContext \in Context(clock) /\ NewContext.tokens = 0
    BY <2>2, NewContextIs
  <2>4. c.capacity * TokenUnits >= 0
    <3>1. c.capacity \in Int /\ c.capacity >= 0 /\ TokenUnits \in Nat
      BY <2>2, RateLimiterAssumption DEF Config
    <3> QED
      BY <3>1, Products
  <2> QED
    BY <2>1, <2>2, <2>3, <2>4, FreshIsKept
<1> QED
  BY <1>1, <1>2 DEF LimiterInv, LimitsAreKept

\* Every step.
LEMMA StepKeeps ==
  ASSUME LevelsAreOrdered
  PROVE  LimiterInv /\ [LimiterNext]_limiterVars => LimiterInv'
<1> SUFFICES ASSUME LimiterInv, [LimiterNext]_limiterVars PROVE LimiterInv'
  OBVIOUS
<1>1. LimiterTypeOK'
  BY StepTypes DEF LimiterInv
<1>2. LimitsAreKept'
  <2>1. CASE LimiterTick
    BY <2>1, TickKeepsAll
  <2>2. CASE LimiterClearAll
    <3>1. PartOf(<<>>, contexts)
      BY DEF PartOf
    <3> QED
      BY <2>2, <3>1, ForgetKeeps DEF LimiterClearAll
  <2>3. ASSUME NEW k \in Keys, Reset(k) PROVE LimitsAreKept'
    BY <2>3, WithoutIsPart, ForgetKeeps DEF Reset
  <2>4. ASSUME NEW k \in Keys, ChangeLists(k) PROVE LimitsAreKept'
    BY <2>4, SameKeeps DEF ChangeLists, LimiterInv
  <2>5. ASSUME NEW t \in Threads, NEW op \in {"acquire", "debounce", "warmup", "quota"},
               NEW k \in Keys, Start(t, op, k)
        PROVE  LimitsAreKept'
    BY <2>5, SameKeeps DEF Start, LimiterInv
  <2>6. ASSUME NEW t \in Threads, TryAcquireListed(t) PROVE LimitsAreKept'
    BY <2>6, SameKeeps DEF TryAcquireListed, Finish, LimiterInv
  <2>7. ASSUME NEW t \in Threads, TryAcquire(t) \/ ShouldDebounce(t) \/ Warmup(t) \/ AskQuota(t)
        PROVE  LimitsAreKept'
    BY <2>7, TryAcquireKeepsAll, DebounceKeeps, WarmupKeeps, AskQuotaKeeps
  <2>8. CASE UNCHANGED limiterVars
    BY <2>8, SameKeeps DEF limiterVars, LimiterInv
  <2> QED
    BY <2>1, <2>2, <2>3, <2>4, <2>5, <2>6, <2>7, <2>8 DEF LimiterNext
<1> QED
  BY <1>1, <1>2 DEF LimiterInv

\* The limit in the words of the property.
LEMMA KeptIsWithin ==
  ASSUME LevelsAreOrdered, LimiterInv
  PROVE  AdmittedWithinLimit
<1>1. overtaken \/ \A k \in Keys, c \in Strictest : Keeps(k, c)
  <2> SUFFICES ASSUME ~overtaken, NEW k \in Keys, NEW c \in Strictest PROVE Keeps(k, c)
    OBVIOUS
  <2>1. \A at \in 1 .. clock : Bound(admitted[k], c, at)
    BY DEF LimiterInv, LimitsAreKept, KeptTo
  <2>2. \A at, w : Within(k, at, w) = Among(admitted[k], at - w, at)
    <3> TAKE at, w
    <3>1. \A i \in DOMAIN admitted[k] : admitted[k][i] \in Nat
      BY RateLimiterAssumption DEF LimiterInv, LimiterTypeOK
    <3>2. {i \in DOMAIN admitted[k] : admitted[k][i] > at - w /\ admitted[k][i] <= at}
            = {i \in DOMAIN admitted[k] : at - w < admitted[k][i] /\ admitted[k][i] <= at}
      OBVIOUS
    <3> QED
      BY <3>2 DEF Within, Among
  <2> QED
    BY <2>1, <2>2 DEF Keeps, Bound
<1>2. ASSUME NEW k \in DOMAIN contexts
      PROVE  GetRemainingQuota(contexts[k], levels[1], clock).quota > 0
               <=> Acquire(contexts[k], levels[1], clock).acquired
  <2>1. /\ clock \in Nat /\ clock \in 1 .. clock /\ contexts[k] \in Context(clock)
        /\ levels[1] \in Config
    BY LevelOfCall, LevelsAre DEF LimiterInv, LimiterTypeOK
  <2> QED
    BY <2>1, QuotaTells
<1> QED
  BY <1>1, <1>2 DEF AdmittedWithinLimit

\* TryAcquire lets through no more calls than the strictest of its levels allows, in any
\* window of time, unless a call has used a time that was over; and GetRemainingQuota
\* tells of a quota exactly when TryAcquire would let the call through.
THEOREM LimiterAdmitsWithinLimit ==
  ASSUME LevelsAreOrdered
  PROVE  LimiterSpec => []AdmittedWithinLimit
<1>1. LimiterInit => LimiterInv
  BY InitKeeps
<1>2. LimiterInv /\ [LimiterNext]_limiterVars => LimiterInv'
  BY StepKeeps
<1>3. LimiterInv => AdmittedWithinLimit
  BY KeptIsWithin
<1> QED
  BY <1>1, <1>2, <1>3, PTL DEF LimiterSpec

-----------------------------------------------------------------------------
(* The meters: the window. *)

NonDecreasing(s) == \A i, j \in DOMAIN s : i <= j => s[i] <= s[j]

\* An end of a list has no more of an interval than the list.
LEMMA AmongEndLess ==
  ASSUME NEW s \in Seq(Nat), NEW a, NEW b, NEW f \in 1 .. Len(s) + 1
  PROVE  Among(SubSeq(s, f, Len(s)), a, b) <= Among(s, a, b)
<1> DEFINE end == SubSeq(s, f, Len(s))
           T == {i \in DOMAIN s : a < s[i] /\ s[i] <= b}
           U == {i \in DOMAIN end : a < end[i] /\ end[i] <= b}
           to == [i \in U |-> f + i - 1]
<1>1. /\ end \in Seq(Nat) /\ Len(s) \in Nat /\ Len(end) = Len(s) - f + 1
      /\ \A i \in 1 .. Len(s) - f + 1 : end[i] = s[f + i - 1]
  OBVIOUS
<1>2. DOMAIN s = 1 .. Len(s) /\ DOMAIN end = 1 .. Len(s) - f + 1
  BY <1>1
<1> HIDE DEF end
<1>3. IsFiniteSet(T)
  BY <1>1, AmongIsFinite
<1>4. ASSUME NEW i \in U PROVE f + i - 1 \in T
  <2>1. i \in 1 .. Len(s) - f + 1 /\ a < end[i] /\ end[i] <= b
    BY <1>2
  <2>2. f + i - 1 \in 1 .. Len(s)
    <3>1. Len(s) \in Int /\ f \in 1 .. Len(s) + 1 /\ i \in 1 .. Len(s) - f + 1
      BY <2>1, <1>1
    <3> QED
      BY ONLY <3>1
  <2>3. end[i] = s[f + i - 1]
    BY <2>1, <1>1
  <2> QED
    BY <2>1, <2>2, <2>3, <1>2
<1>5. \A i \in U : i \in Int
  BY <1>2
<1> HIDE DEF T, U
<1>6. to \in Injection(U, T)
  <2>1. to \in [U -> T]
    BY <1>4
  <2>2. \A i, j \in U : to[i] = to[j] => i = j
    BY <1>5
  <2> QED
    BY <2>1, <2>2 DEF Injection, IsInjective
<1>7. Cardinality(U) <= Cardinality(T)
  BY <1>3, <1>6, FS_Injection
<1> QED
  BY <1>7 DEF T, U, Among, end

\* A list all of which lies in an interval.
LEMMA AmongEvery ==
  ASSUME NEW s \in Seq(Nat), NEW a, NEW b, \A i \in DOMAIN s : a < s[i] /\ s[i] <= b
  PROVE  Among(s, a, b) = Len(s)
<1>1. /\ {i \in DOMAIN s : a < s[i] /\ s[i] <= b} = 1 .. Len(s)
      /\ Len(s) \in Nat /\ 1 \in Int /\ Len(s) \in Int
  OBVIOUS
<1>2. Cardinality(1 .. Len(s)) = IF 1 > Len(s) THEN 0 ELSE Len(s) - 1 + 1
  BY <1>1, FS_Interval
<1>3. Cardinality(1 .. Len(s)) = Len(s)
  BY <1>1, <1>2
<1> QED
  BY <1>1, <1>3 DEF Among

\* What is active among times that are not in the future.
LEMMA ActiveCounted ==
  ASSUME NEW now \in Nat, NEW s \in Seq(0 .. now)
  PROVE  /\ s \in Seq(Nat) /\ Active(s, now) \in SUBSET Nat /\ IsFiniteSet(Active(s, now))
         /\ Cardinality(Active(s, now)) = Among(s, now - WindowMs, now)
         /\ Cardinality(Active(s, now)) \in Nat
<1>1. s \in Seq(Nat) /\ \A i \in DOMAIN s : i \in Nat /\ s[i] \in Nat /\ s[i] <= now
  OBVIOUS
<1>2. now - WindowMs \in Int
  BY MetersAssumption
<1>3. Active(s, now) = {i \in DOMAIN s : now - WindowMs < s[i] /\ s[i] <= now}
  BY <1>1, <1>2 DEF Active
<1> QED
  BY <1>1, <1>3, AmongIsFinite DEF Among

\* What is left of the times when those that are over have gone: what is active, in order,
\* and no less than that.
LEMMA LiveKeeps ==
  ASSUME NEW now \in Nat, timestamps \in Seq(0 .. now), NonDecreasing(timestamps)
  PROVE  /\ Live(now) \in Seq(0 .. now) /\ NonDecreasing(Live(now))
         /\ Len(Live(now)) = Cardinality(Active(timestamps, now))
         /\ Len(Live(now)) <= Len(timestamps)
         /\ \A x \in Int : x >= now - WindowMs =>
              Among(Live(now), x, now) = Among(timestamps, x, now)
<1> DEFINE candidates == Active(timestamps, now) \cup {Len(timestamps) + 1}
           first == Min(candidates)
<1>1. /\ timestamps \in Seq(Nat) /\ Len(timestamps) \in Nat
      /\ DOMAIN timestamps = 1 .. Len(timestamps)
      /\ \A i \in DOMAIN timestamps : timestamps[i] \in Nat /\ timestamps[i] <= now
  OBVIOUS
<1>2. now - WindowMs \in Int
  BY MetersAssumption
<1>3. candidates \in SUBSET Nat /\ candidates # {} /\ candidates \subseteq 1 .. Len(timestamps) + 1
  BY <1>1 DEF Active
<1>4. first \in candidates /\ \A i \in candidates : first <= i
  BY <1>3, LeastElement DEF Min
<1>5. Live(now) = SubSeq(timestamps, first, Len(timestamps))
  BY DEF Live
<1> HIDE DEF first
<1>6. first \in 1 .. Len(timestamps) + 1
  BY <1>3, <1>4
<1>7. first \notin DOMAIN timestamps \/ timestamps[first] > now - WindowMs
  BY <1>1, <1>4 DEF Active
<1>8. \A i \in DOMAIN timestamps : timestamps[i] > now - WindowMs => first <= i
  BY <1>4 DEF Active
<1> HIDE DEF candidates
<1> DEFINE live == Live(now)
<1>9. /\ live \in Seq(0 .. now) /\ Len(live) = Len(timestamps) - first + 1
      /\ \A i \in 1 .. Len(timestamps) - first + 1 : live[i] = timestamps[first + i - 1]
  BY <1>1, <1>5, <1>6
<1>10. live \in Seq(Nat) /\ DOMAIN live = 1 .. Len(timestamps) - first + 1
  BY <1>9
<1> HIDE DEF live
<1>11. \A i \in DOMAIN live : /\ live[i] = timestamps[first + i - 1]
                              /\ first + i - 1 \in DOMAIN timestamps
                              /\ first <= first + i - 1 /\ i \in Nat
  <2> SUFFICES ASSUME NEW i \in DOMAIN live
               PROVE  /\ live[i] = timestamps[first + i - 1]
                      /\ first + i - 1 \in 1 .. Len(timestamps)
                      /\ first <= first + i - 1 /\ i \in Nat
    BY <1>1
  <2>1. i \in 1 .. Len(timestamps) - first + 1
    BY <1>10
  <2>2. live[i] = timestamps[first + i - 1]
    BY <2>1, <1>9
  <2>3. first \in Int /\ 1 <= first /\ Len(timestamps) \in Int
    BY <1>1, <1>6
  <2>4. first + i - 1 \in 1 .. Len(timestamps) /\ first <= first + i - 1 /\ i \in Nat
    BY ONLY <2>1, <2>3
  <2> QED
    BY ONLY <2>2, <2>4
<1>12. \A i \in DOMAIN live : now - WindowMs < live[i] /\ live[i] <= now
  <2> SUFFICES ASSUME NEW i \in DOMAIN live PROVE now - WindowMs < live[i] /\ live[i] <= now
    OBVIOUS
  <2>1. first \in DOMAIN timestamps
    BY <1>1, <1>6, <1>11
  <2>2. timestamps[first] <= timestamps[first + i - 1]
    BY <2>1, <1>11 DEF NonDecreasing
  <2> QED
    BY <2>1, <2>2, <1>1, <1>2, <1>7, <1>11
<1>13. NonDecreasing(live)
  <2> SUFFICES ASSUME NEW i \in DOMAIN live, NEW j \in DOMAIN live, i <= j
               PROVE  live[i] <= live[j]
    BY DEF NonDecreasing
  <2>1. first + i - 1 <= first + j - 1
    BY <1>6, <1>11
  <2>2. timestamps[first + i - 1] <= timestamps[first + j - 1]
    BY <2>1, <1>11 DEF NonDecreasing
  <2> QED
    BY <2>2, <1>11
<1>14. ASSUME NEW x \in Int, x >= now - WindowMs
       PROVE  Among(live, x, now) = Among(timestamps, x, now)
  <2>1. \A i \in DOMAIN timestamps : x < timestamps[i] /\ timestamps[i] <= now => first <= i
    BY <1>1, <1>2, <1>8, <1>14
  <2>2. Among(timestamps, x, now) <= Among(live, x, now)
    BY <2>1, <1>1, <1>5, <1>6, AmongEnd DEF live
  <2>3. Among(live, x, now) <= Among(timestamps, x, now)
    BY <1>1, <1>5, <1>6, AmongEndLess DEF live
  <2>4. Among(live, x, now) \in Nat /\ Among(timestamps, x, now) \in Nat
    BY <1>1, <1>10, AmongIsFinite
  <2> QED
    BY <2>2, <2>3, <2>4
<1>15. Len(live) = Cardinality(Active(timestamps, now))
  <2>1. Among(live, now - WindowMs, now) = Len(live)
    BY <1>10, <1>12, AmongEvery
  <2>2. Among(live, now - WindowMs, now) = Among(timestamps, now - WindowMs, now)
    BY <1>2, <1>14
  <2> QED
    BY <2>1, <2>2, ActiveCounted
<1>16. Len(live) <= Len(timestamps)
  BY <1>1, <1>6, <1>9
<1> QED
  BY <1>9, <1>13, <1>14, <1>15, <1>16 DEF live

-----------------------------------------------------------------------------
(* The invariant of the two limiters. *)

\* What the window remembers is what it let through and is not over.
WindowHeld ==
    /\ NonDecreasing(timestamps) /\ Len(timestamps) <= MaxRequests
    /\ \A x \in Int : x >= NowMs - WindowMs =>
         Among(windowGrants, x, NowMs) = Among(timestamps, x, NowMs)

\* What the bucket let through since a request, with what is left in it, is no more than
\* it holds and the time since then refills.
BucketSince(i) ==
    ((Len(bucketGrants) - i + 1 - MaxRequests) * RefillMs + tokens) * TicksPerMs
      <= lastRefillTime - bucketGrants[i]

BucketPairs ==
    \A i \in DOMAIN bucketGrants, j \in DOMAIN bucketGrants :
      i <= j => (j - i + 1 - MaxRequests) * RefillMs * TicksPerMs
                  <= bucketGrants[j] - bucketGrants[i]

TokensHeld == BucketPairs /\ \A i \in DOMAIN bucketGrants : BucketSince(i)

MeterInv == MeterTypeOK /\ WindowHeld /\ TokensHeld

LEMMA QuotientsGrow ==
  ASSUME NEW t \in Nat, NEW u \in Nat, t <= u, NEW k \in Nat, k > 0
  PROVE  /\ t \div k \in Nat /\ u \div k \in Nat /\ t \div k <= u \div k
         /\ (t \div k) * k <= t
<1> DEFINE a == t \div k
           b == u \div k
<1>1. a \in Nat /\ b \in Nat
  OBVIOUS
<1>2. k * a <= t
  OBVIOUS
<1>3. u < k * b + k
  OBVIOUS
<1> HIDE DEF a, b
<1> DEFINE ak == a * k
           bk == b * k
<1>4. ak \in Int /\ bk \in Int /\ ak = k * a /\ bk = k * b
  BY <1>1
<1>5. ASSUME b + 1 <= a PROVE bk + k <= ak
  <2>1. (b + 1) * k <= a * k
    BY <1>1, <1>5, Products
  <2>2. (b + 1) * k = b * k + 1 * k /\ 1 * k = k
    BY <1>1, Products
  <2> QED
    BY <2>1, <2>2
<1>6. ak <= t /\ u < bk + k
  BY <1>2, <1>3, <1>4
<1> HIDE DEF ak, bk
<1>7. a <= b
  BY <1>1, <1>4, <1>5, <1>6
<1> QED
  BY <1>1, <1>6, <1>7 DEF a, b, ak

LEMMA Clock ==
  ASSUME NEW t \in Nat, NEW u \in Nat, t <= u
  PROVE  /\ t \div TicksPerMs \in Nat /\ u \div TicksPerMs \in Nat
         /\ t \div TicksPerMs <= u \div TicksPerMs
         /\ (u - t) \div TicksPerMs \in Nat
         /\ ((u - t) \div TicksPerMs) * TicksPerMs <= u - t
<1>1. TicksPerMs \in Nat /\ TicksPerMs > 0 /\ u - t \in Nat /\ u - t <= u - t
  BY MetersAssumption
<1> QED
  BY <1>1, QuotientsGrow

LEMMA Elements ==
  ASSUME NEW S, NEW s \in Seq(S)
  PROVE  \A i \in DOMAIN s : s[i] \in S
  OBVIOUS

LEMMA MetersStart == MeterInit => MeterInv
<1> SUFFICES ASSUME MeterInit PROVE MeterInv
  OBVIOUS
<1>1. /\ MaxRequests \in Nat /\ MaxRequests > 0 /\ RefillMs \in Nat /\ TicksPerMs \in Nat
      /\ TicksPerMs > 0
  BY MetersAssumption
<1>2. NowMs \in Nat
  BY <1>1, Clock DEF MeterInit, NowMs
<1>3. MaxRequests * RefillMs \in Nat
  BY <1>1, Products
<1>4. MeterTypeOK
  BY <1>1, <1>2, <1>3 DEF MeterInit, MeterTypeOK
<1>5. WindowHeld
  BY <1>1 DEF MeterInit, WindowHeld, NonDecreasing
<1>6. TokensHeld
  BY DEF MeterInit, TokensHeld, BucketPairs
<1> QED
  BY <1>4, <1>5, <1>6 DEF MeterInv

\* A time of the past is one of the present's past.
LEMMA StillPast ==
  ASSUME NEW m \in Nat, NEW n \in Nat, m <= n, NEW s \in Seq(0 .. m)
  PROVE  s \in Seq(0 .. n) /\ \A x : Among(s, x, n) = Among(s, x, m)
<1>1. s \in Seq(0 .. n) /\ s \in Seq(Nat) /\ \A i \in DOMAIN s : s[i] <= m /\ s[i] <= n
  OBVIOUS
<1>2. ASSUME NEW x PROVE Among(s, x, n) = Among(s, x, m)
  <2>1. {i \in DOMAIN s : x < s[i] /\ s[i] <= n} = {i \in DOMAIN s : x < s[i] /\ s[i] <= m}
    BY <1>1
  <2> QED
    BY <2>1 DEF Among
<1> QED
  BY <1>1, <1>2

LEMMA WindowAllows ==
  ASSUME MeterInv, AllowInWindow
  PROVE  MeterInv'
<1> DEFINE live == Live(NowMs)
           free == Len(live) < MaxRequests
<1>1. /\ timestamps' = IF free THEN Append(live, NowMs) ELSE live
      /\ windowGrants' = IF free THEN Append(windowGrants, NowMs) ELSE windowGrants
      /\ UNCHANGED <<ticks, tokens, lastRefillTime, bucketGrants>>
  BY DEF AllowInWindow
<1>2. /\ ticks \in Nat /\ timestamps \in Seq(0 .. NowMs) /\ windowGrants \in Seq(0 .. NowMs)
      /\ NonDecreasing(timestamps) /\ Len(timestamps) <= MaxRequests
  BY DEF MeterInv, MeterTypeOK, WindowHeld
<1>3. NowMs \in Nat /\ NowMs' = NowMs
  BY <1>1, <1>2, Clock DEF NowMs
<1>4. /\ live \in Seq(0 .. NowMs) /\ NonDecreasing(live) /\ Len(live) <= Len(timestamps)
      /\ \A x \in Int : x >= NowMs - WindowMs =>
           Among(live, x, NowMs) = Among(timestamps, x, NowMs)
  BY <1>2, <1>3, LiveKeeps
<1>5. MaxRequests \in Nat /\ Len(timestamps) \in Nat
  BY <1>2, MetersAssumption
<1> HIDE DEF live
<1>6. MeterTypeOK'
  <2>1. NowMs \in 0 .. NowMs
    BY <1>3
  <2>2. /\ Append(live, NowMs) \in Seq(0 .. NowMs)
        /\ Append(windowGrants, NowMs) \in Seq(0 .. NowMs)
    BY <2>1, <1>2, <1>4
  <2>3. timestamps' \in Seq(0 .. NowMs)
    BY <2>2, <1>1, <1>4
  <2>4. windowGrants' \in Seq(0 .. NowMs)
    BY <2>2, <1>1, <1>2
  <2> QED
    BY <2>3, <2>4, <1>1, <1>3 DEF MeterInv, MeterTypeOK
<1>7. NonDecreasing(timestamps')
  <2>1. CASE ~free
    BY <2>1, <1>1, <1>4
  <2>2. CASE free
    <3> DEFINE t == Append(live, NowMs)
    <3>1. /\ DOMAIN t = 1 .. Len(live) + 1 /\ Len(live) \in Nat /\ DOMAIN live = 1 .. Len(live)
          /\ t[Len(live) + 1] = NowMs
          /\ \A i \in DOMAIN live : t[i] = live[i] /\ live[i] \in Nat /\ live[i] <= NowMs
      BY <1>3, <1>4
    <3> HIDE DEF t
    <3>2. NonDecreasing(t)
      <4> SUFFICES ASSUME NEW i \in DOMAIN t, NEW j \in DOMAIN t, i <= j PROVE t[i] <= t[j]
        BY DEF NonDecreasing
      <4>1. i \in DOMAIN live \/ i = Len(live) + 1
        BY <3>1
      <4>2. j \in DOMAIN live \/ j = Len(live) + 1
        BY <3>1
      <4>3. j \in DOMAIN live => i \in DOMAIN live
        BY <3>1, <4>1
      <4>4. i \in DOMAIN live /\ j \in DOMAIN live => live[i] <= live[j]
        BY <1>4 DEF NonDecreasing
      <4> QED
        BY <3>1, <4>1, <4>2, <4>3, <4>4, <1>3
    <3>3. timestamps' = t
      BY <2>2, <1>1 DEF t
    <3> QED
      BY <3>2, <3>3
  <2> QED
    BY <2>1, <2>2
<1>8. Len(timestamps') <= MaxRequests
  <2>1. Len(live) \in Nat /\ Len(Append(live, NowMs)) = Len(live) + 1
    BY <1>4
  <2> QED
    BY <2>1, <1>1, <1>2, <1>4, <1>5
<1>9. ASSUME NEW x \in Int, x >= NowMs - WindowMs
      PROVE  Among(windowGrants', x, NowMs) = Among(timestamps', x, NowMs)
  <2>1. Among(windowGrants, x, NowMs) = Among(live, x, NowMs)
    BY <1>4, <1>9 DEF MeterInv, WindowHeld
  <2>2. live \in Seq(Nat) /\ windowGrants \in Seq(Nat)
    BY <1>2, <1>3, <1>4, ActiveCounted
  <2>3. CASE ~free
    BY <2>1, <2>3, <1>1
  <2>4. CASE free
    <3>1. Among(Append(live, NowMs), x, NowMs)
            = Among(live, x, NowMs) + (IF x < NowMs /\ NowMs <= NowMs THEN 1 ELSE 0)
      BY <2>2, <1>3, AmongOneMore
    <3>2. Among(Append(windowGrants, NowMs), x, NowMs)
            = Among(windowGrants, x, NowMs) + (IF x < NowMs /\ NowMs <= NowMs THEN 1 ELSE 0)
      BY <2>2, <1>3, AmongOneMore
    <3>3. Among(Append(windowGrants, NowMs), x, NowMs) = Among(Append(live, NowMs), x, NowMs)
      BY ONLY <2>1, <3>1, <3>2
    <3> QED
      BY <3>3, <2>4, <1>1
  <2> QED
    BY <2>3, <2>4
<1>10. WindowHeld'
  BY <1>3, <1>7, <1>8, <1>9 DEF WindowHeld, NonDecreasing
<1>11. TokensHeld'
  BY <1>1 DEF MeterInv, TokensHeld, BucketPairs, BucketSince
<1> QED
  BY <1>6, <1>10, <1>11 DEF MeterInv

LEMMA WindowResets ==
  ASSUME MeterInv, ResetWindow
  PROVE  MeterInv'
<1>1. /\ timestamps' = <<>> /\ windowGrants' = <<>>
      /\ UNCHANGED <<ticks, tokens, lastRefillTime, bucketGrants>>
  BY DEF ResetWindow
<1>2. NowMs' = NowMs
  BY <1>1 DEF NowMs
<1>3. MeterTypeOK'
  BY <1>1, <1>2 DEF MeterInv, MeterTypeOK
<1>4. WindowHeld'
  BY <1>1, MetersAssumption DEF WindowHeld, NonDecreasing
<1>5. TokensHeld'
  BY <1>1 DEF MeterInv, TokensHeld, BucketPairs, BucketSince
<1> QED
  BY <1>3, <1>4, <1>5 DEF MeterInv

LEMMA MeterTicks ==
  ASSUME MeterInv, MeterTick
  PROVE  MeterInv'
<1>1. /\ ticks' = ticks + 1
      /\ UNCHANGED <<timestamps, tokens, lastRefillTime, windowGrants, bucketGrants>>
  BY DEF MeterTick
<1>2. ticks \in Nat /\ timestamps \in Seq(0 .. NowMs) /\ windowGrants \in Seq(0 .. NowMs)
  BY DEF MeterInv, MeterTypeOK
<1>3. NowMs \in Nat /\ NowMs' \in Nat /\ NowMs <= NowMs'
  <2>1. ticks' \in Nat /\ ticks <= ticks'
    BY <1>1, <1>2
  <2> QED
    BY <2>1, <1>2, Clock DEF NowMs
<1>4. /\ timestamps \in Seq(0 .. NowMs') /\ windowGrants \in Seq(0 .. NowMs')
      /\ \A x : /\ Among(timestamps, x, NowMs') = Among(timestamps, x, NowMs)
                /\ Among(windowGrants, x, NowMs') = Among(windowGrants, x, NowMs)
  BY <1>2, <1>3, StillPast
<1>5. MeterTypeOK'
  BY <1>1, <1>4 DEF MeterInv, MeterTypeOK
<1>6. WindowHeld'
  <2>1. \A x \in Int : x >= NowMs' - WindowMs => x >= NowMs - WindowMs
    BY <1>3, MetersAssumption
  <2>2. \A x \in Int : x >= NowMs' - WindowMs =>
          Among(windowGrants, x, NowMs') = Among(timestamps, x, NowMs')
    BY <2>1, <1>4 DEF MeterInv, WindowHeld
  <2> QED
    BY <2>2, <1>1 DEF MeterInv, WindowHeld, NonDecreasing
<1>7. TokensHeld'
  BY <1>1 DEF MeterInv, TokensHeld, BucketPairs, BucketSince
<1> QED
  BY <1>5, <1>6, <1>7 DEF MeterInv

\* What the bucket has after a while.
LEMMA RefilledAtMost ==
  ASSUME MeterInv
  PROVE  /\ Refilled \in Nat /\ Refilled <= MaxRequests * RefillMs /\ tokens <= Refilled
         /\ Refilled * TicksPerMs <= tokens * TicksPerMs + (ticks - lastRefillTime)
         /\ MaxRequests * RefillMs \in Nat
<1> DEFINE passed == (ticks - lastRefillTime) \div TicksPerMs
<1>1. /\ MaxRequests \in Nat /\ RefillMs \in Nat /\ TicksPerMs \in Nat
      /\ ticks \in Nat /\ lastRefillTime \in Nat /\ lastRefillTime <= ticks
  BY MetersAssumption DEF MeterInv, MeterTypeOK
<1>2. MaxRequests * RefillMs \in Nat
  BY <1>1, Products
<1>3. tokens \in Nat /\ tokens <= MaxRequests * RefillMs
  BY <1>2 DEF MeterInv, MeterTypeOK
<1>4. passed \in Nat /\ passed * TicksPerMs <= ticks - lastRefillTime
  BY <1>1, Clock
<1>5. Refilled = IF tokens + passed < MaxRequests * RefillMs THEN tokens + passed
                 ELSE MaxRequests * RefillMs
  BY DEF Refilled
<1> HIDE DEF passed
<1>6. /\ Refilled \in Nat /\ Refilled <= MaxRequests * RefillMs /\ tokens <= Refilled
      /\ Refilled <= tokens + passed
  BY <1>2, <1>3, <1>4, <1>5
<1>7. Refilled * TicksPerMs <= (tokens + passed) * TicksPerMs
  BY <1>1, <1>3, <1>4, <1>6, Products
<1>8. (tokens + passed) * TicksPerMs = tokens * TicksPerMs + passed * TicksPerMs
  BY <1>1, <1>3, <1>4, Products
<1>9. tokens * TicksPerMs \in Int /\ passed * TicksPerMs \in Int /\ Refilled * TicksPerMs \in Int
  BY <1>1, <1>3, <1>4, <1>6
<1> QED
  BY <1>1, <1>2, <1>4, <1>6, <1>7, <1>8, <1>9

LEMMA BucketResets ==
  ASSUME MeterInv, ResetBucket
  PROVE  MeterInv'
<1>1. /\ bucketGrants' = <<>> /\ tokens' = MaxRequests * RefillMs /\ lastRefillTime' = ticks
      /\ UNCHANGED <<ticks, timestamps, windowGrants>>
  BY DEF ResetBucket
<1>2. NowMs' = NowMs
  BY <1>1 DEF NowMs
<1>3. MaxRequests * RefillMs \in Nat
  BY RefilledAtMost
<1>4. MeterTypeOK'
  BY <1>1, <1>2, <1>3 DEF MeterInv, MeterTypeOK
<1>5. WindowHeld'
  BY <1>1, <1>2 DEF MeterInv, WindowHeld, NonDecreasing
<1>6. TokensHeld'
  BY <1>1 DEF TokensHeld, BucketPairs
<1> QED
  BY <1>4, <1>5, <1>6 DEF MeterInv

LEMMA BucketAllows ==
  ASSUME MeterInv, AllowFromBucket
  PROVE  MeterInv'
<1> DEFINE free == Refilled >= RefillMs
           n == Len(bucketGrants)
           over(k) == (k + 1 - MaxRequests) * RefillMs
<1>1. /\ tokens' = IF free THEN Refilled - RefillMs ELSE Refilled
      /\ lastRefillTime' = ticks
      /\ bucketGrants' = IF free THEN Append(bucketGrants, ticks) ELSE bucketGrants
      /\ UNCHANGED <<ticks, timestamps, windowGrants>>
  BY DEF AllowFromBucket
<1>2. /\ MaxRequests \in Nat /\ RefillMs \in Nat /\ TicksPerMs \in Nat
      /\ ticks \in Nat /\ lastRefillTime \in Nat /\ lastRefillTime <= ticks
      /\ bucketGrants \in Seq(0 .. lastRefillTime)
  BY MetersAssumption DEF MeterInv, MeterTypeOK
<1>3. /\ Refilled \in Nat /\ Refilled <= MaxRequests * RefillMs
      /\ Refilled * TicksPerMs <= tokens * TicksPerMs + (ticks - lastRefillTime)
      /\ MaxRequests * RefillMs \in Nat
  BY RefilledAtMost
<1>4. tokens \in Nat
  BY <1>3 DEF MeterInv, MeterTypeOK
<1>5. NowMs' = NowMs
  BY <1>1 DEF NowMs
<1>6. tokens' \in Nat /\ tokens' <= Refilled
  BY <1>1, <1>2, <1>3
<1>7. bucketGrants \in Seq(0 .. ticks) /\ bucketGrants' \in Seq(0 .. ticks)
  <2>1. 0 .. lastRefillTime \subseteq 0 .. ticks /\ ticks \in 0 .. ticks
    BY <1>2
  <2>2. bucketGrants \in Seq(0 .. ticks)
    BY <2>1, <1>2
  <2>3. Append(bucketGrants, ticks) \in Seq(0 .. ticks)
    BY <2>1, <2>2
  <2> QED
    BY <2>2, <2>3, <1>1
<1>8. MeterTypeOK'
  BY <1>1, <1>2, <1>3, <1>5, <1>6, <1>7 DEF MeterInv, MeterTypeOK
<1>9. WindowHeld'
  BY <1>1, <1>5 DEF MeterInv, WindowHeld, NonDecreasing
<1>10. /\ n \in Nat /\ DOMAIN bucketGrants = 1 .. n
       /\ \A i \in DOMAIN bucketGrants :
            i \in Nat /\ 1 <= i /\ i <= n /\ bucketGrants[i] \in Nat /\ bucketGrants[i] <= ticks
       /\ free => /\ DOMAIN bucketGrants' = 1 .. n + 1 /\ Len(bucketGrants') = n + 1
                  /\ bucketGrants'[n + 1] = ticks
                  /\ \A i \in DOMAIN bucketGrants : bucketGrants'[i] = bucketGrants[i]
       /\ ~free => bucketGrants' = bucketGrants
  <2>1. /\ n \in Nat /\ DOMAIN bucketGrants = 1 .. n
        /\ \A i \in 1 .. n : bucketGrants[i] \in 0 .. ticks
    <3>1. n \in Nat /\ DOMAIN bucketGrants = 1 .. n
      BY <1>7
    <3>2. \A i \in DOMAIN bucketGrants : bucketGrants[i] \in 0 .. ticks
      BY <1>7, Elements
    <3> HIDE DEF n
    <3> QED
      BY <3>1, <3>2
  <2>2. /\ DOMAIN Append(bucketGrants, ticks) = 1 .. n + 1
        /\ Len(Append(bucketGrants, ticks)) = n + 1
        /\ Append(bucketGrants, ticks)[n + 1] = ticks
        /\ \A i \in 1 .. n : Append(bucketGrants, ticks)[i] = bucketGrants[i]
    BY <1>7
  <2>3. \A i \in 1 .. n : i \in Nat /\ 1 <= i /\ i <= n
    BY <2>1
  <2>4. \A i \in 1 .. n : bucketGrants[i] \in Nat /\ bucketGrants[i] <= ticks
    BY <2>1, <1>2
  <2> HIDE DEF n
  <2> QED
    BY <2>1, <2>2, <2>3, <2>4, <1>1
<1> HIDE DEF n
<1>11. ASSUME NEW i \in DOMAIN bucketGrants
       PROVE  BucketSince(i)'
  <2> DEFINE c == n - i + 1 - MaxRequests
             a == c * RefillMs
  <2>1. c \in Int
    BY <1>2, <1>10
  <2>10. a \in Int
    BY <2>1, <1>2
  <2>2. (a + tokens) * TicksPerMs <= lastRefillTime - bucketGrants[i]
    BY DEF MeterInv, TokensHeld, BucketSince, n
  <2>11. c + 1 = (n + 1) - i + 1 - MaxRequests /\ 1 * RefillMs = RefillMs
    <3>1. n \in Int /\ i \in Int /\ MaxRequests \in Int
      BY <1>2, <1>10
    <3>2. c + 1 = (n + 1) - i + 1 - MaxRequests
      BY <3>1
    <3> QED
      BY <3>2, <1>2, Products
  <2> HIDE DEF c
  <2>12. (c + 1) * RefillMs = a + 1 * RefillMs
    BY <2>1, <1>2, Products
  <2>13. ((n + 1) - i + 1 - MaxRequests) * RefillMs = a + RefillMs
    BY <2>11, <2>12
  <2>14. a = (n - i + 1 - MaxRequests) * RefillMs
    BY DEF c
  <2> HIDE DEF a
  <2>3. /\ (a + tokens) * TicksPerMs = a * TicksPerMs + tokens * TicksPerMs
        /\ (a + Refilled) * TicksPerMs = a * TicksPerMs + Refilled * TicksPerMs
        /\ a * TicksPerMs \in Int /\ tokens * TicksPerMs \in Int /\ Refilled * TicksPerMs \in Int
    BY <2>10, <1>2, <1>3, <1>4, Products
  <2>4. (a + Refilled) * TicksPerMs <= ticks - bucketGrants[i]
    <3>1. bucketGrants[i] \in Nat
      BY <1>10
    <3> DEFINE at == a * TicksPerMs
               tt == tokens * TicksPerMs
               rt == Refilled * TicksPerMs
    <3>2. at \in Int /\ tt \in Int /\ rt \in Int /\ rt <= tt + (ticks - lastRefillTime)
      BY <2>3, <1>3
    <3>3. at + tt <= lastRefillTime - bucketGrants[i] /\ (a + Refilled) * TicksPerMs = at + rt
      BY <2>2, <2>3
    <3> HIDE DEF at, tt, rt
    <3> QED
      BY <3>1, <3>2, <3>3, <1>2
  <2>5. CASE free
    <3>1. ((n + 1) - i + 1 - MaxRequests) * RefillMs + tokens' = a + Refilled
      BY <2>10, <2>5, <2>13, <1>1, <1>2, <1>3
    <3>2. bucketGrants'[i] = bucketGrants[i] /\ Len(bucketGrants') = n + 1
      BY <2>5, <1>10
    <3>3. ((Len(bucketGrants') - i + 1 - MaxRequests) * RefillMs + tokens') * TicksPerMs
            <= lastRefillTime' - bucketGrants'[i]
      <4>1. lastRefillTime' - bucketGrants'[i] = ticks - bucketGrants[i]
        BY <3>2, <1>1
      <4>2. (Len(bucketGrants') - i + 1 - MaxRequests) * RefillMs + tokens' = a + Refilled
        BY ONLY <3>1, <3>2, Zenon
      <4> QED
        BY ONLY <2>4, <4>1, <4>2
    <3> QED
      BY <3>3 DEF BucketSince
  <2>6. CASE ~free
    <3>1. (n - i + 1 - MaxRequests) * RefillMs + tokens' = a + Refilled
      BY <2>6, <2>14, <1>1
    <3>2. bucketGrants'[i] = bucketGrants[i] /\ Len(bucketGrants') = n
      BY <2>6, <1>10 DEF n
    <3>3. ((Len(bucketGrants') - i + 1 - MaxRequests) * RefillMs + tokens') * TicksPerMs
            <= lastRefillTime' - bucketGrants'[i]
      BY <2>4, <3>1, <3>2, <1>1
    <3> QED
      BY <3>3 DEF BucketSince
  <2> QED
    BY <2>5, <2>6
<1>12. ASSUME free, NEW i, i = n + 1
       PROVE  BucketSince(i)'
  <2>1. n + 1 - (n + 1) + 1 - MaxRequests = 1 - MaxRequests /\ 1 - MaxRequests \in Int
    BY <1>2, <1>10
  <2>2. (1 - MaxRequests) * RefillMs = RefillMs - MaxRequests * RefillMs
    BY <1>2, Products
  <2> DEFINE a == (1 - MaxRequests) * RefillMs + tokens'
  <2>3. a = Refilled - MaxRequests * RefillMs
    BY <2>2, <1>1, <1>2, <1>3, <1>12
  <2>4. a \in Int /\ a <= 0
    BY <2>3, <1>3
  <2> HIDE DEF a
  <2>5. a * TicksPerMs <= 0 * TicksPerMs /\ 0 * TicksPerMs = 0
    BY <2>4, <1>2, Products
  <2>6. ticks - ticks = 0
    BY <1>2
  <2>7. Len(bucketGrants') = n + 1 /\ bucketGrants'[n + 1] = ticks /\ lastRefillTime' = ticks
    BY <1>1, <1>10, <1>12
  <2>8. (Len(bucketGrants') - i + 1 - MaxRequests) * RefillMs + tokens' = a
    BY <2>1, <2>7, <1>12 DEF a
  <2>9. a * TicksPerMs <= lastRefillTime' - bucketGrants'[i]
    BY <2>5, <2>6, <2>7, <1>12
  <2> QED
    BY <2>8, <2>9 DEF BucketSince
<1>13. \A i \in DOMAIN bucketGrants' : BucketSince(i)'
  <2>1. CASE free
    <3>1. \A i \in DOMAIN bucketGrants' : i \in DOMAIN bucketGrants \/ i = n + 1
      BY <2>1, <1>10
    <3>2. \A i : i = n + 1 => BucketSince(i)'
      BY <2>1, <1>12
    <3>3. \A i \in DOMAIN bucketGrants : BucketSince(i)'
      BY <1>11
    <3> QED
      BY <3>1, <3>2, <3>3
  <2>2. CASE ~free
    BY <2>2, <1>10, <1>11
  <2> QED
    BY <2>1, <2>2
<1>14. BucketPairs'
  <2>1. CASE ~free
    BY <2>1, <1>10 DEF MeterInv, TokensHeld, BucketPairs
  <2>2. CASE free
    <3> SUFFICES ASSUME NEW i \in DOMAIN bucketGrants', NEW j \in DOMAIN bucketGrants', i <= j
                 PROVE  (j - i + 1 - MaxRequests) * RefillMs * TicksPerMs
                          <= bucketGrants'[j] - bucketGrants'[i]
      BY DEF BucketPairs
    <3>1. (i \in DOMAIN bucketGrants \/ i = n + 1) /\ (j \in DOMAIN bucketGrants \/ j = n + 1)
      BY <2>2, <1>10
    <3>2. CASE j \in DOMAIN bucketGrants
      <4>1. i \in DOMAIN bucketGrants
        BY <3>1, <3>2, <1>10
      <4> QED
        BY <3>2, <4>1, <2>2, <1>10 DEF MeterInv, TokensHeld, BucketPairs
    <3>3. CASE j = n + 1
      <4> DEFINE a == (j - i + 1 - MaxRequests) * RefillMs
      <4>1. i \in Nat /\ j - i + 1 - MaxRequests \in Int
        BY <2>2, <3>3, <1>2, <1>10
      <4>2. a \in Int
        BY <4>1, <1>2
      <4>3. (a + tokens') * TicksPerMs <= ticks - bucketGrants'[i]
        BY <2>2, <3>3, <1>1, <1>10, <1>13 DEF BucketSince
      <4> HIDE DEF a
      <4>4. a * TicksPerMs <= (a + tokens') * TicksPerMs
        <5>1. PICK left \in Nat : left = tokens'
          BY <1>6
        <5>2. a + left \in Int /\ a <= a + left
          BY <4>2
        <5>3. a * TicksPerMs <= (a + left) * TicksPerMs
          BY <4>2, <5>2, <1>2, Products
        <5> QED
          BY <5>1, <5>3
      <4>5. a * TicksPerMs \in Int /\ (a + tokens') * TicksPerMs \in Int
        BY <4>2, <1>2, <1>6
      <4>6. bucketGrants'[i] \in Int /\ bucketGrants'[j] = ticks
        <5>1. \A k \in DOMAIN bucketGrants' : bucketGrants'[k] \in 0 .. ticks
          BY <1>7, Elements
        <5> QED
          BY <2>2, <3>3, <5>1, <1>10
      <4>7. a * TicksPerMs <= bucketGrants'[j] - bucketGrants'[i]
        BY <4>3, <4>4, <4>5, <4>6, <1>2
      <4> QED
        BY <4>7 DEF a
    <3> QED
      BY <3>1, <3>2, <3>3
  <2> QED
    BY <2>1, <2>2
<1>15. TokensHeld'
  BY <1>13, <1>14 DEF TokensHeld
<1> QED
  BY <1>8, <1>9, <1>15 DEF MeterInv

-----------------------------------------------------------------------------
(* Recursion: what each step makes of what the one before it has made. *)

Runs(V, a, step, n) ==
    {g \in [0 .. n -> V] : g[0] = a /\ \A i \in 0 .. n - 1 : g[i + 1] = step[g[i]]}

LEMMA RunsAgree ==
  ASSUME NEW V, NEW a, NEW step
  PROVE  \A i \in Nat : \A m, n \in Nat :
           i <= m /\ i <= n =>
             \A g \in Runs(V, a, step, m), h \in Runs(V, a, step, n) : g[i] = h[i]
<1> DEFINE T == {i \in Nat : \A m, n \in Nat :
                   i <= m /\ i <= n =>
                     \A g \in Runs(V, a, step, m), h \in Runs(V, a, step, n) : g[i] = h[i]}
<1>1. 0 \in T
  BY DEF Runs
<1>2. ASSUME NEW i \in Nat, i \in T PROVE i + 1 \in T
  <2> SUFFICES ASSUME NEW m \in Nat, NEW n \in Nat, i + 1 <= m, i + 1 <= n,
                      NEW g \in Runs(V, a, step, m), NEW h \in Runs(V, a, step, n)
               PROVE  g[i + 1] = h[i + 1]
    OBVIOUS
  <2>1. i <= m /\ i <= n /\ i \in 0 .. m - 1 /\ i \in 0 .. n - 1
    OBVIOUS
  <2>2. g[i] = h[i]
    BY <1>2, <2>1
  <2>3. g[i + 1] = step[g[i]] /\ h[i + 1] = step[h[i]]
    BY <2>1 DEF Runs
  <2> QED
    BY <2>2, <2>3
<1>3. Nat \subseteq T
  <2> HIDE DEF T
  <2> QED
    BY <1>1, <1>2, CountingUp
<1> QED
  BY <1>3

LEMMA RunsExist ==
  ASSUME NEW V, NEW a \in V, NEW step \in [V -> V]
  PROVE  \A n \in Nat : Runs(V, a, step, n) # {}
<1> DEFINE T == {n \in Nat : Runs(V, a, step, n) # {}}
<1>1. 0 \in T
  <2> DEFINE g == [i \in 0 .. 0 |-> a]
  <2>1. g \in Runs(V, a, step, 0)
    BY DEF Runs
  <2> QED
    BY <2>1
<1>2. ASSUME NEW n \in Nat, n \in T PROVE n + 1 \in T
  <2>1. PICK g : g \in Runs(V, a, step, n)
    BY <1>2
  <2>2. /\ g \in [0 .. n -> V] /\ g[0] = a /\ \A i \in 0 .. n - 1 : g[i + 1] = step[g[i]]
        /\ n \in 0 .. n
    BY <2>1 DEF Runs
  <2> DEFINE h == [i \in 0 .. n + 1 |-> IF i <= n THEN g[i] ELSE step[g[n]]]
  <2>3. h \in [0 .. n + 1 -> V]
    <3>1. \A i \in 0 .. n + 1 : i <= n => i \in 0 .. n
      OBVIOUS
    <3>2. step[g[n]] \in V
      BY <2>2
    <3> QED
      BY <3>1, <3>2, <2>2
  <2>4. h[0] = a
    BY <2>2
  <2>5. ASSUME NEW i \in 0 .. n PROVE h[i + 1] = step[h[i]]
    <3>1. h[i] = g[i]
      OBVIOUS
    <3>2. CASE i = n
      <4>1. n + 1 \in 0 .. n + 1 /\ ~(n + 1 <= n)
        OBVIOUS
      <4>2. h[n + 1] = step[g[n]]
        BY <4>1
      <4> QED
        BY <3>1, <3>2, <4>2
    <3>3. CASE i # n
      <4>1. i \in 0 .. n - 1 /\ i + 1 \in 0 .. n + 1 /\ i + 1 <= n
        BY <3>3
      <4>2. h[i + 1] = g[i + 1]
        BY <4>1
      <4> QED
        BY <3>1, <4>1, <4>2, <2>2
    <3> QED
      BY <3>2, <3>3
  <2> HIDE DEF h
  <2>6. n + 1 - 1 = n
    OBVIOUS
  <2>7. h \in Runs(V, a, step, n + 1)
    BY <2>3, <2>4, <2>5, <2>6 DEF Runs
  <2> QED
    BY <2>7
<1>3. Nat \subseteq T
  <2> HIDE DEF T
  <2> QED
    BY <1>1, <1>2, CountingUp
<1> QED
  BY <1>3

Iterations(V, a, step) ==
    {f \in [Nat -> V] : f[0] = a /\ \A n \in Nat : f[n + 1] = step[f[n]]}

LEMMA Recursion ==
  ASSUME NEW V, NEW a \in V, NEW step \in [V -> V]
  PROVE  Iterations(V, a, step) # {}
<1> DEFINE run == [n \in Nat |-> CHOOSE g : g \in Runs(V, a, step, n)]
           f == [n \in Nat |-> run[n][n]]
<1>1. ASSUME NEW n \in Nat PROVE run[n] \in Runs(V, a, step, n)
  BY RunsExist
<1> HIDE DEF run
<1>2. ASSUME NEW n \in Nat PROVE run[n][n] \in V
  <2>1. n \in 0 .. n
    OBVIOUS
  <2> QED
    BY <2>1, <1>1 DEF Runs
<1>3. f \in [Nat -> V]
  BY <1>2
<1>4. f[0] = a
  BY <1>1 DEF Runs
<1>5. ASSUME NEW n \in Nat PROVE f[n + 1] = step[f[n]]
  <2>1. n + 1 \in Nat /\ n <= n /\ n <= n + 1 /\ n \in 0 .. (n + 1) - 1
    OBVIOUS
  <2>2. run[n] \in Runs(V, a, step, n) /\ run[n + 1] \in Runs(V, a, step, n + 1)
    BY <2>1, <1>1
  <2>3. run[n + 1][n + 1] = step[run[n + 1][n]]
    BY <2>1, <2>2 DEF Runs
  <2>4. run[n + 1][n] = run[n][n]
    BY <2>1, <2>2, RunsAgree
  <2> QED
    BY <2>1, <2>3, <2>4
<1> HIDE DEF f
<1>6. f \in Iterations(V, a, step)
  BY <1>3, <1>4, <1>5 DEF Iterations
<1> QED
  BY <1>6

\* The delays are what the loop over the attempts makes of the first one.
LEMMA Backoff ==
  /\ BackoffDelay \in [Nat -> Nat]
  /\ \A n \in Nat : BackoffDelay[n] = IF n <= 1 THEN RetryConfig.initialDelay
                                      ELSE BackoffDelay[n - 1] * RetryConfig.multiplier
<1> DEFINE a == RetryConfig.initialDelay
           k == RetryConfig.multiplier
           step == [d \in Nat |-> d * k]
<1>1. a \in Nat /\ k \in Nat
  BY MetersAssumption
<1> HIDE DEF a, k
<1>2. step \in [Nat -> Nat]
  BY <1>1
<1> HIDE DEF step
<1>3. PICK f \in [Nat -> Nat] : f[0] = a /\ \A n \in Nat : f[n + 1] = step[f[n]]
  <2>1. Iterations(Nat, a, step) # {}
    BY <1>1, <1>2, Recursion
  <2> QED
    BY <2>1 DEF Iterations
<1> DEFINE g == [n \in Nat |-> IF n <= 1 THEN a ELSE f[n - 1]]
<1>4. \A n \in Nat : g[n] = IF n <= 1 THEN a ELSE g[n - 1] * k
  <2> SUFFICES ASSUME NEW n \in Nat, ~(n <= 1) PROVE f[n - 1] = g[n - 1] * k
    OBVIOUS
  <2>1. n - 2 \in Nat /\ n - 1 \in Nat /\ (n - 2) + 1 = n - 1
    OBVIOUS
  <2>2. f[n - 1] = f[n - 2] * k
    BY <2>1, <1>3 DEF step
  <2>3. g[n - 1] = f[n - 2]
    <3>1. CASE n - 1 <= 1
      <4>1. n - 2 = 0
        BY <3>1
      <4> QED
        BY <2>1, <3>1, <4>1, <1>3
    <3>2. CASE ~(n - 1 <= 1)
      <4>1. (n - 1) - 1 = n - 2
        OBVIOUS
      <4> QED
        BY <2>1, <3>2, <4>1
    <3> QED
      BY <3>1, <3>2
  <2> QED
    BY <2>2, <2>3
<1>5. g \in [Nat -> Nat]
  <2>1. \A n \in Nat : n <= 1 \/ n - 1 \in Nat
    OBVIOUS
  <2> QED
    BY <2>1, <1>1, <1>3
<1> HIDE DEF g
<1>6. g = [n \in Nat |-> IF n <= 1 THEN a ELSE g[n - 1] * k]
  BY <1>4, <1>5
<1>7. BackoffDelay = CHOOSE h : h = [n \in Nat |-> IF n <= 1 THEN a ELSE h[n - 1] * k]
  BY DEF BackoffDelay, a, k
<1>8. BackoffDelay = [n \in Nat |-> IF n <= 1 THEN a ELSE BackoffDelay[n - 1] * k]
  BY <1>6, <1>7
<1>9. \A n \in Nat : BackoffDelay[n] = IF n <= 1 THEN a ELSE BackoffDelay[n - 1] * k
  BY <1>8
<1>10. BackoffDelay \in [Nat -> Nat]
  <2> DEFINE T == {n \in Nat : BackoffDelay[n] \in Nat}
  <2>1. 0 \in T
    BY <1>1, <1>9
  <2>2. ASSUME NEW n \in Nat, n \in T PROVE n + 1 \in T
    <3>1. n + 1 \in Nat /\ (n + 1) - 1 = n
      OBVIOUS
    <3>2. BackoffDelay[n + 1] = IF n + 1 <= 1 THEN a ELSE BackoffDelay[n] * k
      BY <3>1, <1>9
    <3> DEFINE d == BackoffDelay[n]
    <3>3. d \in Nat
      BY <2>2
    <3> HIDE DEF d
    <3>4. d * k \in Nat
      BY <3>3, <1>1
    <3> QED
      BY <3>1, <3>2, <3>4, <1>1 DEF d
  <2>3. Nat \subseteq T
    <3> HIDE DEF T
    <3> QED
      BY <2>1, <2>2, CountingUp
  <2> QED
    BY <2>3, <1>8
<1> QED
  BY <1>9, <1>10 DEF a, k

LEMMA DelaysGrow ==
  ASSUME NEW n \in Nat \ {0}
  PROVE  /\ RetryConfig.multiplier # 0 => GetDelayForAttempt(n - 1) <= GetDelayForAttempt(n)
         /\ GetDelayForAttempt(n) <= RetryConfig.maxDelay
         /\ ShouldRetry(n) => ShouldRetry(n - 1)
<1> DEFINE k == RetryConfig.multiplier
           most == RetryConfig.maxDelay
           d == BackoffDelay[n]
           e == BackoffDelay[n - 1]
<1>1. /\ RetryConfig.initialDelay \in Nat /\ k \in Nat /\ most \in Nat
      /\ RetryConfig.maxRetries \in Nat
  BY MetersAssumption
<1>2. n \in Nat /\ n - 1 \in Nat /\ n # 0 /\ (n - 1 = 0 <=> n = 1)
  OBVIOUS
<1>3. d \in Nat /\ e \in Nat /\ d = IF n <= 1 THEN RetryConfig.initialDelay ELSE e * k
  BY <1>2, Backoff
<1>4. /\ GetDelayForAttempt(n) = IF d < most THEN d ELSE most
      /\ GetDelayForAttempt(n - 1) = IF n - 1 = 0 THEN 0 ELSE IF e < most THEN e ELSE most
  BY <1>2 DEF GetDelayForAttempt
<1>5. ShouldRetry(n) => ShouldRetry(n - 1)
  BY <1>1, <1>2 DEF ShouldRetry
<1> HIDE DEF k, most, d, e
<1>6. n # 1 /\ k # 0 => e <= d
  <2> SUFFICES ASSUME n # 1, k # 0 PROVE e <= d
    OBVIOUS
  <2>1. d = e * k
    BY <1>2, <1>3
  <2>2. k - 1 \in Nat /\ 1 \in Int
    BY <1>1
  <2>3. 1 * e <= k * e /\ 1 * e = e
    BY <2>2, <1>1, <1>3, Products
  <2>4. k * e = e * k
    BY <1>1, <1>3
  <2> QED
    BY <2>1, <2>3, <2>4
<1>7. GetDelayForAttempt(n) <= most
  BY <1>1, <1>3, <1>4
<1>8. k # 0 => GetDelayForAttempt(n - 1) <= GetDelayForAttempt(n)
  BY <1>1, <1>2, <1>3, <1>4, <1>6
<1> QED
  BY <1>5, <1>7, <1>8 DEF k, most

LEMMA MeterStep ==
  ASSUME MeterInv, [MeterNext]_meterVars
  PROVE  MeterInv'
<1>1. CASE UNCHANGED meterVars
  <2>1. /\ UNCHANGED <<ticks, timestamps, tokens, lastRefillTime, windowGrants, bucketGrants>>
        /\ NowMs' = NowMs
    BY <1>1 DEF meterVars, NowMs
  <2> QED
    BY <2>1 DEF MeterInv, MeterTypeOK, WindowHeld, NonDecreasing, TokensHeld, BucketPairs, BucketSince
<1>2. CASE MeterNext
  BY <1>2, WindowAllows, WindowResets, BucketAllows, BucketResets, MeterTicks DEF MeterNext
<1> QED
  BY <1>1, <1>2

LEMMA MeterLimits ==
  ASSUME MeterInv
  PROVE  LimitsHold
<1>1. ticks \in Nat /\ timestamps \in Seq(0 .. NowMs) /\ windowGrants \in Seq(0 .. NowMs)
  BY DEF MeterInv, MeterTypeOK
<1>2. NowMs \in Nat
  BY <1>1, Clock DEF NowMs
<1> DEFINE active == Cardinality(Active(timestamps, NowMs))
           current == Cardinality(Active(windowGrants, NowMs))
<1>3. Len(Live(NowMs)) = active /\ active <= Len(timestamps) /\ active \in Nat
  BY <1>1, <1>2, LiveKeeps, ActiveCounted DEF MeterInv, WindowHeld
<1>4. current = active
  <2>1. NowMs - WindowMs \in Int /\ NowMs - WindowMs >= NowMs - WindowMs
    BY <1>2, MetersAssumption
  <2>2. Among(windowGrants, NowMs - WindowMs, NowMs) = Among(timestamps, NowMs - WindowMs, NowMs)
    BY <2>1 DEF MeterInv, WindowHeld
  <2> QED
    BY <2>2, <1>1, <1>2, ActiveCounted
<1>5. active <= MaxRequests /\ MaxRequests \in Nat
  <2>1. Len(timestamps) <= MaxRequests /\ MaxRequests \in Nat /\ Len(timestamps) \in Nat
    BY <1>1, MetersAssumption DEF MeterInv, WindowHeld
  <2> QED
    BY <2>1, <1>3
<1> HIDE DEF active, current
<1>6. WindowQuota = MaxRequests - active
  <2>1. WindowQuota = IF MaxRequests > active THEN MaxRequests - active ELSE 0
    BY DEF WindowQuota, active
  <2> QED
    BY <2>1, <1>3, <1>5
<1>7. Cardinality(Active(windowGrants, NowMs)) + WindowQuota = MaxRequests
  <2>1. current + WindowQuota = MaxRequests
    BY <1>3, <1>4, <1>5, <1>6
  <2> QED
    BY <2>1 DEF current
<1>8. WindowQuota = MaxRequests - Len(Live(NowMs))
  BY <1>3, <1>6
<1>9. BucketPairs
  BY DEF MeterInv, TokensHeld
<1>10. BucketQuota <= Refilled \div RefillMs
  <2>1. Refilled \in Nat /\ tokens <= Refilled /\ tokens \in Nat
    BY RefilledAtMost DEF MeterInv, MeterTypeOK
  <2>2. RefillMs \in Nat /\ RefillMs > 0
    BY MetersAssumption
  <2> QED
    BY <2>1, <2>2, QuotientsGrow DEF BucketQuota
<1>11. \A n \in 1 .. MaxAttempt :
         /\ RetryConfig.multiplier # 0 => GetDelayForAttempt(n - 1) <= GetDelayForAttempt(n)
         /\ GetDelayForAttempt(n) <= RetryConfig.maxDelay
         /\ ShouldRetry(n) => ShouldRetry(n - 1)
  <2>1. \A n \in 1 .. MaxAttempt : n \in Nat \ {0}
    BY MetersAssumption
  <2> QED
    BY <2>1, DelaysGrow
<1> QED
  BY <1>7, <1>8, <1>9, <1>10, <1>11 DEF LimitsHold, BucketPairs

-----------------------------------------------------------------------------
(* The metrics. *)

\* The samples are the last of all that were recorded, and as many as there is room for.
Latest(samples, all) ==
    /\ Len(samples) <= Len(all) /\ Len(samples) <= MaxHistogramSamples
    /\ Len(samples) < Len(all) => Len(samples) = MaxHistogramSamples
    /\ \A i \in 1 .. Len(samples) : samples[i] = all[Len(all) - Len(samples) + i]

MetricsInv ==
    /\ MetricsTypeOK
    /\ \A name \in MetricNames \ DOMAIN metrics : recorded[name] = <<>>
    /\ \A name \in DOMAIN metrics : Latest(metrics[name].samples, recorded[name])

LEMMA NoneIsLatest == Latest(<<>>, <<>>)
  BY MetersAssumption DEF Latest

LEMMA LatestGoesOn ==
  ASSUME NEW s \in Seq(Samples), NEW all \in Seq(Samples), Latest(s, all), NEW e \in Samples
  PROVE  LET longer == Append(s, e)
             next == IF Len(longer) > MaxHistogramSamples THEN Tail(longer) ELSE longer
         IN  next \in Seq(Samples) /\ Append(all, e) \in Seq(Samples)
             /\ Latest(next, Append(all, e))
<1> DEFINE longer == Append(s, e)
           next == IF Len(longer) > MaxHistogramSamples THEN Tail(longer) ELSE longer
           rec == Append(all, e)
           n == Len(s)
           m == Len(all)
           most == MaxHistogramSamples
<1>1. /\ longer \in Seq(Samples) /\ Len(longer) = n + 1 /\ n \in Nat /\ longer[n + 1] = e
      /\ \A i \in 1 .. n : longer[i] = s[i]
  OBVIOUS
<1>2. /\ rec \in Seq(Samples) /\ Len(rec) = m + 1 /\ m \in Nat /\ rec[m + 1] = e
      /\ \A i \in 1 .. m : rec[i] = all[i]
  OBVIOUS
<1>3. most \in Nat /\ most > 0
  BY ONLY MetersAssumption
<1>4. /\ n <= m /\ n <= most /\ (n < m => n = most)
      /\ \A i \in 1 .. n : s[i] = all[m - n + i]
  BY DEF Latest
<1> HIDE DEF longer, rec, n, m, most
<1>5. ASSUME NEW i \in 1 .. n + 1 PROVE longer[i] = rec[m - n + i]
  <2>1. CASE i = n + 1
    <3>1. m - n + i = m + 1
      BY <2>1, <1>1, <1>2
    <3> QED
      BY <2>1, <3>1, <1>1, <1>2
  <2>2. CASE i # n + 1
    <3>1. i \in 1 .. n /\ m - n + i \in 1 .. m
      BY <2>2, <1>1, <1>2, <1>4
    <3> QED
      BY <3>1, <1>1, <1>2, <1>4
  <2> QED
    BY <2>1, <2>2
<1>6. CASE n + 1 <= most
  <2>1. next = longer
    BY <1>1, <1>3, <1>6 DEF most
  <2>2. m + 1 - (n + 1) = m - n
    BY <1>1, <1>2
  <2>3. n + 1 <= m + 1 /\ ~(n < m) /\ ~(n + 1 < m + 1)
    BY <1>1, <1>2, <1>3, <1>4, <1>6
  <2>4. Latest(longer, rec)
    BY <2>2, <2>3, <1>1, <1>2, <1>5, <1>6 DEF Latest, most
  <2> QED
    BY <2>1, <2>4, <1>1, <1>2 DEF longer, rec
<1>7. CASE ~(n + 1 <= most)
  <2>1. next = Tail(longer) /\ n = most
    BY <1>1, <1>3, <1>4, <1>7 DEF most
  <2>2. /\ Tail(longer) \in Seq(Samples) /\ Len(Tail(longer)) = n
        /\ \A i \in 1 .. n : Tail(longer)[i] = longer[i + 1]
    <3>1. longer # <<>>
      BY <1>1
    <3>2. Tail(longer) \in Seq(Samples) /\ Len(Tail(longer)) = Len(longer) - 1
      BY <3>1, <1>1
    <3>3. \A i \in 1 .. Len(Tail(longer)) : Tail(longer)[i] = longer[i + 1]
      BY <3>1, <1>1
    <3> QED
      BY <3>2, <3>3, <1>1
  <2> DEFINE t == Tail(longer)
  <2>3. t \in Seq(Samples) /\ Len(t) = n /\ \A i \in 1 .. n : t[i] = longer[i + 1]
    BY <2>2
  <2> HIDE DEF t
  <2>4. ASSUME NEW i \in 1 .. n PROVE t[i] = rec[m + 1 - n + i]
    <3>1. i + 1 \in 1 .. n + 1 /\ m - n + (i + 1) = m + 1 - n + i
      BY <1>1, <1>2
    <3> QED
      BY <3>1, <2>3, <1>5
  <2>5. n <= m + 1 /\ n <= most
    BY <1>1, <1>2, <1>4
  <2>6. \A i \in 1 .. n : t[i] = rec[(m + 1) - n + i]
    <3>1. \A i \in 1 .. n : m + 1 - n + i = (m + 1) - n + i
      BY <1>1, <1>2
    <3> QED
      BY <3>1, <2>4
  <2>7. Latest(t, rec)
    BY <2>1, <2>3, <2>5, <2>6, <1>2 DEF Latest, most
  <2> QED
    BY <2>1, <2>3, <2>7, <1>2 DEF t, rec, longer
<1> QED
  BY <1>1, <1>3, <1>6, <1>7

LEMMA LatestIsTheEnd ==
  ASSUME NEW s \in Seq(Samples), NEW all \in Seq(Samples), Latest(s, all)
  PROVE  s = SubSeq(all, Len(all) - Len(s) + 1, Len(all))
<1> DEFINE n == Len(s)
           m == Len(all)
           t == SubSeq(all, m - n + 1, m)
<1>1. n \in Nat /\ m \in Nat /\ n <= m /\ DOMAIN s = 1 .. n /\ s \in [1 .. n -> Samples]
  BY DEF Latest
<1>2. m - n + 1 \in 1 .. m + 1
  BY <1>1
<1>3. /\ t \in Seq(Samples) /\ Len(t) = m - (m - n + 1) + 1
      /\ \A i \in 1 .. m - (m - n + 1) + 1 : t[i] = all[(m - n + 1) + i - 1]
  BY <1>1, <1>2
<1>4. \A i \in 1 .. n : s[i] = all[m - n + i]
  BY DEF Latest
<1> HIDE DEF n, m, t
<1>5. m - (m - n + 1) + 1 = n /\ \A i \in 1 .. n : (m - n + 1) + i - 1 = m - n + i
  BY <1>1
<1>6. Len(t) = n /\ \A i \in 1 .. n : t[i] = s[i]
  BY <1>3, <1>4, <1>5
<1>7. t \in [1 .. n -> Samples]
  BY <1>3, <1>6
<1>8. s = t
  BY <1>1, <1>6, <1>7
<1> QED
  BY <1>8 DEF t, n, m

-----------------------------------------------------------------------------
(* Sorting. *)

\* Which arrangements of a sequence put it in order.
InOrder(samples) ==
    {from \in Bijection(DOMAIN samples, DOMAIN samples) :
       \A i, j \in DOMAIN samples : i < j => samples[from[i]] <= samples[from[j]]}

\* Where one more has its place among those that are in order.
LEMMA SortedOneMore ==
  ASSUME NEW n \in Nat, NEW s \in [1 .. n + 1 -> Int], NEW from \in Bijection(1 .. n, 1 .. n),
         \A i, j \in 1 .. n : i < j => s[from[i]] <= s[from[j]]
  PROVE  \E to \in Bijection(1 .. n + 1, 1 .. n + 1) :
           \A i, j \in 1 .. n + 1 : i < j => s[to[i]] <= s[to[j]]
<1> DEFINE e == s[n + 1]
           room == {q \in 1 .. n + 1 : q = n + 1 \/ s[from[q]] > e}
<1>1. /\ from \in [1 .. n -> 1 .. n]
      /\ \A i, j \in 1 .. n : from[i] = from[j] => i = j
      /\ \A k \in 1 .. n : \E i \in 1 .. n : from[i] = k
  BY DEF Bijection, Injection, Surjection, IsInjective
<1>2. PICK q \in room : \A m \in room : q <= m
  <2>1. n + 1 \in 1 .. n + 1 /\ 1 .. n + 1 \in SUBSET Nat
    OBVIOUS
  <2>2. room \in SUBSET Nat /\ room # {}
    BY <2>1
  <2> HIDE DEF room
  <2> QED
    BY <2>2, LeastElement
<1>3. q \in 1 .. n + 1 /\ q \in Nat /\ (q = n + 1 \/ s[from[q]] > e)
  OBVIOUS
<1>4. \A i \in 1 .. n : from[i] \in 1 .. n /\ from[i] \in 1 .. n + 1 /\ s[from[i]] \in Int
  <2>1. \A i \in 1 .. n : i \in 1 .. n + 1
    OBVIOUS
  <2> QED
    BY <2>1, <1>1
<1>5. e \in Int
  BY n + 1 \in 1 .. n + 1
<1>6. \A i \in 1 .. n : i < q => s[from[i]] <= e
  <2> SUFFICES ASSUME NEW i \in 1 .. n, i < q, s[from[i]] > e PROVE FALSE
    BY <1>4, <1>5
  <2>1. i \in room
    OBVIOUS
  <2> QED
    BY <2>1, <1>2, <1>3
<1> HIDE DEF room
<1> DEFINE to == [i \in 1 .. n + 1 |-> IF i < q THEN from[i]
                                      ELSE IF i = q THEN n + 1 ELSE from[i - 1]]
<1>7. \A i \in 1 .. n + 1 : /\ i < q => i \in 1 .. n /\ to[i] = from[i]
                            /\ i = q => to[i] = n + 1
                            /\ i > q => i - 1 \in 1 .. n /\ to[i] = from[i - 1]
  BY <1>3
<1>8. to \in [1 .. n + 1 -> 1 .. n + 1]
  <2>1. \A i \in 1 .. n + 1 : to[i] \in 1 .. n + 1
    <3> SUFFICES ASSUME NEW i \in 1 .. n + 1 PROVE to[i] \in 1 .. n + 1
      OBVIOUS
    <3>1. i < q \/ i = q \/ i > q
      BY <1>3
    <3>2. n + 1 \in 1 .. n + 1
      OBVIOUS
    <3> HIDE DEF to
    <3> QED
      BY <3>1, <3>2, <1>4, <1>7
  <2>2. to = [i \in 1 .. n + 1 |-> to[i]]
    OBVIOUS
  <2> HIDE DEF to
  <2> QED
    BY <2>1, <2>2
<1> HIDE DEF to
<1>9. ASSUME NEW i \in 1 .. n + 1, NEW j \in 1 .. n + 1, to[i] = to[j]
      PROVE  i = j
  <2>1. (i < q \/ i = q \/ i > q) /\ (j < q \/ j = q \/ j > q)
    BY <1>3
  <2>2. \A k \in 1 .. n : from[k] # n + 1
    BY <1>4
  <2>3. i < q /\ j < q => i = j
    BY <1>1, <1>7, <1>9
  <2>4. i > q /\ j > q => i = j
    <3> SUFFICES ASSUME i > q, j > q PROVE i = j
      OBVIOUS
    <3>1. i - 1 = j - 1
      BY <1>1, <1>7, <1>9
    <3> QED
      BY <3>1
  <2>5. i < q /\ j > q => FALSE
    <3> SUFFICES ASSUME i < q, j > q PROVE FALSE
      OBVIOUS
    <3>1. i = j - 1
      BY <1>1, <1>7, <1>9
    <3> QED
      BY <3>1, <1>3
  <2>6. i > q /\ j < q => FALSE
    <3> SUFFICES ASSUME i > q, j < q PROVE FALSE
      OBVIOUS
    <3>1. i - 1 = j
      BY <1>1, <1>7, <1>9
    <3> QED
      BY <3>1, <1>3
  <2>7. i = q => j = q
    BY <2>1, <2>2, <1>7, <1>9
  <2>8. j = q => i = q
    BY <2>1, <2>2, <1>7, <1>9
  <2> QED
    BY <2>1, <2>3, <2>4, <2>5, <2>6, <2>7, <2>8
<1>10. ASSUME NEW k \in 1 .. n + 1 PROVE \E i \in 1 .. n + 1 : to[i] = k
  <2>1. CASE k = n + 1
    BY <2>1, <1>3, <1>7
  <2>2. CASE k # n + 1
    <3>1. k \in 1 .. n
      BY <2>2
    <3>2. PICK i \in 1 .. n : from[i] = k
      BY <3>1, <1>1
    <3>3. i \in 1 .. n + 1 /\ i + 1 \in 1 .. n + 1 /\ (i + 1) - 1 = i
      OBVIOUS
    <3>4. CASE i < q
      BY <3>2, <3>3, <3>4, <1>7
    <3>5. CASE ~(i < q)
      <4>1. i + 1 > q
        BY <3>5, <1>3
      <4>2. to[i + 1] = from[i]
        BY <3>3, <4>1, <1>7
      <4> QED
        BY <3>2, <3>3, <4>2
    <3> QED
      BY <3>4, <3>5
  <2> QED
    BY <2>1, <2>2
<1>11. to \in Bijection(1 .. n + 1, 1 .. n + 1)
  BY <1>8, <1>9, <1>10 DEF Bijection, Injection, Surjection, IsInjective
<1>12. ASSUME NEW i \in 1 .. n + 1, NEW j \in 1 .. n + 1, i < j
       PROVE  s[to[i]] <= s[to[j]]
  <2>1. CASE j < q
    <3>1. i < q
      BY <2>1, <1>3, <1>12
    <3> QED
      BY <2>1, <3>1, <1>7, <1>12
  <2>2. CASE j = q
    BY <2>2, <1>6, <1>7, <1>12
  <2>3. CASE j > q
    <3>1. j - 1 \in 1 .. n /\ to[j] = from[j - 1] /\ q \in 1 .. n /\ q <= j - 1
      BY <2>3, <1>3, <1>7
    <3>2. s[from[q]] > e
      BY <3>1, <1>3
    <3>3. s[from[q]] <= s[from[j - 1]]
      <4>1. CASE q = j - 1
        BY <3>1, <4>1, <1>4
      <4>2. CASE q # j - 1
        <5>1. q < j - 1
          BY <3>1, <4>2
        <5> QED
          BY <3>1, <5>1
      <4> QED
        BY <4>1, <4>2
    <3>4. e <= s[from[j - 1]]
      BY <3>1, <3>2, <3>3, <1>4, <1>5
    <3>5. CASE i = q
      BY <3>1, <3>4, <3>5, <1>7
    <3>6. CASE i < q
      <4>1. s[from[i]] <= e /\ i \in 1 .. n /\ to[i] = from[i]
        BY <3>6, <1>6, <1>7
      <4> QED
        BY <3>1, <3>4, <4>1, <1>4, <1>5
    <3>7. CASE i > q
      <4>1. i - 1 \in 1 .. n /\ to[i] = from[i - 1] /\ i - 1 < j - 1
        BY <3>7, <1>7, <1>12
      <4> QED
        BY <3>1, <4>1
    <3> QED
      BY <3>5, <3>6, <3>7, <1>3
  <2> QED
    BY <2>1, <2>2, <2>3, <1>3
<1> QED
  BY <1>11, <1>12

LEMMA OrderExists ==
  ASSUME NEW s \in Seq(Int)
  PROVE  InOrder(s) # {}
<1> DEFINE T == {n \in Nat : \A t \in [1 .. n -> Int] : \E from \in Bijection(1 .. n, 1 .. n) :
                   \A i, j \in 1 .. n : i < j => t[from[i]] <= t[from[j]]}
<1>1. 0 \in T
  <2>1. 1 .. 0 = {}
    OBVIOUS
  <2>2. [i \in {} |-> i] \in Bijection({}, {})
    BY DEF Bijection, Injection, Surjection, IsInjective
  <2> QED
    BY <2>1, <2>2
<1>2. ASSUME NEW n \in Nat, n \in T PROVE n + 1 \in T
  <2> SUFFICES ASSUME NEW t \in [1 .. n + 1 -> Int]
               PROVE  \E to \in Bijection(1 .. n + 1, 1 .. n + 1) :
                        \A i, j \in 1 .. n + 1 : i < j => t[to[i]] <= t[to[j]]
    OBVIOUS
  <2> DEFINE r == [i \in 1 .. n |-> t[i]]
  <2>1. r \in [1 .. n -> Int]
    <3>1. \A i \in 1 .. n : i \in 1 .. n + 1
      OBVIOUS
    <3> QED
      BY <3>1
  <2>2. PICK from \in Bijection(1 .. n, 1 .. n) :
          \A i, j \in 1 .. n : i < j => r[from[i]] <= r[from[j]]
    <3> HIDE DEF r
    <3> QED
      BY <2>1, <1>2
  <2>3. \A i \in 1 .. n : from[i] \in 1 .. n
    BY DEF Bijection, Injection
  <2>4. \A i, j \in 1 .. n : i < j => t[from[i]] <= t[from[j]]
    BY <2>2, <2>3
  <2> QED
    BY <2>4, SortedOneMore
<1>3. Nat \subseteq T
  <2> HIDE DEF T
  <2> QED
    BY <1>1, <1>2, CountingUp
<1>4. Len(s) \in Nat /\ DOMAIN s = 1 .. Len(s) /\ s \in [1 .. Len(s) -> Int]
  OBVIOUS
<1> QED
  BY <1>3, <1>4 DEF InOrder

\* Sorting puts in order what there is, and nothing else.
LEMMA SamplesAreSorted ==
  ASSUME NEW s \in Seq(Int)
  PROVE  /\ SortedSamples(s) \in Seq(Int) /\ Len(SortedSamples(s)) = Len(s)
         /\ \A i, j \in 1 .. Len(s) : i <= j => SortedSamples(s)[i] <= SortedSamples(s)[j]
<1> DEFINE D == DOMAIN s
           arranged(from) == [i \in D |-> s[from[i]]]
           rearranged == {arranged(from) : from \in Bijection(D, D)}
           good(t) == \A i, j \in DOMAIN t : i < j => t[i] <= t[j]
<1>1. D = 1 .. Len(s) /\ Len(s) \in Nat /\ s \in [D -> Int]
  OBVIOUS
<1>2. PICK from \in Bijection(D, D) : \A i, j \in D : i < j => s[from[i]] <= s[from[j]]
  BY OrderExists DEF InOrder
<1>3. arranged(from) \in rearranged /\ good(arranged(from))
  BY <1>2
<1>4. SortedSamples(s) = CHOOSE t \in rearranged : good(t)
  BY DEF SortedSamples
<1>5. SortedSamples(s) \in rearranged /\ good(SortedSamples(s))
  <2> HIDE DEF rearranged, good
  <2> QED
    BY <1>3, <1>4
<1>6. PICK g \in Bijection(D, D) : SortedSamples(s) = arranged(g)
  BY <1>5
<1>7. \A i \in D : g[i] \in D
  BY DEF Bijection, Injection
<1>8. SortedSamples(s) \in [D -> Int]
  BY <1>1, <1>6, <1>7
<1>9. SortedSamples(s) \in Seq(Int) /\ Len(SortedSamples(s)) = Len(s)
  BY <1>1, <1>8
<1>10. ASSUME NEW i \in D, NEW j \in D, i <= j
       PROVE  SortedSamples(s)[i] <= SortedSamples(s)[j]
  <2>1. DOMAIN SortedSamples(s) = D /\ SortedSamples(s)[i] \in Int
    BY <1>8
  <2>2. i < j \/ i = j
    BY <1>1, <1>10
  <2> QED
    BY <2>1, <2>2, <1>5
<1> QED
  BY <1>1, <1>9, <1>10

-----------------------------------------------------------------------------
(* Percentiles. *)

LEMMA Hundredths ==
  ASSUME NEW idx \in Nat
  PROVE  /\ idx \div 100 \in Nat /\ idx % 100 \in 0 .. 99
         /\ idx = 100 * (idx \div 100) + (idx % 100)
  OBVIOUS

\* What lies between two values, at so many hundredths of the way.
LEMMA Interpolated ==
  ASSUME NEW x \in Int, NEW y \in Int, x <= y, NEW r \in 0 .. 100
  PROVE  /\ x * (100 - r) + y * r \in Int
         /\ 100 * x <= x * (100 - r) + y * r /\ x * (100 - r) + y * r <= 100 * y
         /\ \A t \in r .. 100 : x * (100 - r) + y * r <= x * (100 - t) + y * t
<1> DEFINE d == y - x
<1>1. d \in Nat
  OBVIOUS
<1>2. \A t \in 0 .. 100 : x * (100 - t) + y * t = 100 * x + d * t /\ d * t \in Nat
  <2> SUFFICES ASSUME NEW t \in 0 .. 100
               PROVE  x * (100 - t) + y * t = 100 * x + d * t /\ d * t \in Nat
    OBVIOUS
  <2>1. t \in Nat /\ 100 - t \in Int
    OBVIOUS
  <2>2. x * (100 - t) = 100 * x - x * t
    BY <2>1
  <2>3. (y - x) * t = y * t - x * t
    BY <2>1
  <2>4. x * t \in Int /\ y * t \in Int /\ 100 * x \in Int
    BY <2>1
  <2>5. d * t \in Nat
    BY <1>1, <2>1
  <2> QED
    BY <2>2, <2>3, <2>4, <2>5
<1>3. \A t \in r .. 100 : d * r <= d * t
  <2> SUFFICES ASSUME NEW t \in r .. 100 PROVE d * r <= d * t
    OBVIOUS
  <2> HIDE DEF d
  <2>1. r \in Int /\ t \in Int /\ r <= t
    OBVIOUS
  <2>2. r * d <= t * d
    BY <1>1, <2>1, Products
  <2>3. r * d = d * r /\ t * d = d * t
    BY <1>1, <2>1
  <2> QED
    BY <2>2, <2>3
<1>4. 100 * x + d * 100 = 100 * y /\ 100 * x \in Int
  OBVIOUS
<1> HIDE DEF d
<1>5. d * r <= d * 100
  BY <1>3
<1>6. x * (100 - r) + y * r = 100 * x + d * r /\ d * r \in Nat
  BY <1>2
<1>7. d * 100 \in Nat
  BY <1>1
<1>8. /\ 100 * x + d * r \in Int /\ 100 * x <= 100 * x + d * r
      /\ 100 * x + d * r <= 100 * x + d * 100
  BY <1>4, <1>5, <1>6, <1>7
<1>9. ASSUME NEW t \in r .. 100
      PROVE  x * (100 - r) + y * r <= x * (100 - t) + y * t
  <2>1. t \in 0 .. 100
    OBVIOUS
  <2>2. x * (100 - t) + y * t = 100 * x + d * t /\ d * t \in Nat
    BY <2>1, <1>2
  <2>3. d * r <= d * t
    BY <1>3
  <2> QED
    BY <2>2, <2>3, <1>4, <1>6
<1> QED
  BY <1>4, <1>6, <1>8, <1>9

\* Where a percentile lies: on a sample, or so many hundredths of the way to the next one.
IndexBelow(s, p) == (p * (Len(s) - 1)) \div 100
Beyond(s, p) == (p * (Len(s) - 1)) % 100

LEMMA PercentileLies ==
  ASSUME NEW s \in Seq(Int), s # <<>>, NEW p \in 0 .. 100
  PROVE  /\ p * (Len(s) - 1) = 100 * IndexBelow(s, p) + Beyond(s, p)
         /\ IndexBelow(s, p) \in Nat /\ Beyond(s, p) \in 0 .. 99
         /\ IndexBelow(s, p) + 1 \in 1 .. Len(s)
         /\ Beyond(s, p) # 0 => IndexBelow(s, p) + 2 \in 1 .. Len(s)
         /\ Percentile(s, p) =
              IF Beyond(s, p) = 0 THEN 100 * s[IndexBelow(s, p) + 1]
              ELSE s[IndexBelow(s, p) + 1] * (100 - Beyond(s, p))
                     + s[IndexBelow(s, p) + 2] * Beyond(s, p)
<1> DEFINE n == Len(s)
           idx == p * (n - 1)
           lo == IndexBelow(s, p)
           rest == Beyond(s, p)
<1>1. n \in Nat /\ n > 0 /\ n - 1 \in Nat
  OBVIOUS
<1> HIDE DEF n
<1>2. p \in Int /\ 100 \in Int /\ p <= 100 /\ p >= 0
  OBVIOUS
<1>3. idx \in Nat /\ idx <= 100 * (n - 1)
  BY <1>1, <1>2, Products
<1>4. lo = idx \div 100 /\ rest = idx % 100
  BY DEF n, IndexBelow, Beyond
<1>5. Percentile(s, p) = IF rest = 0 THEN 100 * s[lo + 1]
                         ELSE s[lo + 1] * (100 - rest) + s[lo + 2] * rest
  BY <1>4 DEF Percentile, n
<1> HIDE DEF idx, lo, rest
<1>6. lo \in Nat /\ rest \in 0 .. 99 /\ idx = 100 * lo + rest
  <2>1. /\ idx \div 100 \in Nat /\ idx % 100 \in 0 .. 99
        /\ idx = 100 * (idx \div 100) + (idx % 100)
    BY <1>3, Hundredths
  <2> QED
    BY <2>1, <1>4, Zenon
<1>7. lo <= n - 1 /\ (rest # 0 => lo + 1 <= n - 1)
  BY <1>1, <1>3, <1>6
<1>8. lo + 1 \in 1 .. n /\ (rest # 0 => lo + 2 \in 1 .. n)
  BY <1>1, <1>6, <1>7
<1> QED
  BY <1>5, <1>6, <1>8 DEF n, idx, lo, rest

LEMMA PercentilesGrow ==
  ASSUME NEW s \in Seq(Int), s # <<>>, \A i, j \in 1 .. Len(s) : i <= j => s[i] <= s[j],
         NEW p \in 0 .. 100, NEW q \in 0 .. 100, p <= q
  PROVE  Percentile(s, p) <= Percentile(s, q)
<1> DEFINE n == Len(s)
           lo == IndexBelow(s, p)
           rest == Beyond(s, p)
           hi == IndexBelow(s, q)
           more == Beyond(s, q)
<1>1. n \in Nat /\ n > 0 /\ n - 1 \in Nat /\ \A i \in 1 .. n : s[i] \in Int
  OBVIOUS
<1>2. \A i, j \in 1 .. n : i <= j => s[i] <= s[j]
  OBVIOUS
<1>3. /\ p * (n - 1) = 100 * lo + rest /\ lo \in Nat /\ rest \in 0 .. 99
      /\ lo + 1 \in 1 .. n /\ (rest # 0 => lo + 2 \in 1 .. n)
  BY PercentileLies
<1>4. /\ q * (n - 1) = 100 * hi + more /\ hi \in Nat /\ more \in 0 .. 99
      /\ hi + 1 \in 1 .. n /\ (more # 0 => hi + 2 \in 1 .. n)
  BY PercentileLies
<1>5. /\ rest = 0 => Percentile(s, p) = 100 * s[lo + 1]
      /\ rest # 0 => Percentile(s, p) = s[lo + 1] * (100 - rest) + s[lo + 2] * rest
  BY PercentileLies
<1>6. /\ more = 0 => Percentile(s, q) = 100 * s[hi + 1]
      /\ more # 0 => Percentile(s, q) = s[hi + 1] * (100 - more) + s[hi + 2] * more
  BY PercentileLies
<1> HIDE DEF n, lo, rest, hi, more
<1>7. 100 * lo + rest <= 100 * hi + more
  <2>1. p \in Int /\ q \in Int
    OBVIOUS
  <2>2. p * (n - 1) <= q * (n - 1)
    BY <2>1, <1>1, Products
  <2> QED
    BY <2>2, <1>3, <1>4
<1>8. lo < hi \/ (lo = hi /\ rest <= more)
  BY ONLY <1>3, <1>4, <1>7
<1>9. rest \in 0 .. 100 /\ more \in 0 .. 100 /\ s[lo + 1] \in Int /\ s[hi + 1] \in Int
  BY <1>1, <1>3, <1>4
\* The upper value is no less than the sample it starts at.
<1>10. 100 * s[hi + 1] <= Percentile(s, q)
  <2>1. CASE more = 0
    <3>1. Percentile(s, q) = 100 * s[hi + 1] /\ 100 * s[hi + 1] \in Int
      BY <2>1, <1>6, <1>9
    <3> QED
      BY <3>1
  <2>2. CASE more # 0
    <3>1. hi + 2 \in 1 .. n /\ hi + 1 <= hi + 2
      BY <2>2, <1>4
    <3>2. s[hi + 2] \in Int /\ s[hi + 1] <= s[hi + 2]
      BY <3>1, <1>1, <1>2, <1>4
    <3>3. 100 * s[hi + 1] <= s[hi + 1] * (100 - more) + s[hi + 2] * more
      BY <3>2, <1>9, Interpolated
    <3> QED
      BY <2>2, <3>3, <1>6
  <2> QED
    BY <2>1, <2>2
<1>11. Percentile(s, q) \in Int
  <2>1. CASE more = 0
    BY <2>1, <1>6, <1>9
  <2>2. CASE more # 0
    <3>1. hi + 2 \in 1 .. n /\ hi + 1 <= hi + 2
      BY <2>2, <1>4
    <3>2. s[hi + 2] \in Int /\ s[hi + 1] <= s[hi + 2]
      BY <3>1, <1>1, <1>2, <1>4
    <3>3. s[hi + 1] * (100 - more) + s[hi + 2] * more \in Int
      BY <3>2, <1>9, Interpolated
    <3> QED
      BY <2>2, <3>3, <1>6
  <2> QED
    BY <2>1, <2>2
<1>12. CASE lo < hi
  <2>1. lo + 1 <= hi + 1 /\ lo + 2 \in 1 .. n /\ lo + 2 <= hi + 1 /\ lo + 1 <= lo + 2
    BY ONLY <1>1, <1>3, <1>4, <1>12
  <2>2. s[lo + 2] <= s[hi + 1] /\ s[lo + 1] <= s[hi + 1] /\ s[lo + 1] <= s[lo + 2]
    BY <2>1, <1>2, <1>3, <1>4
  <2>3. s[lo + 2] \in Int
    BY <2>1, <1>1
  <2>4. CASE rest = 0
    <3>1. Percentile(s, p) <= 100 * s[hi + 1] /\ Percentile(s, p) \in Int
      BY <2>2, <2>4, <1>5, <1>9
    <3> QED
      BY <3>1, <1>9, <1>10, <1>11
  <2>5. CASE rest # 0
    <3>1. /\ s[lo + 1] * (100 - rest) + s[lo + 2] * rest \in Int
          /\ s[lo + 1] * (100 - rest) + s[lo + 2] * rest <= 100 * s[lo + 2]
      BY <2>2, <2>3, <1>9, Interpolated
    <3>2. Percentile(s, p) \in Int /\ Percentile(s, p) <= 100 * s[lo + 2]
      BY <2>5, <3>1, <1>5
    <3>3. s[hi + 1] \in Int /\ 100 * s[lo + 2] <= 100 * s[hi + 1]
      BY ONLY <2>2, <2>3, <1>9
    <3> QED
      BY ONLY <3>2, <3>3, <2>3, <1>10, <1>11
  <2> QED
    BY <2>4, <2>5
<1>13. CASE lo = hi /\ rest <= more
  <2>1. CASE rest = 0
    BY <2>1, <1>5, <1>10, <1>13
  <2>2. CASE rest # 0
    <3>1. more # 0 /\ more \in rest .. 100
      BY <2>2, <1>3, <1>4, <1>13
    <3>2. hi + 2 \in 1 .. n /\ hi + 1 <= hi + 2
      BY <3>1, <1>4
    <3>3. s[hi + 2] \in Int /\ s[hi + 1] <= s[hi + 2]
      BY <3>2, <1>1, <1>2, <1>4
    <3>4. s[hi + 1] * (100 - rest) + s[hi + 2] * rest
            <= s[hi + 1] * (100 - more) + s[hi + 2] * more
      BY <3>1, <3>3, <1>9, Interpolated
    <3> QED
      BY <2>2, <3>1, <3>4, <1>5, <1>6, <1>13
  <2> QED
    BY <2>1, <2>2
<1> QED
  BY <1>8, <1>12, <1>13

LEMMA StatsAreOrdered ==
  ASSUME NEW name \in DOMAIN metrics, metrics[name].samples \in Seq(Int),
         metrics[name].samples # <<>>
  PROVE  \A i \in 1 .. 4 : GetHistogramStats(name)[i] <= GetHistogramStats(name)[i + 1]
<1> DEFINE given == metrics[name].samples
           s == SortedSamples(given)
           n == Len(s)
<1>1. /\ s \in Seq(Int) /\ n = Len(given)
      /\ \A i, j \in 1 .. n : i <= j => s[i] <= s[j]
  BY SamplesAreSorted
<1>2. GetHistogramStats(name) = <<100 * Head(s), Percentile(s, 50), Percentile(s, 95),
                                  Percentile(s, 99), 100 * Last(s)>>
  BY DEF GetHistogramStats
<1>3. Len(given) > 0 /\ Len(given) \in Nat
  OBVIOUS
<1> HIDE DEF given, s
<1>4. s # <<>> /\ n \in Nat /\ n > 0 /\ n - 1 \in Nat
  BY <1>1, <1>3
<1>5. Head(s) = s[1] /\ Last(s) = s[n]
  BY <1>1, <1>4 DEF Last
<1> HIDE DEF n
<1>6. Percentile(s, 0) = 100 * s[1]
  <2> DEFINE lo == IndexBelow(s, 0)
             rest == Beyond(s, 0)
  <2>1. /\ 0 * (n - 1) = 100 * lo + rest /\ lo \in Nat /\ rest \in 0 .. 99
        /\ rest = 0 => Percentile(s, 0) = 100 * s[lo + 1]
    <3>1. 0 \in 0 .. 100
      OBVIOUS
    <3>2. /\ 0 * (Len(s) - 1) = 100 * IndexBelow(s, 0) + Beyond(s, 0)
          /\ IndexBelow(s, 0) \in Nat /\ Beyond(s, 0) \in 0 .. 99
          /\ Percentile(s, 0) =
               IF Beyond(s, 0) = 0 THEN 100 * s[IndexBelow(s, 0) + 1]
               ELSE s[IndexBelow(s, 0) + 1] * (100 - Beyond(s, 0))
                      + s[IndexBelow(s, 0) + 2] * Beyond(s, 0)
      BY ONLY <3>1, <1>1, <1>4, PercentileLies
    <3>3. rest = 0 => Percentile(s, 0) = 100 * s[lo + 1]
      BY ONLY <3>2, Zenon
    <3>4. n = Len(s) /\ lo = IndexBelow(s, 0) /\ rest = Beyond(s, 0)
      BY DEF n
    <3> HIDE DEF lo, rest
    <3> QED
      BY ONLY <3>2, <3>3, <3>4
  <2> HIDE DEF lo, rest
  <2>2. 0 * (n - 1) = 0
    BY <1>4
  <2>3. lo = 0 /\ rest = 0
    BY ONLY <2>1, <2>2
  <2>4. lo + 1 = 1
    BY <2>3
  <2> QED
    BY <2>1, <2>3, <2>4
<1>7. Percentile(s, 100) = 100 * s[n]
  <2> DEFINE lo == IndexBelow(s, 100)
             rest == Beyond(s, 100)
  <2>1. /\ 100 * (n - 1) = 100 * lo + rest /\ lo \in Nat /\ rest \in 0 .. 99
        /\ rest = 0 => Percentile(s, 100) = 100 * s[lo + 1]
    <3>1. 100 \in 0 .. 100
      OBVIOUS
    <3>2. /\ 100 * (Len(s) - 1) = 100 * IndexBelow(s, 100) + Beyond(s, 100)
          /\ IndexBelow(s, 100) \in Nat /\ Beyond(s, 100) \in 0 .. 99
          /\ Percentile(s, 100) =
               IF Beyond(s, 100) = 0 THEN 100 * s[IndexBelow(s, 100) + 1]
               ELSE s[IndexBelow(s, 100) + 1] * (100 - Beyond(s, 100))
                      + s[IndexBelow(s, 100) + 2] * Beyond(s, 100)
      BY ONLY <3>1, <1>1, <1>4, PercentileLies
    <3>3. rest = 0 => Percentile(s, 100) = 100 * s[lo + 1]
      BY ONLY <3>2, Zenon
    <3>4. n = Len(s) /\ lo = IndexBelow(s, 100) /\ rest = Beyond(s, 100)
      BY DEF n
    <3> HIDE DEF lo, rest
    <3> QED
      BY ONLY <3>2, <3>3, <3>4
  <2> HIDE DEF lo, rest
  <2>2. lo = n - 1 /\ rest = 0
    BY <2>1, <1>4
  <2>3. lo + 1 = n
    BY <2>2, <1>4
  <2> QED
    BY <2>1, <2>2, <2>3
<1>8. /\ Percentile(s, 0) <= Percentile(s, 50) /\ Percentile(s, 50) <= Percentile(s, 95)
      /\ Percentile(s, 95) <= Percentile(s, 99) /\ Percentile(s, 99) <= Percentile(s, 100)
  <2>1. /\ {0, 50, 95, 99, 100} \subseteq 0 .. 100
        /\ 0 <= 50 /\ 50 <= 95 /\ 95 <= 99 /\ 99 <= 100
    OBVIOUS
  <2>2. \A i, j \in 1 .. Len(s) : i <= j => s[i] <= s[j]
    BY <1>1 DEF n
  <2>3. \A p, q \in 0 .. 100 : p <= q => Percentile(s, p) <= Percentile(s, q)
    BY ONLY <1>1, <1>4, <2>2, PercentilesGrow
  <2> QED
    BY ONLY <2>1, <2>3
<1> DEFINE stats == <<100 * Head(s), Percentile(s, 50), Percentile(s, 95),
                      Percentile(s, 99), 100 * Last(s)>>
<1>9. /\ stats[1] = Percentile(s, 0) /\ stats[2] = Percentile(s, 50)
      /\ stats[3] = Percentile(s, 95) /\ stats[4] = Percentile(s, 99)
      /\ stats[5] = Percentile(s, 100)
  BY <1>5, <1>6, <1>7
<1>10. GetHistogramStats(name) = stats
  BY <1>2
<1> HIDE DEF stats
<1>11. stats[1] <= stats[2] /\ stats[2] <= stats[3] /\ stats[3] <= stats[4] /\ stats[4] <= stats[5]
  BY <1>8, <1>9
<1>12. \A i \in 1 .. 4 : stats[i] <= stats[i + 1]
  <2>1. \A i \in 1 .. 4 : (i = 1 /\ i + 1 = 2) \/ (i = 2 /\ i + 1 = 3)
                          \/ (i = 3 /\ i + 1 = 4) \/ (i = 4 /\ i + 1 = 5)
    OBVIOUS
  <2> QED
    BY <2>1, <1>11
<1> QED
  BY <1>10, <1>12

LEMMA MetricsFollow ==
  ASSUME MetricsInv
  PROVE  StatsFollowTheSamples
<1> SUFFICES ASSUME NEW name \in DOMAIN metrics
             PROVE  LET samples == metrics[name].samples
                        all == recorded[name]
                        skipped == Len(all) - Len(samples)
                    IN  /\ samples = SubSeq(all, skipped + 1, Len(all))
                        /\ skipped > 0 => Len(samples) = MaxHistogramSamples
                        /\ samples # <<>> =>
                             LET stats == GetHistogramStats(name)
                             IN  \A i \in 1 .. 4 : stats[i] <= stats[i + 1]
  BY DEF StatsFollowTheSamples
<1> DEFINE samples == metrics[name].samples
           all == recorded[name]
<1>1. samples \in Seq(Samples) /\ all \in Seq(Samples) /\ Latest(samples, all)
  BY DEF MetricsInv, MetricsTypeOK, Metric
<1>2. Samples \subseteq Int /\ Len(samples) \in Nat /\ Len(all) \in Nat
  <2>1. Samples \subseteq Int
    BY ONLY MetersAssumption
  <2>2. Len(samples) \in Nat /\ Len(all) \in Nat
    BY ONLY <1>1
  <2> QED
    BY ONLY <2>1, <2>2
<1>3. samples = SubSeq(all, Len(all) - Len(samples) + 1, Len(all))
  BY <1>1, LatestIsTheEnd
<1>4. Len(all) - Len(samples) > 0 => Len(samples) = MaxHistogramSamples
  <2>1. Len(samples) < Len(all) => Len(samples) = MaxHistogramSamples
    BY <1>1 DEF Latest
  <2> HIDE DEF samples, all
  <2> QED
    BY <2>1, <1>2
<1>5. samples \in Seq(Int)
  <2> HIDE DEF samples
  <2>1. \A i \in DOMAIN samples : samples[i] \in Int
    BY <1>1, <1>2, Elements
  <2>2. DOMAIN samples = 1 .. Len(samples) /\ samples = [i \in DOMAIN samples |-> samples[i]]
    BY <1>1
  <2> QED
    BY <2>1, <2>2, <1>2
<1>6. samples # <<>> =>
        \A i \in 1 .. 4 : GetHistogramStats(name)[i] <= GetHistogramStats(name)[i + 1]
  BY <1>5, StatsAreOrdered
<1> QED
  BY <1>3, <1>4, <1>6

LEMMA MetricsStart == MetricsInit => MetricsInv
<1> SUFFICES ASSUME MetricsInit PROVE MetricsInv
  OBVIOUS
<1>1. DOMAIN metrics = {} /\ metrics \in [{} -> Metric]
  BY DEF MetricsInit
<1> QED
  BY <1>1 DEF MetricsInit, MetricsInv, MetricsTypeOK

\* A step that changes what is known of one name.
LEMMA OneMetric ==
  ASSUME MetricsInv, NEW name \in MetricNames, NEW m \in Metric, NEW all \in Seq(Samples),
         Latest(m.samples, all),
         DOMAIN metrics' = DOMAIN metrics \cup {name},
         metrics' = [n \in DOMAIN metrics' |-> IF n = name THEN m ELSE metrics[n]],
         recorded' = [recorded EXCEPT ![name] = all]
  PROVE  MetricsInv'
<1>1. DOMAIN metrics \subseteq MetricNames /\ metrics \in [DOMAIN metrics -> Metric]
      /\ recorded \in [MetricNames -> Seq(Samples)]
  BY DEF MetricsInv, MetricsTypeOK
<1>2. /\ metrics'[name] = m /\ recorded'[name] = all
      /\ \A n \in DOMAIN metrics' : n # name => n \in DOMAIN metrics /\ metrics'[n] = metrics[n]
      /\ \A n \in MetricNames : n # name => recorded'[n] = recorded[n]
  BY <1>1
<1>3. MetricsTypeOK'
  <2>1. DOMAIN metrics' \subseteq MetricNames
    BY <1>1
  <2>2. \A n \in DOMAIN metrics' : (IF n = name THEN m ELSE metrics[n]) \in Metric
    BY <1>1
  <2>3. metrics' \in [DOMAIN metrics' -> Metric]
    BY <2>2
  <2>4. recorded' \in [MetricNames -> Seq(Samples)]
    BY <1>1
  <2> QED
    BY <2>1, <2>3, <2>4 DEF MetricsTypeOK
<1>4. \A n \in MetricNames \ DOMAIN metrics' : recorded'[n] = <<>>
  BY <1>2 DEF MetricsInv
<1>5. ASSUME NEW n \in DOMAIN metrics' PROVE Latest(metrics'[n].samples, recorded'[n])
  <2>1. CASE n = name
    BY <2>1, <1>2
  <2>2. CASE n # name
    <3>1. n \in DOMAIN metrics /\ metrics'[n] = metrics[n] /\ recorded'[n] = recorded[n]
      BY <2>2, <1>1, <1>2
    <3>2. Latest(metrics[n].samples, recorded[n])
      BY <3>1 DEF MetricsInv
    <3> QED
      BY <3>1, <3>2
  <2> QED
    BY <2>1, <2>2
<1>6. \A n \in DOMAIN metrics' : Latest(metrics'[n].samples, recorded'[n])
  BY <1>5
<1> QED
  BY <1>3, <1>4, <1>6 DEF MetricsInv, Latest

LEMMA MetricsStep ==
  ASSUME MetricsInv, [MetricsNext]_metricVars
  PROVE  MetricsInv'
<1>1. /\ DOMAIN metrics \subseteq MetricNames /\ metrics \in [DOMAIN metrics -> Metric]
      /\ recorded \in [MetricNames -> Seq(Samples)] /\ Samples \subseteq Int
  BY MetersAssumption DEF MetricsInv, MetricsTypeOK
<1>2. CASE UNCHANGED metricVars
  BY <1>2 DEF metricVars, MetricsInv, MetricsTypeOK
<1>3. ASSUME NEW name \in MetricNames, NEW type \in {"COUNTER", "GAUGE", "HISTOGRAM"},
             Register(name, type)
      PROVE  MetricsInv'
  <2>1. NewMetric(type) \in Metric /\ NewMetric(type).samples = <<>>
    BY DEF NewMetric, Metric
  <2>2. recorded[name] = <<>> /\ <<>> \in Seq(Samples)
    BY <1>3 DEF Register, MetricsInv
  <2>3. Latest(NewMetric(type).samples, <<>>)
    BY <2>1, NoneIsLatest
  <2>4. /\ DOMAIN metrics' = DOMAIN metrics \cup {name}
        /\ metrics' = [n \in DOMAIN metrics' |-> IF n = name THEN NewMetric(type) ELSE metrics[n]]
        /\ recorded' = recorded
    BY <1>3 DEF Register
  <2>5. recorded' = [recorded EXCEPT ![name] = <<>>]
    BY <2>2, <2>4, <1>1
  <2> QED
    BY <2>1, <2>2, <2>3, <2>4, <2>5, OneMetric
\* Steps at a metric that is there.
<1>4. ASSUME NEW name \in DOMAIN metrics, NEW m \in Metric, m.samples = metrics[name].samples,
             metrics' = [metrics EXCEPT ![name] = m], UNCHANGED recorded
      PROVE  MetricsInv'
  <2>1. name \in MetricNames /\ recorded[name] \in Seq(Samples)
    BY <1>1
  <2>2. Latest(m.samples, recorded[name])
    BY <1>4 DEF MetricsInv
  <2>3. /\ DOMAIN metrics' = DOMAIN metrics \cup {name}
        /\ metrics' = [n \in DOMAIN metrics' |-> IF n = name THEN m ELSE metrics[n]]
        /\ recorded' = [recorded EXCEPT ![name] = recorded[name]]
    BY <1>1, <1>4
  <2> QED
    BY <2>1, <2>2, <2>3, OneMetric
<1>5. ASSUME NEW name \in MetricNames, IncrementCounter(name)
      PROVE  MetricsInv'
  <2>1. name \in DOMAIN metrics /\ UNCHANGED recorded
    BY <1>5 DEF IncrementCounter, Is
  <2>2. metrics[name] \in Metric
    BY <2>1, <1>1
  <2> DEFINE m == [metrics[name] EXCEPT !.value = metrics[name].value + 1]
  <2>3. m \in Metric /\ m.samples = metrics[name].samples
    BY <2>2 DEF Metric
  <2>4. metrics' = [metrics EXCEPT ![name] = m]
    BY <1>5 DEF IncrementCounter
  <2> HIDE DEF m
  <2> QED
    BY <2>1, <2>3, <2>4, <1>4
<1>6. ASSUME NEW name \in MetricNames, NEW value \in Samples, SetGauge(name, value)
      PROVE  MetricsInv'
  <2>1. name \in DOMAIN metrics /\ UNCHANGED recorded
    BY <1>6 DEF SetGauge, Is
  <2>2. metrics[name] \in Metric /\ value \in Int
    BY <2>1, <1>1
  <2> DEFINE m == [metrics[name] EXCEPT !.value = value]
  <2>3. m \in Metric /\ m.samples = metrics[name].samples
    BY <2>2 DEF Metric
  <2>4. metrics' = [metrics EXCEPT ![name] = m]
    BY <1>6 DEF SetGauge
  <2> HIDE DEF m
  <2> QED
    BY <2>1, <2>3, <2>4, <1>4
<1>7. ASSUME NEW name \in MetricNames, NEW value \in Samples, RecordHistogramSample(name, value)
      PROVE  MetricsInv'
  <2>1. name \in DOMAIN metrics
    BY <1>7 DEF RecordHistogramSample, Is
  <2>2. /\ metrics[name] \in Metric /\ recorded[name] \in Seq(Samples)
        /\ metrics[name].samples \in Seq(Samples) /\ Latest(metrics[name].samples, recorded[name])
    BY <2>1, <1>1 DEF Metric, MetricsInv
  <2> DEFINE longer == Append(metrics[name].samples, value)
             next == IF Len(longer) > MaxHistogramSamples THEN Tail(longer) ELSE longer
             m == [metrics[name] EXCEPT !.samples = next]
             all == Append(recorded[name], value)
  <2>3. next \in Seq(Samples) /\ all \in Seq(Samples) /\ Latest(next, all)
    BY <2>2, LatestGoesOn
  <2>4. /\ metrics' = [metrics EXCEPT ![name] = m]
        /\ recorded' = [recorded EXCEPT ![name] = all]
    BY <1>7 DEF RecordHistogramSample
  <2> HIDE DEF next, all
  <2>5. m \in Metric /\ m.samples = next
    BY <2>2, <2>3 DEF Metric
  <2> HIDE DEF m
  <2>6. /\ DOMAIN metrics' = DOMAIN metrics \cup {name}
        /\ metrics' = [n \in DOMAIN metrics' |-> IF n = name THEN m ELSE metrics[n]]
    BY <2>1, <2>4, <1>1
  <2>7. Latest(m.samples, all)
    BY <2>3, <2>5
  <2> QED
    BY <2>3, <2>4, <2>5, <2>6, <2>7, <1>7, OneMetric
<1>8. CASE ResetAll
  <2>1. /\ metrics' = [n \in DOMAIN metrics |-> NewMetric(metrics[n].type)]
        /\ recorded' = [n \in MetricNames |-> <<>>]
    BY <1>8 DEF ResetAll
  <2>2. \A n \in DOMAIN metrics :
          NewMetric(metrics[n].type) \in Metric /\ NewMetric(metrics[n].type).samples = <<>>
    BY <1>1 DEF NewMetric, Metric
  <2>3. DOMAIN metrics' = DOMAIN metrics
    BY <2>1
  <2>4. MetricsTypeOK'
    <3>1. metrics' \in [DOMAIN metrics' -> Metric]
      BY <2>1, <2>2, <2>3
    <3>2. recorded' \in [MetricNames -> Seq(Samples)]
      BY <2>1
    <3> QED
      BY <3>1, <3>2, <2>3, <1>1 DEF MetricsTypeOK
  <2>5. \A n \in MetricNames : recorded'[n] = <<>>
    BY <2>1
  <2>6. \A n \in DOMAIN metrics' : Latest(metrics'[n].samples, recorded'[n])
    BY <2>1, <2>2, <2>3, <2>5, <1>1, NoneIsLatest
  <2> QED
    BY <2>4, <2>5, <2>6 DEF MetricsInv, Latest
<1> QED
  BY <1>2, <1>3, <1>5, <1>6, <1>7, <1>8 DEF MetricsNext

\* What both parts of the meters keep.
MetersInv == MeterInv /\ MetricsInv

LEMMA MetersAlways == MetersSpec => []MetersInv
<1>1. MeterInit /\ MetricsInit => MetersInv
  BY MetersStart, MetricsStart DEF MetersInv
<1>2. MetersInv /\ [MetersNext]_<<meterVars, metricVars>> => MetersInv'
  <2>1. ASSUME [MetersNext]_<<meterVars, metricVars>>
        PROVE  [MeterNext]_meterVars /\ [MetricsNext]_metricVars
    BY <2>1 DEF MetersNext
  <2> QED
    BY <2>1, MeterStep, MetricsStep DEF MetersInv
<1> QED
  BY <1>1, <1>2, PTL DEF MetersSpec

\* The meters: times are of the past, tokens no more than the bucket holds, and a metric has
\* the samples, or the value, of its type.
THEOREM MetersTypeCorrect == MetersSpec => []MetersTypeOK
<1>1. MetersInv => MetersTypeOK
  BY DEF MetersInv, MeterInv, MetricsInv, MetersTypeOK
<1> QED
  BY <1>1, MetersAlways, PTL

\* The two limiters let through what they may, at every rate of requests and of the clock,
\* and the statistics are those of the latest samples, in their order.
THEOREM MetersAreAlwaysRight == MetersSpec => []MetersAreRight
<1>1. MetersInv => MetersAreRight
  BY MeterLimits, MetricsFollow DEF MetersInv, MetersAreRight
<1> QED
  BY <1>1, MetersAlways, PTL

-----------------------------------------------------------------------------
(* Text: where the loops over it stop. *)

\* Positions that a loop comes to from `pos' on, of n.
Comes(w, pos, n, sizes) ==
    /\ w \in Seq(1 .. n)
    /\ pos <= n => Len(w) > 0 /\ w[1] = pos
    /\ pos > n => w = <<>>
    /\ \A k \in 1 .. Len(w) - 1 : w[k + 1] = w[k] + sizes[w[k]]
    /\ Len(w) > 0 => w[Len(w)] + sizes[w[Len(w)]] > n

LEMMA ComesFromBefore ==
  ASSUME NEW n \in Nat, NEW sizes \in [1 .. n -> 1 .. 4], NEW pos \in 1 .. n,
         NEW w, Comes(w, pos + sizes[pos], n, sizes)
  PROVE  Comes(<<pos>> \o w, pos, n, sizes)
<1> DEFINE v == <<pos>> \o w
<1>1. w \in Seq(1 .. n) /\ <<pos>> \in Seq(1 .. n) /\ sizes[pos] \in 1 .. 4
  BY DEF Comes
<1>2. v \in Seq(1 .. n) /\ Len(v) = Len(w) + 1 /\ v[1] = pos
  BY <1>1
<1>3. \A k \in 1 .. Len(w) : v[k + 1] = w[k]
  BY <1>1
<1> HIDE DEF v
<1>4. Len(w) \in Nat
  BY <1>1
<1>5. ASSUME NEW k \in 1 .. Len(v) - 1 PROVE v[k + 1] = v[k] + sizes[v[k]]
  <2>1. k \in 1 .. Len(w)
    BY <1>2, <1>4, <1>5
  <2>2. CASE k = 1
    <3>1. pos + sizes[pos] <= n
      <4>1. w # <<>>
        BY <1>1, <2>1, <2>2
      <4> QED
        BY <4>1, <1>1 DEF Comes
    <3> QED
      BY <1>2, <1>3, <2>1, <2>2, <3>1 DEF Comes
  <2>3. CASE k # 1
    <3>1. k - 1 \in 1 .. Len(w) - 1 /\ k - 1 \in 1 .. Len(w) /\ (k - 1) + 1 = k
      BY <1>4, <2>1, <2>3
    <3>2. w[k] = w[k - 1] + sizes[w[k - 1]]
      BY <3>1 DEF Comes
    <3>3. v[k + 1] = w[k] /\ v[k] = w[k - 1]
      BY <1>3, <2>1, <3>1
    <3> QED
      BY <3>2, <3>3
  <2> QED
    BY <2>2, <2>3
<1>6. v[Len(v)] + sizes[v[Len(v)]] > n
  <2>1. CASE w = <<>>
    <3>1. Len(v) = 1 /\ v[Len(v)] = pos
      BY <1>2, <2>1
    <3>2. pos + sizes[pos] > n
      <4>1. ~(Len(w) > 0)
        BY <2>1
      <4> QED
        BY ONLY <4>1, <1>1, Comes(w, pos + sizes[pos], n, sizes), n \in Nat, pos \in 1 .. n DEF Comes
    <3> QED
      BY <3>1, <3>2
  <2>2. CASE w # <<>>
    <3>1. Len(w) \in 1 .. Len(w)
      BY <1>1, <2>2
    <3>2. v[Len(v)] = w[Len(w)]
      BY <1>2, <1>3, <3>1
    <3> QED
      BY <3>1, <3>2 DEF Comes
  <2> QED
    BY <2>1, <2>2
<1>7. Len(v) > 0 /\ ~(pos > n)
  BY <1>2, <1>4
<1> QED
  BY <1>2, <1>5, <1>6, <1>7 DEF Comes, v

LEMMA WalkComes ==
  ASSUME NEW sizes \in Seq(1 .. 4)
  PROVE  Comes(Walk(sizes), 1, Len(sizes), sizes)
<1> DEFINE n == Len(sizes)
           D == 1 .. n + 4
           from == CHOOSE f : f = [pos \in D |-> IF pos > n THEN <<>> ELSE <<pos>> \o f[pos + sizes[pos]]]
           Good(f, k) == \A p \in n + 1 - k .. n + 4 :
                           f[p] = IF p > n THEN <<>> ELSE <<p>> \o f[p + sizes[p]]
           T == {k \in Nat : k <= n => \E f : Good(f, k)}
           U == {k \in Nat : k <= n => \A p \in n + 1 - k .. n + 4 : Comes(from[p], p, n, sizes)}
<1>1. Walk(sizes) = from[1]
  BY DEF Walk
<1>2. n \in Nat /\ sizes \in [1 .. n -> 1 .. 4]
  OBVIOUS
<1>3. ASSUME NEW p \in 1 .. n PROVE p + sizes[p] \in p + 1 .. n + 4
  BY <1>2
<1> HIDE DEF n
<1>4. Nat \subseteq T
  <2>1. 0 \in T
    <3>1. Good([p \in n + 1 .. n + 4 |-> <<>>], 0)
      BY <1>2
    <3> QED
      BY <3>1
  <2>2. ASSUME NEW k \in Nat, k \in T PROVE k + 1 \in T
    <3> SUFFICES ASSUME k + 1 <= n PROVE \E f : Good(f, k + 1)
      OBVIOUS
    <3>1. PICK f : Good(f, k)
      BY <1>2, <2>2
    <3> DEFINE q == n - k
               g == [p \in q .. n + 4 |-> IF p = q THEN <<q>> \o f[q + sizes[q]] ELSE f[p]]
    <3>2. q \in 1 .. n /\ n + 1 - (k + 1) = q /\ n + 1 - k = q + 1
      BY <1>2
    <3>3. q + sizes[q] \in q + 1 .. n + 4
      BY <1>3, <3>2
    <3>4. \A p \in q + 1 .. n + 4 : g[p] = f[p]
      BY <1>2, <3>2
    <3>5. g[q] = <<q>> \o g[q + sizes[q]]
      <4>1. q \in q .. n + 4
        BY <1>2, <3>2
      <4>2. g[q] = <<q>> \o f[q + sizes[q]]
        BY <4>1
      <4> QED
        BY <3>3, <3>4, <4>2
    <3> HIDE DEF g
    <3>6. ASSUME NEW p \in q .. n + 4
          PROVE  g[p] = IF p > n THEN <<>> ELSE <<p>> \o g[p + sizes[p]]
      <4>1. CASE p = q
        <5>1. ~(q > n)
          BY <1>2, <3>2
        <5> QED
          BY ONLY <3>5, <4>1, <5>1
      <4>2. CASE p # q
        <5>1. p \in q + 1 .. n + 4
          BY <3>2, <4>2, <1>2
        <5>2. g[p] = IF p > n THEN <<>> ELSE <<p>> \o f[p + sizes[p]]
          BY <3>1, <3>2, <3>4, <5>1
        <5>3. ASSUME ~(p > n) PROVE p + sizes[p] \in q + 1 .. n + 4
          <6>1. p \in 1 .. n
            BY <3>2, <5>1, <5>3, <1>2
          <6> QED
            BY <1>3, <6>1, <5>1, <3>2
        <5> QED
          BY <3>4, <5>2, <5>3
      <4> QED
        BY <4>1, <4>2
    <3>7. Good(g, k + 1)
      BY <3>2, <3>6
    <3> QED
      BY <3>7
  <2> HIDE DEF T
  <2> QED
    BY <2>1, <2>2, CountingUp
<1>5. \A p \in D : from[p] = IF p > n THEN <<>> ELSE <<p>> \o from[p + sizes[p]]
  <2>1. PICK f : Good(f, n)
    BY <1>2, <1>4
  <2> DEFINE g == [p \in D |-> f[p]]
  <2>2. n + 1 - n = 1
    BY <1>2
  <2>3. \A p \in D : g[p] = IF p > n THEN <<>> ELSE <<p>> \o g[p + sizes[p]]
    <3> TAKE p \in D
    <3>1. g[p] = IF p > n THEN <<>> ELSE <<p>> \o f[p + sizes[p]]
      BY <2>1, <2>2
    <3>2. ~(p > n) => p + sizes[p] \in D
      <4> SUFFICES ASSUME ~(p > n) PROVE p + sizes[p] \in D
        OBVIOUS
      <4>1. p \in 1 .. n
        BY <1>2
      <4> QED
        BY <1>2, <1>3, <4>1
    <3> QED
      BY <3>1, <3>2
  <2>4. g = [p \in D |-> g[p]]
    OBVIOUS
  <2> HIDE DEF g
  <2>5. g = [pos \in D |-> IF pos > n THEN <<>> ELSE <<pos>> \o g[pos + sizes[pos]]]
    BY <2>3, <2>4
  <2>6. from = [pos \in D |-> IF pos > n THEN <<>> ELSE <<pos>> \o from[pos + sizes[pos]]]
    BY <2>5
  <2> HIDE DEF from
  <2> QED
    BY <2>6
<1> HIDE DEF from
<1>6. Nat \subseteq U
  <2>1. 0 \in U
    <3> SUFFICES ASSUME NEW p \in n + 1 .. n + 4 PROVE Comes(from[p], p, n, sizes)
      BY <1>2
    <3>1. p > n /\ p \in D
      BY <1>2
    <3>2. from[p] = <<>>
      BY ONLY <1>5, <3>1
    <3> QED
      BY <3>1, <3>2, <1>2 DEF Comes
  <2>2. ASSUME NEW k \in Nat, k \in U PROVE k + 1 \in U
    <3> SUFFICES ASSUME k + 1 <= n, NEW p \in n + 1 - (k + 1) .. n + 4
                 PROVE  Comes(from[p], p, n, sizes)
      OBVIOUS
    <3>1. \A q \in n + 1 - k .. n + 4 : Comes(from[q], q, n, sizes)
      BY <1>2, <2>2
    <3>2. CASE p = n - k
      <4>1. p \in 1 .. n /\ p \in D /\ ~(p > n)
        BY <1>2, <3>2
      <4>2. from[p] = <<p>> \o from[p + sizes[p]]
        BY ONLY <1>5, <4>1
      <4>3. p + sizes[p] \in n + 1 - k .. n + 4
        BY <1>2, <1>3, <3>2, <4>1
      <4> QED
        BY <1>2, <3>1, <4>1, <4>2, <4>3, ComesFromBefore
    <3>3. CASE p # n - k
      <4>1. p \in n + 1 - k .. n + 4
        BY <1>2, <3>3
      <4> QED
        BY <3>1, <4>1
    <3> QED
      BY <3>2, <3>3
  <2> HIDE DEF U
  <2> QED
    BY <2>1, <2>2, CountingUp
<1>7. n \in U
  <2> HIDE DEF U
  <2> QED
    BY <1>2, <1>6
<1>8. 1 \in n + 1 - n .. n + 4 /\ n <= n
  BY <1>2
<1>9. Comes(from[1], 1, n, sizes)
  BY <1>7, <1>8
<1> QED
  BY <1>1, <1>9 DEF n

LEMMA ComesIs ==
  ASSUME NEW n \in Nat, NEW sizes \in [1 .. n -> 1 .. 4], NEW w, Comes(w, 1, n, sizes)
  PROVE  /\ w \in Seq(1 .. n) /\ Len(w) \in Nat
         /\ \A k \in 1 .. Len(w) : w[k] \in 1 .. n /\ sizes[w[k]] \in 1 .. 4
         /\ n > 0 => Len(w) > 0 /\ w[1] = 1
         /\ n = 0 => Len(w) = 0
         /\ \A k \in 1 .. Len(w) : k < Len(w) => w[k + 1] = w[k] + sizes[w[k]]
         /\ \A k \in 1 .. Len(w) : k < Len(w) <=> w[k] + sizes[w[k]] <= n
<1>1. w \in Seq(1 .. n) /\ Len(w) \in Nat
  BY DEF Comes
<1>2. ASSUME NEW k \in 1 .. Len(w) PROVE w[k] \in 1 .. n /\ sizes[w[k]] \in 1 .. 4
  BY <1>1
<1>3. (n > 0 => Len(w) > 0 /\ w[1] = 1) /\ (n = 0 => Len(w) = 0)
  <2>1. (1 <= n <=> n > 0) /\ (1 > n <=> n = 0)
    OBVIOUS
  <2>2. w = <<>> => Len(w) = 0
    OBVIOUS
  <2> QED
    BY <2>1, <2>2 DEF Comes
<1>4. ASSUME NEW k \in 1 .. Len(w), k < Len(w)
      PROVE  w[k + 1] = w[k] + sizes[w[k]] /\ w[k] + sizes[w[k]] <= n
  <2>1. k \in 1 .. Len(w) - 1 /\ k + 1 \in 1 .. Len(w)
    BY <1>1, <1>4
  <2>2. w[k + 1] = w[k] + sizes[w[k]]
    BY <2>1 DEF Comes
  <2> QED
    BY <1>2, <2>1, <2>2
<1>5. ASSUME NEW k \in 1 .. Len(w), ~(k < Len(w)) PROVE ~(w[k] + sizes[w[k]] <= n)
  <2>1. k = Len(w) /\ Len(w) > 0
    BY <1>1, <1>5
  <2>2. w[k] + sizes[w[k]] > n
    BY <2>1 DEF Comes
  <2>3. w[k] \in 1 .. n /\ sizes[w[k]] \in 1 .. 4
    BY <1>2
  <2> QED
    BY ONLY <2>2, <2>3, n \in Nat
<1> QED
  BY <1>1, <1>2, <1>3, <1>4, <1>5

\* Two walks with the same steps are the same.
LEMMA WalkWithin ==
  ASSUME NEW n \in Nat, NEW sizes \in [1 .. n -> 1 .. 4],
         NEW v, NEW w, Comes(v, 1, n, sizes), Comes(w, 1, n, sizes)
  PROVE  Len(v) <= Len(w) /\ \A k \in 1 .. Len(v) : v[k] = w[k]
<1> DEFINE T == {i \in Nat : i + 1 <= Len(v) => i + 1 <= Len(w) /\ v[i + 1] = w[i + 1]}
<1>1. 0 \in T
  BY ComesIs
<1>2. ASSUME NEW i \in Nat, i \in T PROVE i + 1 \in T
  <2> SUFFICES ASSUME (i + 1) + 1 <= Len(v)
               PROVE  (i + 1) + 1 <= Len(w) /\ v[(i + 1) + 1] = w[(i + 1) + 1]
    OBVIOUS
  <2>1. Len(v) \in Nat /\ Len(w) \in Nat
    BY ComesIs
  <2>2. i + 1 \in 1 .. Len(v) /\ i + 1 < Len(v) /\ i + 1 \in 1 .. Len(w) /\ v[i + 1] = w[i + 1]
    BY <1>2, <2>1
  <2>3. v[(i + 1) + 1] = v[i + 1] + sizes[v[i + 1]] /\ v[i + 1] + sizes[v[i + 1]] <= n
    BY <2>2, ComesIs
  <2>4. i + 1 < Len(w)
    BY <2>2, <2>3, ComesIs
  <2>5. w[(i + 1) + 1] = w[i + 1] + sizes[w[i + 1]]
    BY <2>2, <2>4, ComesIs
  <2> QED
    BY <2>1, <2>2, <2>3, <2>4, <2>5
<1>3. Nat \subseteq T
  <2> HIDE DEF T
  <2> QED
    BY <1>1, <1>2, CountingUp
<1>4. Len(v) \in Nat /\ Len(w) \in Nat
  BY ComesIs
<1>5. ASSUME NEW k \in 1 .. Len(v) PROVE k <= Len(w) /\ v[k] = w[k]
  <2>1. k - 1 \in Nat /\ (k - 1) + 1 = k /\ k <= Len(v)
    BY <1>4
  <2>2. k - 1 \in T
    BY <2>1, <1>3
  <2> QED
    BY <2>1, <2>2
<1>6. Len(v) <= Len(w)
  <2>1. CASE Len(v) = 0
    BY <1>4, <2>1
  <2>2. CASE Len(v) # 0
    <3>1. Len(v) \in 1 .. Len(v)
      BY <1>4, <2>2
    <3> QED
      BY <1>5, <3>1
  <2> QED
    BY <2>1, <2>2
<1> QED
  BY <1>5, <1>6

LEMMA OneWalk ==
  ASSUME NEW n \in Nat, NEW sizes \in [1 .. n -> 1 .. 4],
         NEW v, NEW w, Comes(v, 1, n, sizes), Comes(w, 1, n, sizes)
  PROVE  v = w
<1>1. Len(v) <= Len(w) /\ Len(w) <= Len(v) /\ \A k \in 1 .. Len(v) : v[k] = w[k]
  BY WalkWithin
<1>2. v \in Seq(1 .. n) /\ w \in Seq(1 .. n) /\ Len(v) \in Nat /\ Len(w) \in Nat
  BY ComesIs
<1>3. Len(v) = Len(w)
  BY <1>1, <1>2
<1> QED
  BY ONLY <1>1, <1>2, <1>3, SeqEqual

LEMMA WalkIncreases ==
  ASSUME NEW n \in Nat, NEW sizes \in [1 .. n -> 1 .. 4], NEW w, Comes(w, 1, n, sizes),
         NEW i \in 1 .. Len(w), NEW j \in 1 .. Len(w), i <= j
  PROVE  w[j] >= w[i] + (j - i) /\ (i < j => w[j] >= w[i] + sizes[w[i]])
<1> DEFINE T == {d \in Nat : i + 1 + d <= Len(w) => w[i + 1 + d] >= w[i] + sizes[w[i]] + d}
<1>1. Len(w) \in Nat /\ \A k \in 1 .. Len(w) : w[k] \in 1 .. n /\ sizes[w[k]] \in 1 .. 4
  BY ComesIs
<1>2. 0 \in T
  <2> SUFFICES ASSUME i + 1 <= Len(w) PROVE w[i + 1] >= w[i] + sizes[w[i]]
    <3>1. i + 1 + 0 = i + 1 /\ w[i] + sizes[w[i]] + 0 = w[i] + sizes[w[i]]
      BY <1>1
    <3> QED
      BY <3>1
  <2>1. i < Len(w)
    BY <1>1
  <2>2. w[i + 1] = w[i] + sizes[w[i]]
    BY <2>1, ComesIs
  <2> QED
    BY <1>1, <2>2
<1>3. ASSUME NEW d \in Nat, d \in T PROVE d + 1 \in T
  <2> DEFINE k == i + 1 + d
  <2> SUFFICES ASSUME i + 1 + (d + 1) <= Len(w)
               PROVE  w[i + 1 + (d + 1)] >= w[i] + sizes[w[i]] + (d + 1)
    OBVIOUS
  <2>1. k \in 1 .. Len(w) /\ k < Len(w) /\ i + 1 + (d + 1) = k + 1
    BY <1>1
  <2>2. w[k] >= w[i] + sizes[w[i]] + d
    BY <1>3, <2>1
  <2> HIDE DEF k
  <2>3. w[k + 1] = w[k] + sizes[w[k]]
    BY <2>1, ComesIs
  <2>4. w[k] \in Int /\ sizes[w[k]] \in 1 .. 4 /\ w[i] \in Int /\ sizes[w[i]] \in 1 .. 4
    BY <1>1, <2>1
  <2>5. w[i + 1 + (d + 1)] = w[k + 1]
    BY ONLY <2>1
  <2>6. w[k + 1] >= w[i] + sizes[w[i]] + (d + 1)
    <3>1. \A a, b, c, e \in Int, f \in 1 .. 4 :
            a >= b + c + d /\ e = a + f => e >= b + c + (d + 1)
      OBVIOUS
    <3>2. sizes[w[i]] \in Int /\ w[k] + sizes[w[k]] \in Int
      BY ONLY <2>4
    <3> QED
      BY ONLY <3>1, <3>2, <2>2, <2>3, <2>4
  <2> QED
    BY ONLY <2>5, <2>6
<1>4. Nat \subseteq T
  <2> HIDE DEF T
  <2> QED
    BY <1>2, <1>3, CountingUp
<1>5. CASE i = j
  BY <1>1, <1>5
<1>6. CASE i < j
  <2>1. j - i - 1 \in Nat /\ i + 1 + (j - i - 1) = j
    BY <1>1, <1>6
  <2>2. w[j] >= w[i] + sizes[w[i]] + (j - i - 1)
    <3>1. j - i - 1 \in T
      BY <1>4, <2>1
    <3> QED
      BY <2>1, <3>1
  <2>3. w[i] \in Int /\ sizes[w[i]] \in 1 .. 4 /\ w[j] \in Int /\ i \in Int /\ j \in Int
    BY <1>1
  <2>4. \A a, b, d \in Int, c \in 1 .. 4 :
          d >= 1 /\ b >= a + c + (d - 1) => b >= a + d /\ b >= a + c
    OBVIOUS
  <2>5. j - i \in Int /\ j - i >= 1 /\ (j - i) - 1 = j - i - 1
    BY ONLY <2>1, <2>3
  <2> QED
    BY ONLY <2>2, <2>3, <2>4, <2>5
<1>7. i = j \/ i < j
  BY <1>1
<1> QED
  BY <1>5, <1>6, <1>7

\* Every byte belongs to a step.
LEMMA WalkCovers ==
  ASSUME NEW n \in Nat, NEW sizes \in [1 .. n -> 1 .. 4], NEW w, Comes(w, 1, n, sizes),
         NEW p \in 1 .. n
  PROVE  \E k \in 1 .. Len(w) : w[k] <= p /\ p < w[k] + sizes[w[k]]
<1> DEFINE T == {k \in 1 .. Len(w) : p < w[k] + sizes[w[k]]}
<1>1. /\ Len(w) \in Nat /\ Len(w) > 0 /\ w[1] = 1
      /\ \A k \in 1 .. Len(w) : w[k] \in 1 .. n /\ sizes[w[k]] \in 1 .. 4
  BY ComesIs
<1>2. Len(w) \in T
  <2>1. Len(w) \in 1 .. Len(w) /\ ~(Len(w) < Len(w))
    BY <1>1
  <2>2. ~(w[Len(w)] + sizes[w[Len(w)]] <= n)
    BY <2>1, ComesIs
  <2> QED
    BY <1>1, <2>1, <2>2
<1>3. PICK k \in T : \A m \in T : k <= m
  <2>1. T \in SUBSET Nat
    BY <1>1
  <2> HIDE DEF T
  <2> QED
    BY <1>2, <2>1, LeastElement
<1>4. w[k] <= p
  <2>1. CASE k = 1
    BY <1>1, <2>1
  <2>2. CASE k # 1
    <3>1. k - 1 \in 1 .. Len(w) /\ k - 1 < Len(w) /\ (k - 1) + 1 = k /\ ~(k <= k - 1)
      BY <1>1, <2>2
    <3>2. k - 1 \notin T
      BY <1>3, <3>1
    <3>3. w[(k - 1) + 1] = w[k - 1] + sizes[w[k - 1]]
      <4> DEFINE i == k - 1
      <4>1. i \in 1 .. Len(w) /\ i < Len(w)
        BY <3>1
      <4> HIDE DEF i
      <4>2. w[i + 1] = w[i] + sizes[w[i]]
        BY <4>1, ComesIs
      <4> QED
        BY <4>2 DEF i
    <3> QED
      BY <1>1, <3>1, <3>2, <3>3
  <2> QED
    BY <2>1, <2>2
<1> QED
  BY <1>4

\* How many steps begin before a byte.
LEMMA StepsBefore ==
  ASSUME NEW w, Len(w) \in Nat, DOMAIN w = 1 .. Len(w), NEW x \in Int, NEW j \in 0 .. Len(w),
         \A k \in 1 .. Len(w) : w[k] \in Int,
         \A k \in 1 .. Len(w) : w[k] <= x <=> k <= j
  PROVE  Cardinality({k \in DOMAIN w : w[k] - 1 < x}) = j
<1>1. {k \in DOMAIN w : w[k] - 1 < x} = 1 .. j
  OBVIOUS
<1>2. Cardinality(1 .. j) = j
  BY FS_Interval
<1> QED
  BY <1>1, <1>2

-----------------------------------------------------------------------------
(* Characters. *)

Text == Seq(Byte)
Sizes(s) == [pos \in DOMAIN s |-> UnitAt(s, pos).len]
LenAt(s, pos) == GetUtf8SequenceLength(s[pos])
IsOkAt(s, pos) == ValidateUtf8Sequence(s, pos, LenAt(s, pos))

LEMMA ByteKinds ==
  ASSUME NEW b \in Byte
  PROVE  /\ GetUtf8SequenceLength(b) \in 0 .. 4 /\ (GetUtf8SequenceLength(b) = 1 <=> b < 128)
         /\ GetUtf8SequenceLength(b) > 0 => ~IsUtf8ContinuationByte(b)
         /\ GetUtf8SequenceLength(b) = 0 => b >= 128
         /\ b < 128 <=> b <= 127
<1>1. b \in Int /\ b >= 0 /\ b <= 255
  BY DEF Byte
<1>2. CASE b < 128
  BY <1>1, <1>2 DEF GetUtf8SequenceLength, IsUtf8ContinuationByte
<1>3. CASE b \in 128 .. 191
  BY <1>1, <1>3 DEF GetUtf8SequenceLength, IsUtf8ContinuationByte
<1>4. CASE b \in 192 .. 223
  BY <1>1, <1>4 DEF GetUtf8SequenceLength, IsUtf8ContinuationByte
<1>5. CASE b \in 224 .. 239
  BY <1>1, <1>5 DEF GetUtf8SequenceLength, IsUtf8ContinuationByte
<1>6. CASE b \in 240 .. 247
  BY <1>1, <1>6 DEF GetUtf8SequenceLength, IsUtf8ContinuationByte
<1>7. CASE b > 247
  BY <1>1, <1>7 DEF GetUtf8SequenceLength, IsUtf8ContinuationByte
<1> QED
  BY <1>1, <1>2, <1>3, <1>4, <1>5, <1>6, <1>7

LEMMA UnitIs ==
  ASSUME NEW s \in Text, NEW pos \in 1 .. Len(s)
  PROVE  /\ UnitAt(s, pos).ok <=> IsOkAt(s, pos)
         /\ IsOkAt(s, pos) => UnitAt(s, pos).len = LenAt(s, pos)
         /\ UnitAt(s, pos).len \in 1 .. 4
         /\ UnitAt(s, pos).bytes = SubSeq(s, pos, pos + UnitAt(s, pos).len - 1)
<1>1. s[pos] \in Byte
  BY DEF Text
<1>2. LenAt(s, pos) \in 0 .. 4
  BY <1>1, ByteKinds DEF LenAt
<1>3. IsOkAt(s, pos) => LenAt(s, pos) > 0
  BY DEF IsOkAt, ValidateUtf8Sequence
<1> QED
  BY <1>2, <1>3 DEF UnitAt, IsOkAt, LenAt

LEMMA CharacterIs ==
  ASSUME NEW s \in Text, NEW pos \in 1 .. Len(s), IsOkAt(s, pos)
  PROVE  /\ LenAt(s, pos) \in 1 .. 4 /\ pos + LenAt(s, pos) - 1 <= Len(s)
         /\ ~IsUtf8ContinuationByte(s[pos])
         /\ \A q \in pos + 1 .. pos + LenAt(s, pos) - 1 : IsUtf8ContinuationByte(s[q])
<1>1. s[pos] \in Byte
  BY DEF Text
<1>2. LenAt(s, pos) \in 1 .. 4 /\ ~IsUtf8ContinuationByte(s[pos])
  <2>1. LenAt(s, pos) > 0
    BY DEF IsOkAt, ValidateUtf8Sequence
  <2> QED
    BY <1>1, <2>1, ByteKinds DEF LenAt
<1>3. ASSUME NEW q \in pos + 1 .. pos + LenAt(s, pos) - 1 PROVE IsUtf8ContinuationByte(s[q])
  <2>1. q - pos \in 1 .. LenAt(s, pos) - 1 /\ pos + (q - pos) = q
    BY <1>2
  <2>2. IsUtf8ContinuationByte(s[pos + (q - pos)])
    BY <2>1 DEF IsOkAt, ValidateUtf8Sequence
  <2> QED
    BY <2>1, <2>2
<1>4. pos + LenAt(s, pos) - 1 <= Len(s)
  BY DEF IsOkAt, ValidateUtf8Sequence
<1> QED
  BY <1>2, <1>3, <1>4

LEMMA StartsCome ==
  ASSUME NEW s \in Text
  PROVE  /\ Len(s) \in Nat /\ Sizes(s) \in [1 .. Len(s) -> 1 .. 4]
         /\ Comes(Starts(s), 1, Len(s), Sizes(s))
<1>1. Len(s) \in Nat /\ DOMAIN s = 1 .. Len(s)
  BY DEF Text
<1>2. \A pos \in 1 .. Len(s) : UnitAt(s, pos).len \in 1 .. 4
  BY UnitIs
<1>3. Sizes(s) \in [1 .. Len(s) -> 1 .. 4]
  BY <1>1, <1>2 DEF Sizes
<1>4. Sizes(s) \in Seq(1 .. 4) /\ Len(Sizes(s)) = Len(s)
  <2>1. DOMAIN Sizes(s) = 1 .. Len(s) /\ \A i \in 1 .. Len(s) : Sizes(s)[i] \in 1 .. 4
    BY <1>3
  <2> QED
    BY ONLY <1>1, <1>3, <2>1
<1>5. Comes(Walk(Sizes(s)), 1, Len(Sizes(s)), Sizes(s))
  BY <1>4, WalkComes
<1>6. Starts(s) = Walk(Sizes(s))
  BY DEF Starts, Sizes
<1> QED
  BY <1>1, <1>3, <1>4, <1>5, <1>6

LEMMA UnitsAre ==
  ASSUME NEW s \in Text
  PROVE  /\ Starts(s) \in Seq(1 .. Len(s)) /\ Len(Starts(s)) \in Nat
         /\ DOMAIN Starts(s) = 1 .. Len(Starts(s)) /\ DOMAIN Units(s) = 1 .. Len(Starts(s))
         /\ \A k \in 1 .. Len(Starts(s)) :
              Starts(s)[k] \in 1 .. Len(s) /\ Units(s)[k] = UnitAt(s, Starts(s)[k])
         /\ WellFormed(s) <=> \A k \in 1 .. Len(Starts(s)) : IsOkAt(s, Starts(s)[k])
<1>1. /\ Starts(s) \in Seq(1 .. Len(s)) /\ Len(Starts(s)) \in Nat
      /\ \A k \in 1 .. Len(Starts(s)) : Starts(s)[k] \in 1 .. Len(s)
  BY StartsCome, ComesIs
<1>2. DOMAIN Starts(s) = 1 .. Len(Starts(s))
  BY <1>1
<1>3. /\ DOMAIN Units(s) = 1 .. Len(Starts(s))
      /\ \A k \in 1 .. Len(Starts(s)) : Units(s)[k] = UnitAt(s, Starts(s)[k])
  BY <1>2 DEF Units
<1>4. ASSUME NEW k \in 1 .. Len(Starts(s)) PROVE Units(s)[k].ok <=> IsOkAt(s, Starts(s)[k])
  <2>1. Starts(s)[k] \in 1 .. Len(s)
    BY <1>1
  <2>2. UnitAt(s, Starts(s)[k]).ok <=> IsOkAt(s, Starts(s)[k])
    BY <2>1, UnitIs
  <2> QED
    BY <1>3, <2>2
<1> QED
  BY <1>1, <1>2, <1>3, <1>4 DEF WellFormed, ContainsInvalidUtf8

\* In well-formed text each step is a character.
LEMMA WellFormedSteps ==
  ASSUME NEW s \in Text, WellFormed(s)
  PROVE  LET S == Starts(s)
         IN  /\ \A k \in 1 .. Len(S) :
                  /\ S[k] \in 1 .. Len(s) /\ IsOkAt(s, S[k]) /\ LenAt(s, S[k]) \in 1 .. 4
                  /\ Sizes(s)[S[k]] = LenAt(s, S[k]) /\ S[k] + LenAt(s, S[k]) - 1 <= Len(s)
                  /\ ~IsUtf8ContinuationByte(s[S[k]])
                  /\ k < Len(S) => S[k + 1] = S[k] + LenAt(s, S[k])
                  /\ ~(k < Len(S)) => S[k] + LenAt(s, S[k]) = Len(s) + 1
             /\ Len(s) > 0 => Len(S) > 0 /\ S[1] = 1
             /\ Len(s) = 0 => Len(S) = 0
             /\ \A i, j \in 1 .. Len(S) :
                  i < j => S[j] >= S[i] + LenAt(s, S[i]) /\ S[j] >= S[i] + (j - i)
             /\ \A p \in 1 .. Len(s) :
                  \E k \in 1 .. Len(S) : S[k] <= p /\ p < S[k] + LenAt(s, S[k])
<1> DEFINE S == Starts(s)
           n == Len(s)
           z == Sizes(s)
<1>1. n \in Nat /\ z \in [1 .. n -> 1 .. 4] /\ Comes(S, 1, n, z)
  BY StartsCome
<1>2. ASSUME NEW k \in 1 .. Len(S)
      PROVE  /\ S[k] \in 1 .. n /\ IsOkAt(s, S[k]) /\ z[S[k]] = LenAt(s, S[k])
             /\ LenAt(s, S[k]) \in 1 .. 4 /\ S[k] + LenAt(s, S[k]) - 1 <= n
             /\ ~IsUtf8ContinuationByte(s[S[k]])
  <2>1. S[k] \in 1 .. n /\ IsOkAt(s, S[k])
    BY UnitsAre
  <2>2. z[S[k]] = UnitAt(s, S[k]).len
    BY <1>1, <2>1 DEF Sizes, Text
  <2> HIDE DEF S, n, z
  <2>3. UnitAt(s, S[k]).len = LenAt(s, S[k])
    BY <2>1, UnitIs DEF n
  <2>4. LenAt(s, S[k]) \in 1 .. 4 /\ S[k] + LenAt(s, S[k]) - 1 <= n /\ ~IsUtf8ContinuationByte(s[S[k]])
    BY <2>1, CharacterIs DEF n
  <2> QED
    BY <2>1, <2>2, <2>3, <2>4
<1>3. /\ n > 0 => Len(S) > 0 /\ S[1] = 1
      /\ n = 0 => Len(S) = 0
      /\ \A k \in 1 .. Len(S) : k < Len(S) => S[k + 1] = S[k] + z[S[k]]
      /\ \A k \in 1 .. Len(S) : k < Len(S) <=> S[k] + z[S[k]] <= n
      /\ Len(S) \in Nat
  <2> HIDE DEF S, n, z
  <2> QED
    BY <1>1, ComesIs
<1>4. ASSUME NEW i \in 1 .. Len(S), NEW j \in 1 .. Len(S), i < j
      PROVE  S[j] >= S[i] + z[S[i]] /\ S[j] >= S[i] + (j - i)
  <2> HIDE DEF S, n, z
  <2>1. i <= j
    BY <1>3, <1>4
  <2> QED
    BY <1>1, <1>4, <2>1, WalkIncreases
<1>5. ASSUME NEW p \in 1 .. n PROVE \E k \in 1 .. Len(S) : S[k] <= p /\ p < S[k] + z[S[k]]
  <2> HIDE DEF S, n, z
  <2> QED
    BY <1>1, WalkCovers
<1> HIDE DEF S, n, z
<1>6. ASSUME NEW k \in 1 .. Len(S), ~(k < Len(S)) PROVE S[k] + LenAt(s, S[k]) = n + 1
  <2>1. /\ S[k] \in Int /\ LenAt(s, S[k]) \in Int /\ n \in Int
        /\ S[k] + LenAt(s, S[k]) - 1 <= n
    BY <1>1, <1>2
  <2>2. ~(S[k] + LenAt(s, S[k]) <= n)
    BY <1>2, <1>3, <1>6
  <2> QED
    BY ONLY <2>1, <2>2
<1>7. ASSUME NEW k \in 1 .. Len(S), k < Len(S) PROVE S[k + 1] = S[k] + LenAt(s, S[k])
  BY <1>2, <1>3, <1>7
<1>8. ASSUME NEW i \in 1 .. Len(S), NEW j \in 1 .. Len(S), i < j
      PROVE  S[j] >= S[i] + LenAt(s, S[i]) /\ S[j] >= S[i] + (j - i)
  BY <1>2, <1>4, <1>8
<1>9. ASSUME NEW p \in 1 .. n
      PROVE  \E k \in 1 .. Len(S) : S[k] <= p /\ p < S[k] + LenAt(s, S[k])
  BY <1>2, <1>5
<1> QED
  BY <1>2, <1>3, <1>6, <1>7, <1>8, <1>9 DEF S, n, z

\* The characters begin where a byte continues none.
LEMMA CharactersBegin ==
  ASSUME NEW s \in Text, WellFormed(s), NEW p \in 1 .. Len(s)
  PROVE  (\E k \in 1 .. Len(Starts(s)) : Starts(s)[k] = p) <=> ~IsUtf8ContinuationByte(s[p])
<1> DEFINE S == Starts(s)
<1>1. ASSUME NEW k \in 1 .. Len(S), S[k] = p PROVE ~IsUtf8ContinuationByte(s[p])
  BY <1>1, WellFormedSteps
<1>2. ASSUME ~IsUtf8ContinuationByte(s[p]) PROVE \E k \in 1 .. Len(S) : S[k] = p
  <2>1. PICK k \in 1 .. Len(S) : S[k] <= p /\ p < S[k] + LenAt(s, S[k])
    BY WellFormedSteps
  <2>2. S[k] \in 1 .. Len(s) /\ IsOkAt(s, S[k])
    BY WellFormedSteps
  <2> HIDE DEF S
  <2>3. \A q \in S[k] + 1 .. S[k] + LenAt(s, S[k]) - 1 : IsUtf8ContinuationByte(s[q])
    BY <2>2, CharacterIs
  <2>4. LenAt(s, S[k]) \in 1 .. 4
    BY <2>2, CharacterIs
  <2>5. p \notin S[k] + 1 .. S[k] + LenAt(s, S[k]) - 1
    BY <1>2, <2>3
  <2>6. S[k] = p
    BY ONLY <2>1, <2>2, <2>4, <2>5, p \in 1 .. Len(s), Len(s) \in Nat
  <2> QED
    BY <2>6
<1> QED
  BY <1>1, <1>2

LEMMA PrefixIs ==
  ASSUME NEW s \in Text, NEW m \in 0 .. Len(s)
  PROVE  /\ SubSeq(s, 1, m) \in Text /\ Len(SubSeq(s, 1, m)) = m
         /\ \A i \in 1 .. m : SubSeq(s, 1, m)[i] = s[i]
BY DEF Text

\* A character is one as long as nothing of it is cut off.
LEMMA CharacterStays ==
  ASSUME NEW s \in Text, NEW m \in 0 .. Len(s), NEW pos \in 1 .. m,
         IsOkAt(s, pos), pos + LenAt(s, pos) - 1 <= m
  PROVE  IsOkAt(SubSeq(s, 1, m), pos) /\ LenAt(SubSeq(s, 1, m), pos) = LenAt(s, pos)
<1> DEFINE t == SubSeq(s, 1, m)
           len == LenAt(s, pos)
<1>1. Len(t) = m /\ \A i \in 1 .. m : t[i] = s[i]
  BY PrefixIs
<1>2. pos \in 1 .. Len(s) /\ Len(s) \in Nat
  BY DEF Text
<1>3. len \in 1 .. 4
  BY <1>2, CharacterIs
<1> HIDE DEF t
<1>4. LenAt(t, pos) = len
  BY <1>1 DEF LenAt
<1>5. \A i \in 1 .. len - 1 : pos + i \in 1 .. m
  BY <1>2, <1>3
<1>6. ValidateUtf8Sequence(s, pos, len)
  BY DEF IsOkAt
<1> HIDE DEF len
<1>7. \A i \in 1 .. len - 1 : IsUtf8ContinuationByte(t[pos + i])
  BY <1>1, <1>5, <1>6 DEF ValidateUtf8Sequence
<1>8. ValidateUtf8Sequence(t, pos, len)
  BY <1>1, <1>6, <1>7 DEF ValidateUtf8Sequence, len
<1> QED
  BY <1>4, <1>8 DEF IsOkAt, t, len

\* The first characters, j of them.
LEMMA FirstCharacters ==
  ASSUME NEW s \in Text, WellFormed(s), NEW j \in 0 .. Len(Starts(s)),
         NEW m \in 0 .. Len(s), m = CharOffsetToByteOffset(s, j)
  PROVE  /\ WellFormed(SubSeq(s, 1, m)) /\ Starts(SubSeq(s, 1, m)) = SubSeq(Starts(s), 1, j)
         /\ Len(Starts(SubSeq(s, 1, m))) = j
<1> DEFINE S == Starts(s)
           t == SubSeq(s, 1, m)
           w == SubSeq(S, 1, j)
<1>1. /\ Len(S) \in Nat /\ Len(s) \in Nat /\ S \in Seq(1 .. Len(s))
      /\ t \in Text /\ Len(t) = m /\ \A i \in 1 .. m : t[i] = s[i]
  BY UnitsAre, PrefixIs, StartsCome
<1>2. Len(w) = j /\ \A k \in 1 .. j : w[k] = S[k] /\ k \in 1 .. Len(S)
  <2> HIDE DEF S
  <2> QED
    BY <1>1 DEF S
<1>3. m = (IF j < Len(S) THEN S[j + 1] - 1 ELSE Len(s)) /\ j \in 0 .. Len(S)
  BY DEF CharOffsetToByteOffset
<1>4. ASSUME NEW k \in 1 .. Len(S)
      PROVE  /\ S[k] \in 1 .. Len(s) /\ IsOkAt(s, S[k]) /\ LenAt(s, S[k]) \in 1 .. 4
             /\ S[k] + LenAt(s, S[k]) - 1 <= Len(s)
             /\ k < Len(S) => S[k + 1] = S[k] + LenAt(s, S[k])
             /\ ~(k < Len(S)) => S[k] + LenAt(s, S[k]) = Len(s) + 1
  BY WellFormedSteps
<1>5. /\ Len(s) > 0 => Len(S) > 0 /\ S[1] = 1
      /\ Len(s) = 0 => Len(S) = 0
      /\ \A i, k \in 1 .. Len(S) : i < k => S[k] >= S[i] + LenAt(s, S[i])
  BY WellFormedSteps
<1> HIDE DEF S, t, w
<1>6. ASSUME NEW k \in 1 .. j PROVE S[k] + LenAt(s, S[k]) - 1 <= m
  <2>1. k \in 1 .. Len(S)
    BY <1>2
  <2>2. CASE j < Len(S)
    <3>1. j + 1 \in 1 .. Len(S) /\ k < j + 1
      BY <1>1, <2>2
    <3>2. S[j + 1] >= S[k] + LenAt(s, S[k])
      BY <1>5, <2>1, <3>1
    <3>3. m = S[j + 1] - 1
      BY <1>3, <2>2
    <3>4. \A i \in 1 .. Len(S) : S[i] \in 1 .. Len(s) /\ LenAt(s, S[i]) \in 1 .. 4
      BY ONLY <1>4
    <3>5. S[j + 1] \in 1 .. Len(s)
      BY ONLY <3>1, <3>4
    <3>6. S[k] \in 1 .. Len(s) /\ LenAt(s, S[k]) \in 1 .. 4
      BY ONLY <2>1, <3>4
    <3>7. \A a, b, c \in Int : a >= b + c => b + c - 1 <= a - 1
      OBVIOUS
    <3>8. S[j + 1] \in Int /\ S[k] \in Int /\ LenAt(s, S[k]) \in Int
      <4>1. \A n \in Nat : 1 .. n \subseteq Int
        OBVIOUS
      <4> QED
        BY ONLY <1>1, <3>5, <3>6, <4>1
    <3> QED
      BY ONLY <3>2, <3>3, <3>7, <3>8
  <2>3. CASE ~(j < Len(S))
    BY <1>3, <1>4, <2>1, <2>3
  <2> QED
    BY <2>2, <2>3
<1>7. ASSUME NEW k \in 1 .. j
      PROVE  w[k] = S[k] /\ S[k] \in 1 .. m /\ IsOkAt(t, S[k]) /\ Sizes(t)[S[k]] = LenAt(s, S[k])
  <2>1. k \in 1 .. Len(S) /\ w[k] = S[k]
    BY <1>2
  <2>2. S[k] \in 1 .. m
    <3>1. S[k] \in 1 .. Len(s) /\ LenAt(s, S[k]) \in 1 .. 4 /\ S[k] + LenAt(s, S[k]) - 1 <= m
      BY <1>4, <1>6, <2>1
    <3> QED
      BY ONLY <1>1, <3>1, m \in 0 .. Len(s)
  <2>3. IsOkAt(t, S[k]) /\ LenAt(t, S[k]) = LenAt(s, S[k])
    BY <1>4, <1>6, <2>1, <2>2, CharacterStays DEF t
  <2>4. UnitAt(t, S[k]).len = LenAt(t, S[k])
    BY <1>1, <2>2, <2>3, UnitIs
  <2>5. Sizes(t)[S[k]] = UnitAt(t, S[k]).len
    BY <1>1, <2>2 DEF Sizes, Text
  <2> QED
    BY <2>1, <2>2, <2>3, <2>4, <2>5
<1>8. Comes(w, 1, m, Sizes(t))
  <2>1. w \in Seq(1 .. m)
    <3>1. w = [k \in 1 .. j |-> w[k]]
      BY <1>1 DEF w, S
    <3>2. \A k \in 1 .. j : w[k] \in 1 .. m
      BY <1>7
    <3> QED
      BY <1>2, <3>1, <3>2
  <2>2. 1 <= m => Len(w) > 0 /\ w[1] = 1
    <3> SUFFICES ASSUME 1 <= m PROVE Len(w) > 0 /\ w[1] = 1
      OBVIOUS
    <3>1. Len(S) > 0 /\ S[1] = 1
      BY <1>1, <1>5
    <3>2. j # 0
      <4>1. CASE j = 0
        <5>1. j < Len(S) /\ j + 1 = 1
          BY <3>1, <4>1
        <5>2. m = S[1] - 1
          BY <1>3, <5>1
        <5> QED
          BY <3>1, <5>2
      <4> QED
        BY <4>1
    <3>3. 1 \in 1 .. j
      BY <3>2
    <3> QED
      BY <1>2, <3>1, <3>2, <3>3
  <2>3. 1 > m => w = <<>>
    <3> SUFFICES ASSUME m = 0 PROVE Len(w) = 0
      BY <2>1
    <3>1. ASSUME j # 0 PROVE FALSE
      <4>1. 1 \in 1 .. j
        BY <3>1
      <4>2. S[1] \in 1 .. m
        BY <1>7, <4>1
      <4> QED
        BY <4>2
    <3> QED
      BY <1>2, <3>1
  <2>4. \A k \in 1 .. Len(w) - 1 : w[k + 1] = w[k] + Sizes(t)[w[k]]
    <3> TAKE k \in 1 .. Len(w) - 1
    <3>1. k \in 1 .. j /\ k + 1 \in 1 .. j /\ k \in 1 .. Len(S) /\ k < Len(S)
      BY <1>1, <1>2
    <3>2. S[k + 1] = S[k] + LenAt(s, S[k])
      BY <1>4, <3>1
    <3> QED
      BY <1>7, <3>1, <3>2
  <2>5. Len(w) > 0 => w[Len(w)] + Sizes(t)[w[Len(w)]] > m
    <3> SUFFICES ASSUME j > 0 PROVE S[j] + LenAt(s, S[j]) > m
      <4>1. j > 0 => j \in 1 .. j
        OBVIOUS
      <4> QED
        BY <1>2, <1>7, <4>1
    <3>1. j \in 1 .. Len(S)
      BY <1>1, <1>3
    <3>2. CASE j < Len(S)
      BY <1>3, <1>4, <3>1, <3>2
    <3>3. CASE ~(j < Len(S))
      BY <1>3, <1>4, <3>1, <3>3
    <3> QED
      BY <3>2, <3>3
  <2> QED
    BY <2>1, <2>2, <2>3, <2>4, <2>5 DEF Comes
<1>9. Starts(t) = w
  <2>1. m \in Nat /\ Sizes(t) \in [1 .. m -> 1 .. 4] /\ Comes(Starts(t), 1, m, Sizes(t))
    BY <1>1, StartsCome
  <2> QED
    BY <1>8, <2>1, OneWalk
<1>10. WellFormed(t)
  BY <1>1, <1>2, <1>7, <1>9, UnitsAre
<1> QED
  BY <1>2, <1>9, <1>10 DEF S, t, w

\* Text that ends within a character is not well-formed.
LEMMA CutWithin ==
  ASSUME NEW s \in Text, WellFormed(s), NEW k \in 1 .. Len(Starts(s)), NEW m \in 0 .. Len(s),
         Starts(s)[k] <= m, m + 1 < Starts(s)[k] + LenAt(s, Starts(s)[k])
  PROVE  ~WellFormed(SubSeq(s, 1, m))
<1> DEFINE p == Starts(s)[k]
           t == SubSeq(s, 1, m)
<1>1. p \in 1 .. Len(s) /\ LenAt(s, p) \in 1 .. 4 /\ ~IsUtf8ContinuationByte(s[p])
  BY WellFormedSteps
<1>2. t \in Text /\ Len(t) = m /\ \A i \in 1 .. m : t[i] = s[i]
  BY PrefixIs
<1> HIDE DEF p, t
<1>3. p \in 1 .. m
  BY <1>1 DEF p
<1>4. LenAt(t, p) = LenAt(s, p) /\ ~IsUtf8ContinuationByte(t[p])
  BY <1>1, <1>2, <1>3 DEF LenAt
<1>5. SUFFICES ASSUME WellFormed(t) PROVE FALSE
  BY DEF t
<1>6. PICK i \in 1 .. Len(Starts(t)) : Starts(t)[i] = p
  BY <1>2, <1>3, <1>4, <1>5, CharactersBegin
<1>7. p + LenAt(t, p) - 1 <= Len(t)
  BY <1>2, <1>5, <1>6, WellFormedSteps
<1>8. p + LenAt(s, p) - 1 <= m /\ m + 1 < p + LenAt(s, p)
  BY <1>2, <1>4, <1>7 DEF p
<1>9. p \in Int /\ LenAt(s, p) \in Int /\ m \in Int
  BY ONLY <1>1, Len(s) \in Nat, m \in 0 .. Len(s)
<1>10. \A a, b, c \in Int : ~(a + b - 1 <= c /\ c + 1 < a + b)
  OBVIOUS
<1> QED
  BY ONLY <1>8, <1>9, <1>10

\* Going back from a byte comes to the beginning of its character.
LEMMA BackIs ==
  ASSUME NEW s \in Text, WellFormed(s), NEW offset \in 0 .. Len(s) - 1
  PROVE  \E k \in 1 .. Len(Starts(s)) :
           /\ BackToLead(s, offset) = Starts(s)[k] - 1 /\ Starts(s)[k] <= offset + 1
           /\ offset + 1 < Starts(s)[k] + LenAt(s, Starts(s)[k])
<1> DEFINE S == Starts(s)
           Right(n) == /\ n = 0 \/ ~IsUtf8ContinuationByte(s[n + 1])
                       /\ \A m \in n + 1 .. offset : IsUtf8ContinuationByte(s[m + 1])
           b == CHOOSE n \in 0 .. offset : Right(n)
<1>1. Len(s) \in Nat /\ Len(s) > 0 /\ offset \in Nat /\ offset + 1 \in 1 .. Len(s)
  BY StartsCome
<1>2. PICK k \in 1 .. Len(S) : S[k] <= offset + 1 /\ offset + 1 < S[k] + LenAt(s, S[k])
  BY <1>1, WellFormedSteps
<1>3. /\ S[k] \in 1 .. Len(s) /\ LenAt(s, S[k]) \in 1 .. 4 /\ IsOkAt(s, S[k])
      /\ ~IsUtf8ContinuationByte(s[S[k]])
  BY WellFormedSteps
<1>4. \A i \in 1 .. Len(S) : S[i] \in 1 .. Len(s) /\ ~IsUtf8ContinuationByte(s[S[i]])
  BY WellFormedSteps
<1>5. Len(S) > 0 /\ S[1] = 1
  BY <1>1, WellFormedSteps
<1>6. BackToLead(s, offset) = b
  BY DEF BackToLead
<1> DEFINE p == S[k]
           len == LenAt(s, p)
<1>7. /\ p \in Int /\ p >= 1 /\ len \in Int /\ len >= 1 /\ offset \in Int
      /\ p <= offset + 1 /\ offset + 1 < p + len
  BY <1>1, <1>2, <1>3
<1>8. ~IsUtf8ContinuationByte(s[p]) /\ IsOkAt(s, p) /\ p \in 1 .. Len(s)
  BY <1>3
<1> HIDE DEF S, p, len
<1>9. \A q \in p + 1 .. p + len - 1 : IsUtf8ContinuationByte(s[q])
  BY <1>8, CharacterIs DEF len
<1>10. Right(p - 1) /\ p - 1 \in 0 .. offset
  <2>1. p - 1 + 1 = p /\ p - 1 \in 0 .. offset
    BY ONLY <1>7
  <2>2. ASSUME NEW m \in p - 1 + 1 .. offset PROVE IsUtf8ContinuationByte(s[m + 1])
    <3>1. m + 1 \in p + 1 .. p + len - 1
      BY ONLY <1>7, m \in p - 1 + 1 .. offset
    <3> QED
      BY <1>9, <3>1
  <2> QED
    BY <1>8, <2>1, <2>2
<1>11. b \in 0 .. offset /\ Right(b)
  <2> HIDE DEF Right
  <2> QED
    BY <1>10
<1> HIDE DEF b
<1>12. ~IsUtf8ContinuationByte(s[b + 1])
  <2>1. CASE b = 0
    <3>1. 1 \in 1 .. Len(S)
      BY <1>2, <1>5
    <3>2. b + 1 = S[1]
      BY <1>5, <2>1
    <3> QED
      BY <1>4, <3>1, <3>2
  <2>2. CASE b # 0
    BY <1>11, <2>2
  <2> QED
    BY <2>1, <2>2
<1>13. b = p - 1
  <2>1. ASSUME b > p - 1 PROVE FALSE
    <3>1. b + 1 \in p + 1 .. p + len - 1
      BY ONLY <1>7, <1>11, <2>1
    <3> QED
      BY <1>9, <1>12, <3>1
  <2>2. ASSUME b < p - 1 PROVE FALSE
    <3>1. p - 1 \in b + 1 .. offset /\ p - 1 + 1 = p
      BY ONLY <1>7, <1>11, <2>2
    <3>2. IsUtf8ContinuationByte(s[p - 1 + 1])
      BY <1>11, <3>1
    <3> QED
      BY <1>8, <3>1, <3>2
  <2> QED
    BY ONLY <1>7, <1>11, <2>1, <2>2
<1> QED
  BY <1>2, <1>6, <1>13 DEF S, p

-----------------------------------------------------------------------------
(* Counting in characters and in bytes. *)

LEMMA OffsetsAre ==
  ASSUME NEW s \in Text, WellFormed(s), NEW j \in 0 .. Len(Starts(s))
  PROVE  /\ CharOffsetToByteOffset(s, j) \in 0 .. Len(s)
         /\ \A k \in 1 .. Len(Starts(s)) : Starts(s)[k] <= CharOffsetToByteOffset(s, j) <=> k <= j
<1> DEFINE S == Starts(s)
           m == CharOffsetToByteOffset(s, j)
<1>1. /\ Len(s) \in Nat /\ Len(S) \in Nat /\ j \in 0 .. Len(S)
      /\ m = IF j < Len(S) THEN S[j + 1] - 1 ELSE Len(s)
  BY StartsCome, UnitsAre DEF CharOffsetToByteOffset
<1>2. /\ \A k \in 1 .. Len(S) : S[k] \in 1 .. Len(s)
      /\ \A i, k \in 1 .. Len(S) : i < k => S[k] >= S[i] + (k - i)
  BY WellFormedSteps
<1> HIDE DEF S, m
<1>3. CASE j < Len(S)
  <2>1. j + 1 \in 1 .. Len(S) /\ m = S[j + 1] - 1
    BY <1>1, <1>3
  <2>2. ASSUME NEW k \in 1 .. Len(S) PROVE S[k] <= m <=> k <= j
    <3>1. S[k] \in Int /\ S[j + 1] \in Int /\ k \in Int /\ j \in Int
      BY <1>1, <1>2, <2>1
    <3>2. CASE k <= j
      <4>1. k < j + 1
        BY <3>1, <3>2
      <4>2. S[j + 1] >= S[k] + ((j + 1) - k)
        BY <1>2, <2>1, <4>1
      <4> QED
        BY ONLY <2>1, <3>1, <3>2, <4>2
    <3>3. CASE k = j + 1
      BY ONLY <2>1, <3>1, <3>3
    <3>4. CASE k > j + 1
      <4>1. j + 1 < k
        BY ONLY <3>1, <3>4
      <4>2. S[k] >= S[j + 1] + (k - (j + 1))
        BY <1>2, <2>1, <4>1
      <4> QED
        BY ONLY <2>1, <3>1, <3>4, <4>2
    <3> QED
      BY <3>1, <3>2, <3>3, <3>4
  <2> QED
    BY <1>1, <1>2, <2>1, <2>2 DEF S, m
<1>4. CASE ~(j < Len(S))
  BY <1>1, <1>2, <1>4 DEF S, m
<1> QED
  BY <1>3, <1>4

\* How many characters begin before a byte, for any j such that they are the first j.
LEMMA CharOffsetIs ==
  ASSUME NEW s \in Text, NEW offset \in Int, NEW j \in 0 .. Len(Starts(s)),
         \A k \in 1 .. Len(Starts(s)) : Starts(s)[k] <= offset <=> k <= j
  PROVE  ByteOffsetToCharOffset(s, offset) = j
<1> DEFINE S == Starts(s)
<1>1. /\ Len(S) \in Nat /\ DOMAIN S = 1 .. Len(S)
      /\ \A k \in 1 .. Len(S) : S[k] \in Int
  BY UnitsAre
<1>2. ByteOffsetToCharOffset(s, offset) = Cardinality({k \in DOMAIN S : S[k] - 1 < offset})
  BY DEF ByteOffsetToCharOffset
<1>3. j \in 0 .. Len(S) /\ \A k \in 1 .. Len(S) : S[k] <= offset <=> k <= j
  OBVIOUS
<1> HIDE DEF S
<1> QED
  BY <1>1, <1>2, <1>3, StepsBefore

LEMMA CountIs ==
  ASSUME NEW s \in Text, WellFormed(s)
  PROVE  CountUtf8Chars(s) = Len(Starts(s)) /\ Len(Starts(s)) \in Nat
<1> DEFINE S == Starts(s)
<1>1. DOMAIN Units(s) = 1 .. Len(S) /\ Len(S) \in Nat
  BY UnitsAre
<1>2. \A k \in 1 .. Len(S) : Units(s)[k].ok
  <2> TAKE k \in 1 .. Len(S)
  <2>1. Units(s)[k] = UnitAt(s, S[k]) /\ S[k] \in 1 .. Len(s) /\ IsOkAt(s, S[k])
    BY UnitsAre
  <2> QED
    BY <2>1, UnitIs
<1> HIDE DEF S
<1>3. {k \in DOMAIN Units(s) : Units(s)[k].ok} = 1 .. Len(S)
  BY <1>1, <1>2
<1>4. Cardinality(1 .. Len(S)) = Len(S)
  BY <1>1, FS_Interval
<1> QED
  BY <1>1, <1>3, <1>4 DEF CountUtf8Chars, S

LEMMA CountsAgree ==
  ASSUME NEW s \in Text, WellFormed(s), NEW j \in 0 .. CountUtf8Chars(s)
  PROVE  /\ ByteOffsetToCharOffset(s, CharOffsetToByteOffset(s, j)) = j
         /\ WellFormed(ExtractFirstNChars(s, j)) /\ CountUtf8Chars(ExtractFirstNChars(s, j)) = j
<1> DEFINE m == CharOffsetToByteOffset(s, j)
<1>1. j \in 0 .. Len(Starts(s))
  BY CountIs
<1>2. m \in 0 .. Len(s) /\ \A k \in 1 .. Len(Starts(s)) : Starts(s)[k] <= m <=> k <= j
  BY <1>1, OffsetsAre
<1>3. ByteOffsetToCharOffset(s, m) = j
  <2>1. m \in Int
    BY <1>2
  <2> HIDE DEF m
  <2> QED
    BY <1>1, <1>2, <2>1, CharOffsetIs
<1>4. /\ SubSeq(s, 1, m) \in Text /\ WellFormed(SubSeq(s, 1, m))
      /\ Len(Starts(SubSeq(s, 1, m))) = j
  BY <1>1, <1>2, FirstCharacters, PrefixIs
<1>5. CountUtf8Chars(SubSeq(s, 1, m)) = j
  BY <1>4, CountIs
<1> QED
  BY <1>3, <1>4, <1>5 DEF ExtractFirstNChars

LEMMA BytesAgree ==
  ASSUME NEW s \in Text, WellFormed(s), NEW n \in 0 .. Len(s)
  PROVE  CharOffsetToByteOffset(s, ByteOffsetToCharOffset(s, n)) >= n
<1> DEFINE S == Starts(s)
<1>1. Len(s) \in Nat /\ Len(S) \in Nat /\ \A k \in 1 .. Len(S) : S[k] \in 1 .. Len(s)
  BY StartsCome, UnitsAre
<1>2. \A i, k \in 1 .. Len(S) : i < k => S[k] >= S[i] + LenAt(s, S[i]) /\ S[k] >= S[i] + (k - i)
  BY WellFormedSteps
<1>3. \E j \in 0 .. Len(S) : \A k \in 1 .. Len(S) : S[k] <= n <=> k <= j
  <2>1. CASE n = 0
    <3> HIDE DEF S
    <3> QED
      BY <1>1, <2>1
  <2>2. CASE n # 0
    <3>1. PICK j \in 1 .. Len(S) : S[j] <= n /\ n < S[j] + LenAt(s, S[j])
      BY <1>1, <2>2, WellFormedSteps
    <3>2. LenAt(s, S[j]) \in 1 .. 4
      BY WellFormedSteps
    <3> HIDE DEF S
    <3>3. ASSUME NEW k \in 1 .. Len(S) PROVE S[k] <= n <=> k <= j
      <4>1. S[k] \in Int /\ S[j] \in Int /\ n \in Int /\ LenAt(s, S[j]) \in Int /\ k \in Int /\ j \in Int
        BY <1>1, <3>2
      <4>2. CASE k < j
        <5>1. S[j] >= S[k] + (j - k)
          BY <1>2, <4>2
        <5> QED
          BY ONLY <3>1, <4>1, <4>2, <5>1
      <4>3. CASE k = j
        BY <3>1, <4>3
      <4>4. CASE j < k
        <5>1. S[k] >= S[j] + LenAt(s, S[j])
          BY <1>2, <4>4
        <5> QED
          BY ONLY <3>1, <4>1, <4>4, <5>1
      <4> QED
        BY <4>1, <4>2, <4>3, <4>4
    <3>4. j \in 0 .. Len(S)
      BY <1>1
    <3> QED
      BY <3>3, <3>4
  <2> QED
    BY <2>1, <2>2
<1>4. PICK j \in 0 .. Len(S) : \A k \in 1 .. Len(S) : S[k] <= n <=> k <= j
  BY <1>3
<1>5. ByteOffsetToCharOffset(s, n) = j
  BY <1>4, CharOffsetIs
<1>6. CharOffsetToByteOffset(s, j) = IF j < Len(S) THEN S[j + 1] - 1 ELSE Len(s)
  BY DEF CharOffsetToByteOffset
<1> HIDE DEF S
<1>7. CASE j < Len(S)
  <2>1. j + 1 \in 1 .. Len(S) /\ ~(j + 1 <= j)
    BY <1>1, <1>7
  <2>2. ~(S[j + 1] <= n) /\ S[j + 1] \in Int
    BY <1>1, <1>4, <2>1
  <2> QED
    BY <1>1, <1>5, <1>6, <1>7, <2>2
<1>8. CASE ~(j < Len(S))
  BY <1>1, <1>5, <1>6, <1>8
<1> QED
  BY <1>7, <1>8

-----------------------------------------------------------------------------
(* Where text is cut. *)

\* The cut before the limit: at the beginning of the character the limit is within.
LEMMA TruncationIs ==
  ASSUME NEW s \in Text, WellFormed(s), NEW n \in 0 .. Len(s) - 1
  PROVE  LET b == BackToLead(s, n)
         IN  /\ \E j \in 0 .. Len(Starts(s)) : CharOffsetToByteOffset(s, j) = b
             /\ b \in 0 .. n /\ WellFormed(SubSeq(s, 1, b))
             /\ \A m \in b + 1 .. n : ~WellFormed(SubSeq(s, 1, m))
             /\ FindSafeUtf8Boundary(s, n) = b
<1> DEFINE S == Starts(s)
           b == BackToLead(s, n)
<1>1. PICK k \in 1 .. Len(S) : /\ b = S[k] - 1 /\ S[k] <= n + 1
                               /\ n + 1 < S[k] + LenAt(s, S[k])
  BY BackIs
<1>2. Len(s) \in Nat /\ Len(S) \in Nat
  BY StartsCome, UnitsAre
<1>3. S[k] \in 1 .. Len(s) /\ LenAt(s, S[k]) \in 1 .. 4
  BY WellFormedSteps
<1>4. CharOffsetToByteOffset(s, k - 1) = b /\ k - 1 \in 0 .. Len(S)
  <2>1. k - 1 < Len(S) /\ (k - 1) + 1 = k /\ k - 1 \in 0 .. Len(S)
    BY <1>2
  <2> QED
    BY <1>1, <2>1 DEF CharOffsetToByteOffset
<1>5. b \in 0 .. n /\ b \in 0 .. Len(s)
  BY ONLY <1>1, <1>2, <1>3, n \in 0 .. Len(s) - 1
<1>6. WellFormed(SubSeq(s, 1, b))
  BY <1>4, <1>5, FirstCharacters
<1>7. ASSUME NEW m \in b + 1 .. n PROVE ~WellFormed(SubSeq(s, 1, m))
  <2>1. m \in 0 .. Len(s) /\ S[k] <= m /\ m + 1 < S[k] + LenAt(s, S[k])
    BY ONLY <1>1, <1>2, <1>3, <1>5, n \in 0 .. Len(s) - 1, m \in b + 1 .. n
  <2> QED
    BY <2>1, CutWithin
<1>8. FindSafeUtf8Boundary(s, n) = b
  <2> DEFINE len == GetUtf8SequenceLength(s[b + 1])
  <2>1. b + 1 = S[k]
    BY ONLY <1>1, <1>3
  <2>2. len = LenAt(s, S[k])
    BY <2>1 DEF LenAt
  <2>3. b + (IF len = 0 THEN 1 ELSE len) > n
    BY ONLY <1>1, <1>3, <2>2, n \in 0 .. Len(s) - 1
  <2>4. ~(n >= Len(s))
    BY <1>2
  <2>5. FindSafeUtf8Boundary(s, n) = IF b = 0 \/ b + (IF len = 0 THEN 1 ELSE len) > n THEN b ELSE n
    BY <2>4 DEF FindSafeUtf8Boundary
  <2> HIDE DEF len
  <2> QED
    BY <2>3, <2>5
<1> HIDE DEF b, S
<1> QED
  BY <1>4, <1>5, <1>6, <1>7, <1>8 DEF b, S

LEMMA CutsWell ==
  ASSUME NEW s \in Text, WellFormed(s), NEW n \in 0 .. Len(s)
  PROVE  LET cut == TruncateUtf8Safe(s, n)
         IN  /\ cut = TrimToLimit(s, n) /\ WellFormed(cut) /\ Len(cut) <= n /\ cut \in Text
             /\ \A m \in Len(cut) + 1 .. n : ~WellFormed(SubSeq(s, 1, m))
             /\ WellFormed(SubSeq(s, 1, AlignToCharBoundary(s, n)))
             /\ WellFormed(SubSeq(s, 1, n)) => AlignToCharBoundary(s, n) = n
<1>1. Len(s) \in Nat
  BY StartsCome
<1>2. CASE n = Len(s)
  <2>1. n >= Len(s) /\ SubSeq(s, 1, Len(s)) = s
    BY <1>1, <1>2 DEF Text
  <2>2. TruncateUtf8Safe(s, n) = s /\ TrimToLimit(s, n) = s /\ AlignToCharBoundary(s, n) = Len(s)
    BY <2>1 DEF TruncateUtf8Safe, TrimToLimit, FindSafeUtf8Boundary, AlignToCharBoundary
  <2>3. Len(s) + 1 .. n = {}
    BY <1>1, <1>2
  <2>4. WellFormed(SubSeq(s, 1, AlignToCharBoundary(s, n))) /\ AlignToCharBoundary(s, n) = n
    BY <1>2, <2>1, <2>2
  <2>5. /\ WellFormed(s) /\ Len(s) <= n /\ s \in Text
        /\ \A m \in Len(s) + 1 .. n : ~WellFormed(SubSeq(s, 1, m))
    BY <1>1, <1>2, <2>3
  <2> QED
    BY ONLY <2>2, <2>4, <2>5
<1>3. CASE n # Len(s)
  <2> DEFINE b == BackToLead(s, n)
  <2>1. n \in 0 .. Len(s) - 1 /\ ~(n >= Len(s))
    BY <1>1, <1>3
  <2>2. /\ b \in 0 .. n /\ WellFormed(SubSeq(s, 1, b)) /\ FindSafeUtf8Boundary(s, n) = b
        /\ \A m \in b + 1 .. n : ~WellFormed(SubSeq(s, 1, m))
    BY <2>1, TruncationIs
  <2>3. /\ TruncateUtf8Safe(s, n) = SubSeq(s, 1, b) /\ TrimToLimit(s, n) = SubSeq(s, 1, b)
        /\ AlignToCharBoundary(s, n) = b
    BY <2>1, <2>2 DEF TruncateUtf8Safe, TrimToLimit, AlignToCharBoundary
  <2> HIDE DEF b
  <2>4. Len(SubSeq(s, 1, b)) = b /\ SubSeq(s, 1, b) \in Text
    <3>1. b \in 0 .. Len(s)
      BY <1>1, <2>2
    <3> QED
      BY <3>1, PrefixIs
  <2>5. WellFormed(SubSeq(s, 1, n)) => b = n
    <3>1. b # n => n \in b + 1 .. n
      BY <1>1, <2>2
    <3> QED
      BY <2>2, <3>1
  <2> QED
    BY <1>1, <2>2, <2>3, <2>4, <2>5
<1> QED
  BY <1>2, <1>3

\* However high the limit.
LEMMA TruncatedFits ==
  ASSUME NEW s \in Text, WellFormed(s), NEW max \in Nat
  PROVE  /\ TruncateUtf8Safe(s, max) \in Text /\ WellFormed(TruncateUtf8Safe(s, max))
         /\ Len(TruncateUtf8Safe(s, max)) <= max
<1>1. Len(s) \in Nat
  BY StartsCome
<1>2. CASE max >= Len(s)
  BY <1>1, <1>2 DEF TruncateUtf8Safe
<1>3. CASE ~(max >= Len(s))
  <2>1. max \in 0 .. Len(s)
    BY <1>1, <1>3
  <2> QED
    BY <2>1, CutsWell
<1> QED
  BY <1>2, <1>3

LEMMA ExtractFits ==
  ASSUME NEW s \in Text, WellFormed(s), NEW max \in Nat
  PROVE  /\ Len(ExtractFirstNChars(s, max)) <= Len(s)
         /\ CountUtf8Chars(ExtractFirstNChars(s, max)) <= max
<1>1. Len(s) \in Nat /\ CountUtf8Chars(s) = Len(Starts(s)) /\ Len(Starts(s)) \in Nat
  BY StartsCome, CountIs
<1>2. CASE max <= Len(Starts(s))
  <2>1. max \in 0 .. Len(Starts(s)) /\ max \in 0 .. CountUtf8Chars(s)
    BY <1>1, <1>2
  <2>2. CharOffsetToByteOffset(s, max) \in 0 .. Len(s)
    BY <2>1, OffsetsAre
  <2>3. Len(ExtractFirstNChars(s, max)) = CharOffsetToByteOffset(s, max)
    BY <2>2, PrefixIs DEF ExtractFirstNChars
  <2>4. CountUtf8Chars(ExtractFirstNChars(s, max)) = max
    BY <2>1, CountsAgree
  <2> QED
    BY <1>1, <2>2, <2>3, <2>4
<1>3. CASE ~(max <= Len(Starts(s)))
  <2>1. CharOffsetToByteOffset(s, max) = Len(s)
    BY <1>1, <1>3 DEF CharOffsetToByteOffset
  <2>2. ExtractFirstNChars(s, max) = s
    BY <2>1 DEF ExtractFirstNChars, Text
  <2> QED
    BY <1>1, <1>3, <2>2
<1> QED
  BY <1>2, <1>3

LEMMA InRangeIsNotRefused ==
  ASSUME NEW s PROVE Rejection(s, FALSE) # "CONTENT_OUT_OF_RANGE"
<1>1. CASE IsBlankOnly(s)
  BY <1>1 DEF Rejection
<1>2. CASE ~IsBlankOnly(s) /\ ContainsInvalidUtf8(s)
  BY <1>2 DEF Rejection
<1>3. CASE ~IsBlankOnly(s) /\ ~ContainsInvalidUtf8(s)
  BY <1>3 DEF Rejection
<1> QED
  BY <1>1, <1>2, <1>3

LEMMA CutsAreNotRefused ==
  ASSUME NEW s \in Text, WellFormed(s)
  PROVE  /\ Validate(TruncateUtf8Safe(s, CONTENT_MAX_BYTES)) # "CONTENT_OUT_OF_RANGE"
         /\ \A config \in Configs :
              ValidateWithConfig(ExtractFirstNChars(TruncateUtf8Safe(s, config.maxBytes),
                                                    config.maxChars), config)
                # "CONTENT_OUT_OF_RANGE"
<1>1. Validate(TruncateUtf8Safe(s, CONTENT_MAX_BYTES)) # "CONTENT_OUT_OF_RANGE"
  <2> DEFINE cut == TruncateUtf8Safe(s, CONTENT_MAX_BYTES)
  <2>1. Len(cut) <= CONTENT_MAX_BYTES /\ cut \in Text /\ CONTENT_MAX_BYTES \in Nat
    BY ContentAssumption, TruncatedFits
  <2>2. Len(cut) \in Nat
    BY <2>1, StartsCome
  <2> HIDE DEF cut
  <2>3. (Len(cut) > CONTENT_MAX_BYTES) = FALSE
    BY <2>1, <2>2
  <2>4. Validate(cut) = Rejection(cut, FALSE)
    BY <2>3 DEF Validate
  <2> QED
    BY <2>4, InRangeIsNotRefused DEF cut
<1>2. ASSUME NEW config \in Configs
      PROVE  ValidateWithConfig(ExtractFirstNChars(TruncateUtf8Safe(s, config.maxBytes),
                                                   config.maxChars), config)
               # "CONTENT_OUT_OF_RANGE"
  <2> DEFINE cut == TruncateUtf8Safe(s, config.maxBytes)
             first == ExtractFirstNChars(cut, config.maxChars)
  <2>1. config.maxBytes \in Nat /\ config.maxChars \in Nat
    BY ContentAssumption
  <2>2. cut \in Text /\ WellFormed(cut) /\ Len(cut) <= config.maxBytes
    BY <2>1, TruncatedFits
  <2> HIDE DEF cut
  <2>3. Len(first) <= Len(cut) /\ CountUtf8Chars(first) <= config.maxChars
    BY <2>1, <2>2, ExtractFits
  <2>4. Len(cut) \in Nat /\ Len(first) \in Nat /\ CountUtf8Chars(first) \in Int
    <3>1. Len(cut) \in Nat
      BY <2>2, StartsCome
    <3>2. \E m \in 0 .. Len(cut) : first = SubSeq(cut, 1, m)
      <4>1. CharOffsetToByteOffset(cut, config.maxChars) \in 0 .. Len(cut)
        <5>1. Len(Starts(cut)) \in Nat
          BY <2>2, UnitsAre
        <5>2. CASE config.maxChars < Len(Starts(cut))
          BY <2>1, <2>2, <5>1, <5>2, OffsetsAre
        <5>3. CASE ~(config.maxChars < Len(Starts(cut)))
          BY <3>1, <5>3 DEF CharOffsetToByteOffset
        <5> QED
          BY <5>2, <5>3
      <4> QED
        BY <4>1 DEF ExtractFirstNChars
    <3>3. first \in Text
      BY <2>2, <3>2, PrefixIs
    <3>4. DOMAIN Units(first) = 1 .. Len(Starts(first)) /\ Len(Starts(first)) \in Nat
      BY <3>3, UnitsAre
    <3>5. IsFiniteSet({k \in DOMAIN Units(first) : Units(first)[k].ok})
      <4>1. IsFiniteSet(1 .. Len(Starts(first)))
        BY <3>4, FS_Interval
      <4> QED
        BY <3>4, <4>1, FS_Subset
    <3>6. CountUtf8Chars(first) \in Nat
      BY <3>5, FS_CardinalityType DEF CountUtf8Chars
    <3> QED
      BY <3>1, <3>3, <3>6, StartsCome
  <2> HIDE DEF first
  <2>5. (\/ config.maxBytes # CONFIG_DISABLED /\ Len(first) > config.maxBytes
         \/ config.maxChars # CONFIG_DISABLED /\ CountUtf8Chars(first) > config.maxChars) = FALSE
    BY <2>1, <2>2, <2>3, <2>4
  <2>6. ValidateWithConfig(first, config) = Rejection(first, FALSE)
    BY <2>5 DEF ValidateWithConfig
  <2> QED
    BY <2>6, InRangeIsNotRefused DEF first, cut
<1> QED
  BY <1>1, <1>2

-----------------------------------------------------------------------------
(* The string converter finds the same characters. *)

LEMMA ConverterStepsAre ==
  ASSUME NEW s \in Text
  PROVE  LET z == [pos \in DOMAIN s |-> GetUTF8ByteLen(s[pos])]
         IN  z \in [1 .. Len(s) -> 1 .. 4] /\ Comes(LeadPositions(s), 1, Len(s), z)
<1> DEFINE z == [pos \in DOMAIN s |-> GetUTF8ByteLen(s[pos])]
<1>1. Len(s) \in Nat /\ DOMAIN s = 1 .. Len(s) /\ \A pos \in 1 .. Len(s) : s[pos] \in Byte
  BY DEF Text
<1>2. \A pos \in 1 .. Len(s) : GetUTF8ByteLen(s[pos]) \in 1 .. 4
  BY <1>1, ByteKinds DEF GetUTF8ByteLen
<1>3. z \in [1 .. Len(s) -> 1 .. 4]
  BY <1>1, <1>2
<1>4. z \in Seq(1 .. 4) /\ Len(z) = Len(s)
  <2>1. DOMAIN z = 1 .. Len(s) /\ \A i \in 1 .. Len(s) : z[i] \in 1 .. 4
    BY <1>3
  <2> HIDE DEF z
  <2> QED
    BY ONLY <1>1, <1>3, <2>1
<1>5. LeadPositions(s) = Walk(z)
  BY DEF LeadPositions
<1> HIDE DEF z
<1>6. Comes(Walk(z), 1, Len(z), z)
  BY <1>4, WalkComes
<1> QED
  BY <1>3, <1>4, <1>5, <1>6 DEF z

LEMMA ConverterAgrees ==
  ASSUME NEW s \in Text, WellFormed(s)
  PROVE  LeadPositions(s) = Starts(s)
<1> DEFINE z == [pos \in DOMAIN s |-> GetUTF8ByteLen(s[pos])]
           S == Starts(s)
<1>1. z \in [1 .. Len(s) -> 1 .. 4] /\ Comes(LeadPositions(s), 1, Len(s), z)
  BY ConverterStepsAre
<1>2. Len(s) \in Nat /\ Comes(S, 1, Len(s), Sizes(s)) /\ S \in Seq(1 .. Len(s)) /\ Len(S) \in Nat
  BY StartsCome, UnitsAre
<1>3. ASSUME NEW k \in 1 .. Len(S) PROVE z[S[k]] = Sizes(s)[S[k]]
  <2>1. S[k] \in 1 .. Len(s) /\ Sizes(s)[S[k]] = LenAt(s, S[k]) /\ LenAt(s, S[k]) \in 1 .. 4
    BY WellFormedSteps
  <2>2. z[S[k]] = GetUTF8ByteLen(s[S[k]])
    BY <2>1 DEF Text
  <2> HIDE DEF z, S
  <2> QED
    BY <2>1, <2>2 DEF GetUTF8ByteLen, LenAt
<1> HIDE DEF z, S
<1>4. Comes(S, 1, Len(s), z)
  <2>1. \A k \in 1 .. Len(S) - 1 : S[k + 1] = S[k] + z[S[k]]
    <3> TAKE k \in 1 .. Len(S) - 1
    <3>1. k \in 1 .. Len(S)
      BY <1>2
    <3>2. S[k + 1] = S[k] + Sizes(s)[S[k]]
      BY <1>2 DEF Comes
    <3> QED
      BY <1>3, <3>1, <3>2
  <2>2. Len(S) > 0 => S[Len(S)] + z[S[Len(S)]] > Len(s)
    <3> SUFFICES ASSUME Len(S) > 0 PROVE S[Len(S)] + z[S[Len(S)]] > Len(s)
      OBVIOUS
    <3>1. Len(S) \in 1 .. Len(S)
      BY <1>2
    <3>2. S[Len(S)] + Sizes(s)[S[Len(S)]] > Len(s)
      BY <1>2 DEF Comes
    <3> QED
      BY <1>3, <3>1, <3>2
  <2> QED
    BY <1>2, <2>1, <2>2 DEF Comes
<1> QED
  BY <1>1, <1>2, <1>4, OneWalk DEF S

LEMMA ConverterTakesItForValid ==
  ASSUME NEW s \in Text, WellFormed(s)
  PROVE  /\ IsValidUTF8(s) /\ GetUTF8Length(s) = CountUtf8Chars(s)
         /\ SplitUTF8(s) = [k \in DOMAIN Units(s) |-> Units(s)[k].bytes]
<1> DEFINE S == Starts(s)
<1>1. LeadPositions(s) = S /\ DOMAIN S = 1 .. Len(S) /\ Len(S) \in Nat /\ DOMAIN Units(s) = 1 .. Len(S)
  BY ConverterAgrees, UnitsAre
<1>2. ASSUME NEW k \in 1 .. Len(S)
      PROVE  /\ S[k] \in 1 .. Len(s) /\ IsOkAt(s, S[k]) /\ LenAt(s, S[k]) \in 1 .. 4
             /\ S[k] + LenAt(s, S[k]) - 1 <= Len(s) /\ Sizes(s)[S[k]] = LenAt(s, S[k])
             /\ Units(s)[k] = UnitAt(s, S[k])
  BY WellFormedSteps, UnitsAre
<1> HIDE DEF S
<1>3. IsValidUTF8(s)
  <2> SUFFICES ASSUME NEW k \in DOMAIN LeadPositions(s),
                      NEW pos, pos = LeadPositions(s)[k],
                      NEW len, len = GetUtf8SequenceLength(s[pos])
               PROVE  /\ len > 0 /\ pos + len - 1 <= Len(s)
                      /\ \A i \in 1 .. len - 1 : IsUtf8ContinuationByte(s[pos + i])
    BY DEF IsValidUTF8
  <2>1. k \in 1 .. Len(S) /\ pos = S[k] /\ len = LenAt(s, pos)
    BY <1>1 DEF LenAt
  <2>2. IsOkAt(s, pos)
    BY <1>2, <2>1
  <2> QED
    BY <2>1, <2>2 DEF IsOkAt, ValidateUtf8Sequence
<1>4. GetUTF8Length(s) = CountUtf8Chars(s)
  BY <1>1, CountIs DEF GetUTF8Length, S
<1>5. SplitUTF8(s) = [k \in DOMAIN Units(s) |-> Units(s)[k].bytes]
  <2> DEFINE last(k) == S[k] + GetUTF8ByteLen(s[S[k]]) - 1
  <2>1. ASSUME NEW k \in 1 .. Len(S)
        PROVE  last(k) = S[k] + LenAt(s, S[k]) - 1 /\ last(k) <= Len(s)
    <3>1. /\ S[k] \in 1 .. Len(s) /\ LenAt(s, S[k]) \in 1 .. 4
          /\ S[k] + LenAt(s, S[k]) - 1 <= Len(s)
      BY <1>2
    <3>2. GetUTF8ByteLen(s[S[k]]) = LenAt(s, S[k])
      BY <3>1 DEF LenAt, GetUTF8ByteLen
    <3> QED
      BY <3>1, <3>2
  <2>2. SplitUTF8(s) = [k \in {i \in 1 .. Len(S) : last(i) <= Len(s)} |-> SubSeq(s, S[k], last(k))]
    BY <1>1 DEF SplitUTF8
  <2> HIDE DEF last
  <2>3. {i \in 1 .. Len(S) : last(i) <= Len(s)} = 1 .. Len(S)
    BY <2>1
  <2>4. \A k \in 1 .. Len(S) : SubSeq(s, S[k], last(k)) = Units(s)[k].bytes
    <3> TAKE k \in 1 .. Len(S)
    <3>1. UnitAt(s, S[k]).bytes = SubSeq(s, S[k], S[k] + LenAt(s, S[k]) - 1)
      BY <1>2, UnitIs
    <3> QED
      BY <1>2, <2>1, <3>1
  <2> QED
    BY <1>1, <2>2, <2>3, <2>4
<1> QED
  BY <1>3, <1>4, <1>5

\* An accented letter of Latin-1 is a byte that begins a character of several, and what it
\* becomes does not.
LEMMA AccentIs ==
  ASSUME NEW b \in Byte
  PROVE  /\ DiacriticToAscii(b) \in Byte
         /\ DiacriticToAscii(b) # b => GetUtf8SequenceLength(b) > 1 /\ DiacriticToAscii(b) < 128
         /\ IsUtf8ContinuationByte(b) => DiacriticToAscii(b) = b
<1>1. b \in Int /\ b >= 0 /\ b <= 255
  BY DEF Byte
<1>2. CASE b \in 192 .. 197
  BY <1>1, <1>2 DEF DiacriticToAscii, GetUtf8SequenceLength, IsUtf8ContinuationByte, Byte
<1>3. CASE b \in 200 .. 203
  BY <1>1, <1>3 DEF DiacriticToAscii, GetUtf8SequenceLength, IsUtf8ContinuationByte, Byte
<1>4. CASE b \in 224 .. 229
  BY <1>1, <1>4 DEF DiacriticToAscii, GetUtf8SequenceLength, IsUtf8ContinuationByte, Byte
<1>5. CASE b \in 232 .. 235
  BY <1>1, <1>5 DEF DiacriticToAscii, GetUtf8SequenceLength, IsUtf8ContinuationByte, Byte
<1>6. CASE b \notin 192 .. 197 \cup 200 .. 203 \cup 224 .. 229 \cup 232 .. 235
  <2>1. DiacriticToAscii(b) = b
    BY <1>6 DEF DiacriticToAscii
  <2> QED
    BY <2>1
<1> QED
  BY <1>2, <1>3, <1>4, <1>5, <1>6

LEMMA AccentsRuin ==
  ASSUME NEW s \in Text, WellFormed(s), WellFormed(RemoveDiacritics(s))
  PROVE  RemoveDiacritics(s) = s
<1> DEFINE t == RemoveDiacritics(s)
<1>1. Len(s) \in Nat /\ DOMAIN s = 1 .. Len(s) /\ \A i \in 1 .. Len(s) : s[i] \in Byte
  BY DEF Text
<1>2. t = [i \in 1 .. Len(s) |-> DiacriticToAscii(s[i])]
  BY <1>1 DEF RemoveDiacritics
<1> HIDE DEF t
<1>3. \A i \in 1 .. Len(s) : t[i] = DiacriticToAscii(s[i]) /\ t[i] \in Byte
  BY <1>1, <1>2, AccentIs
<1>4. t \in Text /\ Len(t) = Len(s)
  <2>1. DOMAIN t = 1 .. Len(s) /\ t \in [1 .. Len(s) -> Byte]
    BY <1>2, <1>3
  <2> QED
    BY ONLY <1>1, <2>1 DEF Text
<1>5. SUFFICES ASSUME NEW p \in 1 .. Len(s), t[p] # s[p] PROVE FALSE
  <2>1. \A i \in 1 .. Len(s) : t[i] = s[i]
    BY <1>5
  <2> QED
    BY ONLY <1>4, <2>1, SeqEqual, s \in Text DEF Text, t
<1>6. LenAt(s, p) > 1 /\ t[p] < 128
  BY <1>1, <1>3, <1>5, AccentIs DEF LenAt
<1>7. ~IsUtf8ContinuationByte(s[p])
  BY <1>1, <1>6, ByteKinds DEF LenAt
<1>8. IsOkAt(s, p)
  <2>1. PICK k \in 1 .. Len(Starts(s)) : Starts(s)[k] = p
    BY <1>7, CharactersBegin
  <2> QED
    BY <2>1, WellFormedSteps
<1>9. p + 1 <= Len(s) /\ IsUtf8ContinuationByte(s[p + 1])
  <2>1. LenAt(s, p) \in 1 .. 4 /\ p + LenAt(s, p) - 1 <= Len(s)
    BY <1>8, CharacterIs
  <2>2. p + 1 \in p + 1 .. p + LenAt(s, p) - 1
    BY <1>6, <2>1
  <2> QED
    BY <1>1, <1>6, <1>8, <2>1, <2>2, CharacterIs
<1>10. p + 1 \in 1 .. Len(s) /\ IsUtf8ContinuationByte(t[p + 1])
  BY <1>1, <1>3, <1>9, AccentIs
<1>11. LenAt(t, p) = 1 /\ ~IsUtf8ContinuationByte(t[p])
  BY <1>3, <1>6, ByteKinds DEF LenAt
<1>12. WellFormed(t)
  BY DEF t
<1>13. PICK k \in 1 .. Len(Starts(t)) : Starts(t)[k] = p
  BY <1>4, <1>11, <1>12, CharactersBegin
<1>14. k < Len(Starts(t)) => Starts(t)[k + 1] = p + 1
  BY <1>4, <1>11, <1>12, <1>13, WellFormedSteps
<1>15. k < Len(Starts(t))
  <2>1. ~(k < Len(Starts(t))) => p + 1 = Len(s) + 1
    BY <1>4, <1>11, <1>12, <1>13, WellFormedSteps
  <2> QED
    BY <1>1, <1>9, <2>1
<1>16. ~IsUtf8ContinuationByte(t[p + 1])
  <2>1. k + 1 \in 1 .. Len(Starts(t))
    BY <1>4, <1>15, UnitsAre
  <2> QED
    BY <1>4, <1>10, <1>12, <1>14, <1>15, <2>1, CharactersBegin
<1> QED
  BY <1>10, <1>16

LEMMA AsciiIs ==
  ASSUME NEW s \in Text, WellFormed(s)
  PROVE  ValidateASCII(s) = (GetUTF8Length(s) = Len(s))
<1> DEFINE S == Starts(s)
<1>1. /\ Len(s) \in Nat /\ DOMAIN s = 1 .. Len(s) /\ \A i \in 1 .. Len(s) : s[i] \in Byte
      /\ Len(S) \in Nat /\ GetUTF8Length(s) = Len(S)
  BY ConverterAgrees, UnitsAre DEF Text, GetUTF8Length
<1>2. ASSUME NEW k \in 1 .. Len(S)
      PROVE  /\ S[k] \in 1 .. Len(s) /\ LenAt(s, S[k]) \in 1 .. 4
             /\ S[k] + LenAt(s, S[k]) - 1 <= Len(s)
             /\ k < Len(S) => S[k + 1] = S[k] + LenAt(s, S[k])
             /\ ~(k < Len(S)) => S[k] + LenAt(s, S[k]) = Len(s) + 1
  BY WellFormedSteps
<1>3. /\ \A i, j \in 1 .. Len(S) : i < j => S[j] >= S[i] + (j - i)
      /\ Len(s) > 0 => Len(S) > 0 /\ S[1] = 1
      /\ Len(s) = 0 => Len(S) = 0
  BY WellFormedSteps
<1> HIDE DEF S
<1>4. ASSUME ValidateASCII(s) PROVE Len(S) = Len(s)
  <2>1. \A i \in 1 .. Len(s) : LenAt(s, i) = 1
    <3> TAKE i \in 1 .. Len(s)
    <3>1. s[i] <= 127 /\ s[i] \in Byte
      BY <1>1, <1>4 DEF ValidateASCII
    <3>2. s[i] < 128
      BY <3>1, ByteKinds
    <3> QED
      BY <3>1, <3>2, ByteKinds DEF LenAt
  <2> DEFINE T == {i \in Nat : i + 1 <= Len(S) => S[i + 1] = i + 1}
  <2>2. 0 \in T
    BY <1>1, <1>3
  <2>3. ASSUME NEW i \in Nat, i \in T PROVE i + 1 \in T
    <3> SUFFICES ASSUME (i + 1) + 1 <= Len(S) PROVE S[(i + 1) + 1] = (i + 1) + 1
      OBVIOUS
    <3>1. i + 1 \in 1 .. Len(S) /\ i + 1 < Len(S) /\ S[i + 1] = i + 1
      BY <1>1, <2>3
    <3>2. S[(i + 1) + 1] = S[i + 1] + LenAt(s, S[i + 1]) /\ S[i + 1] \in 1 .. Len(s)
      BY <1>2, <3>1
    <3> QED
      BY <2>1, <3>1, <3>2
  <2>4. Nat \subseteq T
    <3> HIDE DEF T
    <3> QED
      BY <2>2, <2>3, CountingUp
  <2>5. CASE Len(s) = 0
    BY <1>3, <2>5
  <2>6. CASE Len(s) # 0
    <3>1. Len(S) \in 1 .. Len(S) /\ ~(Len(S) < Len(S)) /\ Len(S) - 1 \in Nat
      BY <1>1, <1>3, <2>6
    <3>2. S[Len(S)] = Len(S)
      <4>1. Len(S) - 1 \in T /\ (Len(S) - 1) + 1 = Len(S)
        BY <2>4, <3>1
      <4> QED
        BY <1>1, <4>1
    <3>3. S[Len(S)] + LenAt(s, S[Len(S)]) = Len(s) + 1 /\ S[Len(S)] \in 1 .. Len(s)
      BY <1>2, <3>1
    <3>4. Len(S) + 1 = Len(s) + 1
      BY <2>1, <3>2, <3>3
    <3> QED
      BY <1>1, <3>4
  <2> QED
    BY <2>5, <2>6
<1>5. ASSUME Len(S) = Len(s) PROVE ValidateASCII(s)
  <2>1. ASSUME NEW k \in 1 .. Len(s) PROVE S[k] = k
    <3>1. Len(S) > 0 /\ S[1] = 1 /\ 1 \in 1 .. Len(S) /\ k \in 1 .. Len(S) /\ Len(S) \in 1 .. Len(S)
      BY <1>1, <1>3, <1>5
    <3>2. S[k] >= k
      <4>1. CASE k = 1
        BY <3>1, <4>1
      <4>2. CASE k # 1
        <5>1. 1 < k
          BY <4>2
        <5>2. S[k] >= 1 + (k - 1)
          BY <1>3, <3>1, <5>1
        <5> QED
          BY <1>2, <3>1, <5>2
      <4> QED
        BY <4>1, <4>2
    <3>3. S[k] <= k
      <4>1. S[k] \in Int /\ S[Len(S)] \in Int /\ S[Len(S)] <= Len(s)
        BY <1>1, <1>2, <3>1
      <4>2. CASE k = Len(S)
        BY <1>5, <4>1, <4>2
      <4>3. CASE k # Len(S)
        <5>1. k < Len(S)
          BY <1>1, <3>1, <4>3
        <5>2. S[Len(S)] >= S[k] + (Len(S) - k)
          BY <1>3, <3>1, <5>1
        <5> QED
          BY <1>1, <1>5, <4>1, <5>2
      <4> QED
        BY <4>2, <4>3
    <3> QED
      BY <1>2, <3>1, <3>2, <3>3
  <2>2. ASSUME NEW k \in 1 .. Len(s) PROVE s[k] <= 127
    <3>1. S[k] = k /\ k \in 1 .. Len(S)
      BY <1>5, <2>1
    <3>2. LenAt(s, k) = 1
      <4>1. CASE k < Len(S)
        <5>1. k + 1 \in 1 .. Len(s)
          BY <1>1, <1>5, <4>1
        <5>2. S[k + 1] = k + 1 /\ S[k + 1] = k + LenAt(s, k) /\ LenAt(s, k) \in 1 .. 4
          BY <1>2, <2>1, <3>1, <4>1, <5>1
        <5> QED
          BY <5>2
      <4>2. CASE ~(k < Len(S))
        <5>1. k + LenAt(s, k) = Len(s) + 1 /\ LenAt(s, k) \in 1 .. 4
          BY <1>2, <3>1, <4>2
        <5>2. k = Len(s)
          <6>1. ~(k < Len(s))
            BY <1>5, <4>2
          <6>2. \A n \in Nat : \A i \in 1 .. n : ~(i < n) => i = n
            OBVIOUS
          <6> QED
            BY <1>1, <6>1, <6>2
        <5> QED
          BY ONLY <1>1, <5>1, <5>2
      <4> QED
        BY <4>1, <4>2
    <3>3. s[k] < 128
      BY <1>1, <3>2, ByteKinds DEF LenAt
    <3>4. s[k] \in Byte
      BY <1>1
    <3> QED
      BY <3>3, <3>4, ByteKinds
  <2> QED
    BY <1>1, <2>2 DEF ValidateASCII
<1>6. ValidateASCII(s) \in BOOLEAN
  BY DEF ValidateASCII
<1> QED
  BY <1>1, <1>4, <1>5, <1>6

-----------------------------------------------------------------------------
(* Every text that an application may have selected. *)

\* For every text that is put together from any pieces and every configuration: if it is
\* well-formed, the validator and the event bus cut it between characters as late as the
\* limit allows, what they leave is not refused as too long, counts in characters and in
\* bytes agree, and the string converter takes it for valid and splits it as the validator
\* does.
THEOREM CutsAreBetweenCharacters == ContentSpec => []CutsBetweenCharacters
<1>1. ContentInit => content \in Text
  BY DEF ContentInit, Text
<1>2. content \in Text /\ [ContentNext]_contentVars => (content \in Text)'
  <2>1. ASSUME content \in Text, NEW piece \in Pieces, SelectMore(piece) PROVE content' \in Text
    <3>1. piece \in Text
      BY ContentAssumption DEF Text
    <3>2. content' = content \o piece
      BY <2>1 DEF SelectMore
    <3> QED
      BY <2>1, <3>1, <3>2 DEF Text
  <2>2. UNCHANGED contentVars => content' = content
    BY DEF contentVars
  <2> QED
    BY <2>1, <2>2 DEF ContentNext
<1>3. content \in Text => CutsBetweenCharacters
  <2> SUFFICES ASSUME content \in Text, WellFormed(content) PROVE CutsBetweenCharacters
    BY DEF CutsBetweenCharacters
  <2>1. ASSUME NEW n \in 0 .. Len(content), NEW cut, cut = TruncateUtf8Safe(content, n)
        PROVE  /\ cut = TrimToLimit(content, n) /\ WellFormed(cut) /\ Len(cut) <= n
               /\ \A m \in Len(cut) + 1 .. n : ~WellFormed(SubSeq(content, 1, m))
               /\ WellFormed(SubSeq(content, 1, AlignToCharBoundary(content, n)))
               /\ WellFormed(SubSeq(content, 1, n)) => AlignToCharBoundary(content, n) = n
               /\ CharOffsetToByteOffset(content, ByteOffsetToCharOffset(content, n)) >= n
    BY <2>1, CutsWell, BytesAgree
  <2>2. \A k \in 0 .. CountUtf8Chars(content) :
          /\ ByteOffsetToCharOffset(content, CharOffsetToByteOffset(content, k)) = k
          /\ CountUtf8Chars(ExtractFirstNChars(content, k)) = k
    BY CountsAgree
  <2>3. /\ Validate(TruncateUtf8Safe(content, CONTENT_MAX_BYTES)) # "CONTENT_OUT_OF_RANGE"
        /\ \A config \in Configs :
             ValidateWithConfig(ExtractFirstNChars(TruncateUtf8Safe(content, config.maxBytes),
                                                   config.maxChars), config)
               # "CONTENT_OUT_OF_RANGE"
    BY CutsAreNotRefused
  <2>4. /\ IsValidUTF8(content) /\ GetUTF8Length(content) = CountUtf8Chars(content)
        /\ SplitUTF8(content) = [k \in DOMAIN Units(content) |-> Units(content)[k].bytes]
    BY ConverterTakesItForValid
  <2>5. WellFormed(RemoveDiacritics(content)) => RemoveDiacritics(content) = content
    BY AccentsRuin
  <2>6. ValidateASCII(content) = (GetUTF8Length(content) = Len(content))
    BY AsciiIs
  <2> QED
    BY <2>1, <2>2, <2>3, <2>4, <2>5, <2>6 DEF CutsBetweenCharacters
<1> QED
  BY <1>1, <1>2, <1>3, PTL DEF ContentSpec
================================================================================
