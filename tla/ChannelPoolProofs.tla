------------------------- MODULE ChannelPoolProofs --------------------------
(***************************************************************************)
(* The list and the map of LRUCache agree after every operation, for any   *)
(* capacity, keys and node addresses, and the pool implements Cache: what  *)
(* it gives up is the entry used least recently, and only when it is full. *)
(*                                                                         *)
(* The operations of LRUCache are compositions of two: a key is erased,    *)
(* and a node is put in front.  Each has one lemma, about any list, map    *)
(* and nodes that agree, that says what it does to the values and to the   *)
(* order of use.                                                           *)
(***************************************************************************)
EXTENDS ChannelPool, FiniteSetTheorems, SequenceTheorems, TLAPS

(* List, map and nodes agree; the length is not limited, as in the middle  *)
(* of put.                                                                 *)
Agree(l, m, e) ==
    /\ l \in Seq(Slot)
    /\ m \in [Key -> Slot \cup {None}]
    /\ e \in [Slot -> Entry \cup {None}]
    /\ \A i, j \in 1 .. Len(l) : l[i] = l[j] => i = j
    /\ \A i \in 1 .. Len(l) : e[l[i]] \in Entry /\ m[e[l[i]].key] = l[i]
    /\ \A k \in Key : m[k] # None => \E i \in 1 .. Len(l) : m[k] = l[i] /\ e[l[i]].key = k

IInv == Agree(list, map, entry) /\ Len(list) <= Capacity

(* The values, and the order of use.                                       *)
Cached(m) == {k \in Key : m[k] # None}

Values(m, e) == [k \in Key |-> IF m[k] = None THEN None ELSE e[m[k]].value]

Older(l, e) ==
    {<<e[l[p[2]]].key, e[l[p[1]]].key>> :
        p \in {p \in (1 .. Len(l)) \X (1 .. Len(l)) : p[1] < p[2]}}

-----------------------------------------------------------------------------
(* The fields of a node.                                                   *)
LEMMA EntryFields ==
    ASSUME NEW x \in Entry
    PROVE  x.key \in Key /\ x.value \in Value /\ x.value # None
BY LRUCacheAssumption DEF Entry

(* The pairs that say k is used after the keys.                            *)
Behind(k, keys) == {<<a, k>> : a \in keys}

(* A pair of the order is two positions, the later one the older.          *)
LEMMA OlderPair ==
    ASSUME NEW l, NEW m, NEW e, Agree(l, m, e), NEW a, NEW b
    PROVE  <<a, b>> \in Older(l, e) <=>
             \E i, j \in 1 .. Len(l) : i < j /\ a = e[l[j]].key /\ b = e[l[i]].key
<1>1. ASSUME <<a, b>> \in Older(l, e)
      PROVE  \E i, j \in 1 .. Len(l) : i < j /\ a = e[l[j]].key /\ b = e[l[i]].key
  <2>1. PICK p \in (1 .. Len(l)) \X (1 .. Len(l)) :
               p[1] < p[2] /\ <<a, b>> = <<e[l[p[2]]].key, e[l[p[1]]].key>>
    BY <1>1 DEF Older
  <2>2. p[1] \in 1 .. Len(l) /\ p[2] \in 1 .. Len(l)
    BY <2>1
  <2>. QED  BY <2>1, <2>2
<1>2. ASSUME NEW i \in 1 .. Len(l), NEW j \in 1 .. Len(l), i < j,
             a = e[l[j]].key, b = e[l[i]].key
      PROVE  <<a, b>> \in Older(l, e)
  <2>1. <<i, j>> \in {p \in (1 .. Len(l)) \X (1 .. Len(l)) : p[1] < p[2]}
    BY <1>2
  <2>. QED  BY <1>2, <2>1 DEF Older
<1>. QED  BY <1>1, <1>2

(* The order relates cached keys only, and it has nothing but pairs.       *)
LEMMA OlderCached ==
    ASSUME NEW l, NEW m, NEW e, Agree(l, m, e), NEW p \in Older(l, e)
    PROVE  p = <<p[1], p[2]>> /\ p[1] \in Cached(m) /\ p[2] \in Cached(m)
<1>1. PICK i \in 1 .. Len(l), j \in 1 .. Len(l) : p = <<e[l[j]].key, e[l[i]].key>>
  <2>1. PICK q \in (1 .. Len(l)) \X (1 .. Len(l)) : p = <<e[l[q[2]]].key, e[l[q[1]]].key>>
    BY DEF Older
  <2>2. q[1] \in 1 .. Len(l) /\ q[2] \in 1 .. Len(l)
    BY <2>1
  <2>. QED  BY <2>1, <2>2
<1>2. \A n \in 1 .. Len(l) : e[l[n]].key \in Cached(m)
  <2>. SUFFICES ASSUME NEW n \in 1 .. Len(l) PROVE e[l[n]].key \in Cached(m)
    OBVIOUS
  <2>1. l[n] \in Slot /\ e[l[n]] \in Entry /\ m[e[l[n]].key] = l[n]
    BY DEF Agree
  <2>2. e[l[n]].key \in Key
    BY <2>1, EntryFields
  <2>. QED  BY <2>1, <2>2, LRUCacheAssumption DEF Cached
<1>. QED  BY <1>1, <1>2

(* std::list::erase: the node at position p is taken out of the list.      *)
LEMMA WithoutIs ==
    ASSUME NEW l \in Seq(Slot), \A i, j \in 1 .. Len(l) : l[i] = l[j] => i = j,
           NEW p \in 1 .. Len(l)
    PROVE  /\ Without(l, l[p]) \in Seq(Slot)
           /\ Len(Without(l, l[p])) = Len(l) - 1
           /\ \A j \in 1 .. (Len(l) - 1) :
                Without(l, l[p])[j] = IF j < p THEN l[j] ELSE l[j + 1]
<1>. DEFINE q == CHOOSE i \in DOMAIN l : l[i] = l[p]
<1>1. DOMAIN l = 1 .. Len(l) /\ Len(l) \in Nat
  OBVIOUS
<1>2. q = p
  BY <1>1
<1>3. Without(l, l[p]) = [j \in 1 .. (Len(l) - 1) |-> IF j < p THEN l[j] ELSE l[j + 1]]
  BY <1>2 DEF Without
<1>4. Len(l) - 1 \in Nat
  BY <1>1
<1>5. \A j \in 1 .. (Len(l) - 1) : (IF j < p THEN l[j] ELSE l[j + 1]) \in Slot
  BY <1>1
<1>. HIDE DEF q
<1>6. Without(l, l[p]) \in Seq(Slot)
  BY <1>3, <1>4, <1>5, IsASeq
<1>. QED  BY <1>3, <1>4, <1>6

-----------------------------------------------------------------------------
(* Erasing the key at position p leaves what agrees, and takes the key out *)
(* of the values and out of the order.                                     *)
LEMMA EraseAt ==
    ASSUME NEW l, NEW m, NEW e, Agree(l, m, e), NEW p \in 1 .. Len(l), NEW k,
           k = e[l[p]].key
    PROVE  /\ Agree(Without(l, l[p]), [m EXCEPT ![k] = None], e)
           /\ Len(Without(l, l[p])) = Len(l) - 1
           /\ \A i \in 1 .. Len(Without(l, l[p])) : Without(l, l[p])[i] # l[p]
           /\ Older(Without(l, l[p]), e) = {q \in Older(l, e) : q[1] # k /\ q[2] # k}
<1>. DEFINE w == Without(l, l[p])
            n == [m EXCEPT ![k] = None]
            at(j) == IF j < p THEN j ELSE j + 1
<1>1. /\ l \in Seq(Slot) /\ Len(l) \in Nat
      /\ m \in [Key -> Slot \cup {None}]
      /\ e \in [Slot -> Entry \cup {None}]
      /\ \A i, j \in 1 .. Len(l) : l[i] = l[j] => i = j
      /\ \A i \in 1 .. Len(l) : e[l[i]] \in Entry /\ m[e[l[i]].key] = l[i] /\ l[i] \in Slot
      /\ \A x \in Key : m[x] # None => \E i \in 1 .. Len(l) : m[x] = l[i] /\ e[l[i]].key = x
  BY DEF Agree
<1>2. /\ w \in Seq(Slot) /\ Len(w) = Len(l) - 1
      /\ \A j \in 1 .. Len(w) : w[j] = IF j < p THEN l[j] ELSE l[j + 1]
  <2>1. l \in Seq(Slot) /\ \A i, j \in 1 .. Len(l) : l[i] = l[j] => i = j
    BY <1>1
  <2>2. /\ w \in Seq(Slot) /\ Len(w) = Len(l) - 1
        /\ \A j \in 1 .. (Len(l) - 1) : w[j] = IF j < p THEN l[j] ELSE l[j + 1]
    BY ONLY <2>1, WithoutIs
  <2>. HIDE DEF w
  <2>. QED  BY <2>2
<1>3. k \in Key /\ m[k] = l[p]
  BY <1>1, EntryFields
<1>. HIDE DEF w
<1>4. \A j \in 1 .. Len(w) : at(j) \in 1 .. Len(l) /\ w[j] = l[at(j)] /\ at(j) # p
  BY <1>1, <1>2
<1>5. \A i, j \in 1 .. Len(w) : (at(i) = at(j) => i = j) /\ (i < j <=> at(i) < at(j))
  BY <1>1, <1>2
<1>6. \A i \in 1 .. Len(l) : i # p => \E j \in 1 .. Len(w) : at(j) = i
  <2>. SUFFICES ASSUME NEW i \in 1 .. Len(l), i # p
                PROVE  \E j \in 1 .. Len(w) : at(j) = i
    OBVIOUS
  <2>1. CASE i < p
    BY <2>1, <1>1, <1>2
  <2>2. CASE i > p
    <3>1. i - 1 \in 1 .. Len(w) /\ at(i - 1) = i
      BY <2>2, <1>1, <1>2
    <3>. QED  BY <3>1
  <2>. QED  BY <2>1, <2>2
<1>. HIDE DEF at
<1>7. \A i \in 1 .. Len(l) : i # p => e[l[i]].key # k
  BY <1>1, <1>3
<1>8. \A j \in 1 .. Len(w) : w[j] # l[p]
  BY <1>1, <1>4
<1>9. Agree(w, n, e)
  <2>1. n \in [Key -> Slot \cup {None}] /\ n[k] = None /\ \A x \in Key : x # k => n[x] = m[x]
    BY <1>1, <1>3
  <2>. HIDE DEF n
  <2>2. \A i, j \in 1 .. Len(w) : w[i] = w[j] => i = j
    BY <1>1, <1>4, <1>5
  <2>3. \A i \in 1 .. Len(w) : e[w[i]] \in Entry /\ n[e[w[i]].key] = w[i]
    <3>. TAKE i \in 1 .. Len(w)
    <3>1. /\ at(i) \in 1 .. Len(l) /\ w[i] = l[at(i)] /\ e[w[i]] \in Entry
          /\ e[w[i]].key # k /\ m[e[w[i]].key] = w[i]
      BY <1>1, <1>4, <1>7
    <3>. QED  BY <3>1, <2>1, EntryFields
  <2>4. \A x \in Key : n[x] # None => \E i \in 1 .. Len(w) : n[x] = w[i] /\ e[w[i]].key = x
    <3>. SUFFICES ASSUME NEW x \in Key, n[x] # None
                  PROVE  \E i \in 1 .. Len(w) : n[x] = w[i] /\ e[w[i]].key = x
      OBVIOUS
    <3>1. x # k /\ m[x] = n[x]
      BY <2>1
    <3>2. PICK i \in 1 .. Len(l) : m[x] = l[i] /\ e[l[i]].key = x
      BY <1>1, <3>1
    <3>3. i # p
      BY <3>1, <3>2
    <3>4. PICK j \in 1 .. Len(w) : at(j) = i
      BY <1>6, <3>3
    <3>. QED  BY <1>4, <3>1, <3>2, <3>4
  <2>. QED  BY <1>1, <1>2, <2>1, <2>2, <2>3, <2>4 DEF Agree
<1>10. \A a, b : <<a, b>> \in Older(w, e) <=> <<a, b>> \in Older(l, e) /\ a # k /\ b # k
  <2>. TAKE a, b
  <2>1. ASSUME <<a, b>> \in Older(w, e) PROVE <<a, b>> \in Older(l, e) /\ a # k /\ b # k
    <3>1. PICK i, j \in 1 .. Len(w) : i < j /\ a = e[w[j]].key /\ b = e[w[i]].key
      BY <2>1, <1>9, OlderPair
    <3>2. /\ at(i) \in 1 .. Len(l) /\ at(j) \in 1 .. Len(l) /\ at(i) < at(j)
          /\ a = e[l[at(j)]].key /\ b = e[l[at(i)]].key /\ at(i) # p /\ at(j) # p
      BY <3>1, <1>4, <1>5
    <3>3. <<a, b>> \in Older(l, e)
      BY <3>2, OlderPair
    <3>. QED  BY <3>2, <3>3, <1>7
  <2>2. ASSUME <<a, b>> \in Older(l, e), a # k, b # k PROVE <<a, b>> \in Older(w, e)
    <3>1. PICK i, j \in 1 .. Len(l) : i < j /\ a = e[l[j]].key /\ b = e[l[i]].key
      BY <2>2, OlderPair
    <3>2. i # p /\ j # p
      BY <2>2, <3>1
    <3>3. PICK x \in 1 .. Len(w), y \in 1 .. Len(w) : at(x) = i /\ at(y) = j
      BY <3>2, <1>6
    <3>4. x < y /\ a = e[w[y]].key /\ b = e[w[x]].key
      BY <3>1, <3>3, <1>4, <1>5
    <3>. QED  BY <3>4, <1>9, OlderPair
  <2>. QED  BY <2>1, <2>2
<1>11. Older(w, e) = {q \in Older(l, e) : q[1] # k /\ q[2] # k}
  <2>1. \A q \in Older(w, e) : q \in Older(l, e) /\ q[1] # k /\ q[2] # k
    <3>. TAKE q \in Older(w, e)
    <3>1. q = <<q[1], q[2]>>
      BY <1>9, OlderCached
    <3>. QED  BY <3>1, <1>10
  <2>2. \A q \in Older(l, e) : q[1] # k /\ q[2] # k => q \in Older(w, e)
    <3>. TAKE q \in Older(l, e)
    <3>1. q = <<q[1], q[2]>>
      BY OlderCached
    <3>. QED  BY <3>1, <1>10
  <2>. QED  BY <2>1, <2>2
<1>. QED  BY <1>2, <1>8, <1>9, <1>11 DEF w

(* What _put writes: the list, the map and the nodes.                      *)
Pushed(s, l) == << s >> \o l

Linked(m, k, s) == [m EXCEPT ![k] = s]

Filled(e, s, k, v) == [e EXCEPT ![s] = [key |-> k, value |-> v]]

(* _list.push_front of a node that is not in the list, for a key that is   *)
(* not in the map: the key is cached, and used after all others.           *)
LEMMA PutInFront ==
    ASSUME NEW l, NEW m, NEW e, Agree(l, m, e), NEW k \in Key, m[k] = None,
           NEW v \in Value, NEW s \in Slot, \A i \in 1 .. Len(l) : l[i] # s,
           NEW w, w = Pushed(s, l), NEW n, n = Linked(m, k, s), NEW f, f = Filled(e, s, k, v)
    PROVE  /\ Agree(w, n, f)
           /\ Len(w) = Len(l) + 1
           /\ \A i \in 1 .. (Len(l) + 1) : w[i] = IF i = 1 THEN s ELSE l[i - 1]
           /\ Older(w, f) = Older(l, e) \cup Behind(k, Cached(m))
<1>1. /\ l \in Seq(Slot) /\ Len(l) \in Nat
      /\ m \in [Key -> Slot \cup {None}]
      /\ e \in [Slot -> Entry \cup {None}]
      /\ \A i, j \in 1 .. Len(l) : l[i] = l[j] => i = j
      /\ \A i \in 1 .. Len(l) : e[l[i]] \in Entry /\ m[e[l[i]].key] = l[i] /\ l[i] \in Slot
      /\ \A x \in Key : m[x] # None => \E i \in 1 .. Len(l) : m[x] = l[i] /\ e[l[i]].key = x
  BY DEF Agree
<1>2. /\ w \in Seq(Slot) /\ Len(w) = Len(l) + 1 /\ w[1] = s
      /\ \A i \in 1 .. Len(l) : w[i + 1] = l[i]
      /\ \A i \in 1 .. (Len(l) + 1) : w[i] = IF i = 1 THEN s ELSE l[i - 1]
  <2>1. << s >> \in Seq(Slot) /\ Len(<< s >>) = 1 /\ << s >>[1] = s
    OBVIOUS
  <2>2. /\ w \in Seq(Slot) /\ Len(w) = 1 + Len(l)
        /\ \A i \in 1 .. 1 + Len(l) : w[i] = IF i <= 1 THEN << s >>[i] ELSE l[i - 1]
    BY <1>1, <2>1, ConcatProperties DEF Pushed
  <2>. QED  BY <1>1, <2>1, <2>2
<1>3. /\ n \in [Key -> Slot \cup {None}] /\ n[k] = s /\ \A x \in Key : x # k => n[x] = m[x]
  BY <1>1 DEF Linked
<1>4. /\ [key |-> k, value |-> v] \in Entry
      /\ f \in [Slot -> Entry \cup {None}] /\ f[s] = [key |-> k, value |-> v]
      /\ f[s].key = k /\ \A x \in Slot : x # s => f[x] = e[x]
  BY <1>1 DEF Entry, Filled
<1>5. \A i \in 1 .. Len(l) : f[w[i + 1]] = e[l[i]] /\ w[i + 1] # s /\ e[l[i]].key # k
  BY <1>1, <1>2, <1>4, LRUCacheAssumption
<1>6. \A i \in 1 .. Len(w) : i = 1 \/ (i - 1 \in 1 .. Len(l) /\ i = (i - 1) + 1)
  BY <1>1, <1>2
<1>7. Agree(w, n, f)
  <2>1. \A i, j \in 1 .. Len(w) : w[i] = w[j] => i = j
    <3>1. \A i, j \in 1 .. Len(l) : w[i + 1] = w[j + 1] => i = j
      BY <1>1, <1>2
    <3>2. \A i \in 1 .. Len(l) : w[i + 1] # w[1]
      BY <1>2, <1>5
    <3>. SUFFICES ASSUME NEW i \in 1 .. Len(w), NEW j \in 1 .. Len(w), w[i] = w[j]
                  PROVE  i = j
      OBVIOUS
    <3>3. CASE i = 1 /\ j # 1
      <4>1. j - 1 \in 1 .. Len(l) /\ j = (j - 1) + 1
        BY <3>3, <1>6
      <4>2. w[(j - 1) + 1] # w[1]
        BY ONLY <3>2, <4>1
      <4>. QED  BY <3>3, <4>1, <4>2
    <3>4. CASE i # 1 /\ j = 1
      <4>1. i - 1 \in 1 .. Len(l) /\ i = (i - 1) + 1
        BY <3>4, <1>6
      <4>2. w[(i - 1) + 1] # w[1]
        BY ONLY <3>2, <4>1
      <4>. QED  BY <3>4, <4>1, <4>2
    <3>5. CASE i # 1 /\ j # 1
      <4>1. /\ i - 1 \in 1 .. Len(l) /\ i = (i - 1) + 1
            /\ j - 1 \in 1 .. Len(l) /\ j = (j - 1) + 1
        BY <3>5, <1>6
      <4>2. w[(i - 1) + 1] = w[(j - 1) + 1] => i - 1 = j - 1
        BY ONLY <3>1, <4>1
      <4>. QED  BY <4>1, <4>2
    <3>. QED  BY <3>3, <3>4, <3>5
  <2>2. \A i \in 1 .. Len(w) : f[w[i]] \in Entry /\ n[f[w[i]].key] = w[i]
    <3>. TAKE i \in 1 .. Len(w)
    <3>1. CASE i = 1
      BY <3>1, <1>2, <1>3, <1>4
    <3>2. CASE i - 1 \in 1 .. Len(l) /\ i = (i - 1) + 1
      <4>. DEFINE x == l[i - 1]
      <4>1. w[i] = x /\ f[w[i]] = e[x] /\ e[x] \in Entry /\ e[x].key # k /\ m[e[x].key] = x
        BY <3>2, <1>1, <1>2, <1>5
      <4>2. e[x].key \in Key
        BY <4>1, EntryFields
      <4>. HIDE DEF x
      <4>. QED  BY <4>1, <4>2, <1>3
    <3>. QED  BY <3>1, <3>2, <1>6
  <2>3. \A x \in Key : n[x] # None => \E i \in 1 .. Len(w) : n[x] = w[i] /\ f[w[i]].key = x
    <3>. SUFFICES ASSUME NEW x \in Key, n[x] # None
                  PROVE  \E i \in 1 .. Len(w) : n[x] = w[i] /\ f[w[i]].key = x
      OBVIOUS
    <3>1. CASE x = k
      <4>1. 1 \in 1 .. Len(w)
        BY <1>1, <1>2
      <4>. QED  BY <3>1, <4>1, <1>2, <1>3, <1>4
    <3>2. CASE x # k
      <4>1. PICK i \in 1 .. Len(l) : n[x] = l[i] /\ e[l[i]].key = x
        BY <3>2, <1>1, <1>3
      <4>2. i + 1 \in 1 .. Len(w) /\ w[i + 1] = l[i] /\ f[w[i + 1]] = e[l[i]]
        BY <1>1, <1>2, <1>5
      <4>. QED  BY <4>1, <4>2
    <3>. QED  BY <3>1, <3>2
  <2>. QED  BY <1>2, <1>3, <1>4, <2>1, <2>2, <2>3 DEF Agree
<1>8. \A a : a \in Cached(m) <=> \E i \in 1 .. Len(l) : e[l[i]].key = a
  <2>. TAKE a
  <2>1. ASSUME a \in Cached(m) PROVE \E i \in 1 .. Len(l) : e[l[i]].key = a
    BY <2>1, <1>1 DEF Cached
  <2>2. ASSUME NEW i \in 1 .. Len(l), e[l[i]].key = a PROVE a \in Cached(m)
    <3>1. e[l[i]] \in Entry /\ m[a] = l[i] /\ l[i] \in Slot
      BY <2>2, <1>1
    <3>2. a \in Key
      BY <3>1, <2>2, EntryFields
    <3>. QED  BY <3>1, <3>2, LRUCacheAssumption DEF Cached
  <2>. QED  BY <2>1, <2>2
<1>9. \A a, b : <<a, b>> \in Older(w, f)
                  <=> <<a, b>> \in Older(l, e) \/ (a \in Cached(m) /\ b = k)
  <2>. TAKE a, b
  <2>1. ASSUME <<a, b>> \in Older(w, f)
        PROVE  <<a, b>> \in Older(l, e) \/ (a \in Cached(m) /\ b = k)
    <3>1. PICK i, j \in 1 .. Len(w) : i < j /\ a = f[w[j]].key /\ b = f[w[i]].key
      BY ONLY <2>1, <1>7, OlderPair
    <3>2. j - 1 \in 1 .. Len(l) /\ a = e[l[j - 1]].key
      BY <3>1, <1>5, <1>6
    <3>3. CASE i = 1
      BY <3>1, <3>2, <3>3, <1>2, <1>4, <1>8
    <3>4. CASE i - 1 \in 1 .. Len(l) /\ i = (i - 1) + 1
      <4>1. b = e[l[i - 1]].key /\ i - 1 < j - 1
        BY <3>1, <3>4, <1>5
      <4>. QED  BY <3>2, <3>4, <4>1, OlderPair
    <3>. QED  BY <3>3, <3>4, <1>6
  <2>2. ASSUME <<a, b>> \in Older(l, e) PROVE <<a, b>> \in Older(w, f)
    <3>1. PICK i, j \in 1 .. Len(l) : i < j /\ a = e[l[j]].key /\ b = e[l[i]].key
      BY <2>2, OlderPair
    <3>2. /\ i + 1 \in 1 .. Len(w) /\ j + 1 \in 1 .. Len(w) /\ i + 1 < j + 1
          /\ a = f[w[j + 1]].key /\ b = f[w[i + 1]].key
      BY <3>1, <1>1, <1>2, <1>5
    <3>. QED  BY <3>2, <1>7, OlderPair
  <2>3. ASSUME a \in Cached(m), b = k PROVE <<a, b>> \in Older(w, f)
    <3>1. PICK j \in 1 .. Len(l) : e[l[j]].key = a
      BY <2>3, <1>8
    <3>2. /\ 1 \in 1 .. Len(w) /\ j + 1 \in 1 .. Len(w) /\ 1 < j + 1
          /\ a = f[w[j + 1]].key /\ b = f[w[1]].key
      BY <2>3, <3>1, <1>1, <1>2, <1>4, <1>5
    <3>. QED  BY <3>2, <1>7, OlderPair
  <2>. QED  BY <2>1, <2>2, <2>3
<1>10. Older(w, f) = Older(l, e) \cup Behind(k, Cached(m))
  <2>1. \A q \in Older(w, f) : q \in Older(l, e) \cup Behind(k, Cached(m))
    <3>. TAKE q \in Older(w, f)
    <3>1. q = <<q[1], q[2]>>
      BY <1>7, OlderCached
    <3>. QED  BY ONLY <3>1, <1>9, q \in Older(w, f) DEF Behind
  <2>2. \A q \in Older(l, e) : q \in Older(w, f)
    <3>. TAKE q \in Older(l, e)
    <3>1. q = <<q[1], q[2]>>
      BY OlderCached
    <3>. QED  BY <3>1, <1>9 DEF Behind
  <2>3. \A q \in Behind(k, Cached(m)) : q \in Older(w, f)
    BY <1>9 DEF Behind
  <2>. QED  BY <2>1, <2>2, <2>3
<1>. QED  BY <1>2, <1>7, <1>10

-----------------------------------------------------------------------------
(* The part of an order that is among certain keys.                        *)
Within(order, keys) == {q \in order : q[1] \in keys /\ q[2] \in keys}

(* The cached keys are those of the list's nodes.                          *)
LEMMA CachedAt ==
    ASSUME NEW l, NEW m, NEW e, Agree(l, m, e)
    PROVE  /\ \A i \in 1 .. Len(l) : e[l[i]].key \in Cached(m) /\ m[e[l[i]].key] = l[i]
           /\ \A k \in Cached(m) : \E i \in 1 .. Len(l) : m[k] = l[i] /\ e[l[i]].key = k
<1>1. ASSUME NEW i \in 1 .. Len(l)
      PROVE  e[l[i]].key \in Cached(m) /\ m[e[l[i]].key] = l[i]
  <2>1. l[i] \in Slot /\ e[l[i]] \in Entry /\ m[e[l[i]].key] = l[i]
    BY DEF Agree
  <2>2. e[l[i]].key \in Key
    BY <2>1, EntryFields
  <2>. QED  BY <2>1, <2>2, LRUCacheAssumption DEF Cached
<1>2. ASSUME NEW k \in Cached(m)
      PROVE  \E i \in 1 .. Len(l) : m[k] = l[i] /\ e[l[i]].key = k
  BY DEF Cached, Agree
<1>. QED  BY <1>1, <1>2

(* size() is the number of keys: the nodes have different keys.            *)
LEMMA CachedCount ==
    ASSUME NEW l, NEW m, NEW e, Agree(l, m, e)
    PROVE  Cardinality(Cached(m)) = Len(l)
<1>. DEFINE f == [i \in 1 .. Len(l) |-> e[l[i]].key]
<1>1. Len(l) \in Nat
  BY DEF Agree
<1>2. f \in [1 .. Len(l) -> Cached(m)]
  BY CachedAt
<1>3. \A i, j \in 1 .. Len(l) : f[i] = f[j] => i = j
  <2>. SUFFICES ASSUME NEW i \in 1 .. Len(l), NEW j \in 1 .. Len(l), f[i] = f[j]
                PROVE  i = j
    OBVIOUS
  <2>1. l[i] = l[j]
    BY CachedAt
  <2>. QED  BY <2>1 DEF Agree
<1>4. \A k \in Cached(m) : \E i \in 1 .. Len(l) : f[i] = k
  BY CachedAt
<1>. HIDE DEF f
<1>5. f \in Bijection(1 .. Len(l), Cached(m))
  <2>1. f \in Injection(1 .. Len(l), Cached(m))
    BY <1>2, <1>3 DEF Injection, IsInjective
  <2>2. f \in Surjection(1 .. Len(l), Cached(m))
    BY <1>2, <1>4 DEF Surjection
  <2>. QED  BY <2>1, <2>2 DEF Bijection
<1>. QED  BY <1>1, <1>5, FS_CountingElements DEF ExistsBijection

(* The key all others were used after is the one at the end of the list.   *)
LEMMA OldestLast ==
    ASSUME NEW l, NEW m, NEW e, Agree(l, m, e), Len(l) >= 1
    PROVE  {x \in Cached(m) : \A y \in Cached(m) \ {x} : <<x, y>> \in Older(l, e)}
             = {e[l[Len(l)]].key}
<1>. DEFINE z == e[l[Len(l)]].key
            Oldest == {x \in Cached(m) : \A y \in Cached(m) \ {x} : <<x, y>> \in Older(l, e)}
<1>1. Len(l) \in Nat /\ Len(l) \in 1 .. Len(l)
  BY DEF Agree
<1>2. z \in Cached(m)
  BY <1>1, CachedAt
<1>3. ASSUME NEW y \in Cached(m) \ {z} PROVE <<z, y>> \in Older(l, e)
  <2>1. PICK i \in 1 .. Len(l) : e[l[i]].key = y
    BY CachedAt
  <2>2. i < Len(l)
    BY <1>1, <2>1
  <2>. QED  BY <1>1, <2>1, <2>2, OlderPair
<1>4. ASSUME NEW x \in Cached(m), x # z, <<x, z>> \in Older(l, e) PROVE FALSE
  <2>1. PICK i, j \in 1 .. Len(l) : i < j /\ x = e[l[j]].key /\ z = e[l[i]].key
    BY <1>4, OlderPair
  <2>2. l[i] = m[z] /\ l[Len(l)] = m[z]
    BY <2>1, <1>1, CachedAt
  <2>3. i = Len(l)
    BY <2>2, <1>1 DEF Agree
  <2>. QED  BY <2>1, <2>3, <1>1
<1>5. z \in Oldest
  BY <1>2, <1>3
<1>6. \A x \in Oldest : x = z
  BY <1>2, <1>4
<1>. QED  BY <1>5, <1>6

-----------------------------------------------------------------------------
(* What erase leaves of the list, and of the map.                          *)
ErasedList(l, m, k) == Erased(l, m, k)[1]

ErasedMap(l, m, k) == Erased(l, m, k)[2]

(* erase: the entry of the key goes, whatever place it has.                *)
LEMMA EraseKeeps ==
    ASSUME NEW l, NEW m, NEW e, Agree(l, m, e), NEW k \in Key, NEW w, NEW n,
           w = ErasedList(l, m, k), n = ErasedMap(l, m, k)
    PROVE  /\ Agree(w, n, e) /\ n = Linked(m, k, None)
           /\ Len(w) = IF m[k] = None THEN Len(l) ELSE Len(l) - 1
           /\ \A i \in 1 .. Len(w) : \E j \in 1 .. Len(l) : w[i] = l[j]
           /\ Older(w, e) = Within(Older(l, e), Cached(m) \ {k})
<1>1. CASE m[k] = None
  <2>1. w = l /\ n = m /\ m \in [Key -> Slot \cup {None}]
    BY <1>1 DEF ErasedList, ErasedMap, Erased, Agree
  <2>2. n = Linked(m, k, None)
    BY <1>1, <2>1 DEF Linked
  <2>3. \A q \in Older(l, e) : q[1] \in Cached(m) \ {k} /\ q[2] \in Cached(m) \ {k}
    BY <1>1, OlderCached DEF Cached
  <2>. QED  BY <1>1, <2>1, <2>2, <2>3 DEF Within
<1>2. CASE m[k] # None
  <2>1. PICK p \in 1 .. Len(l) : m[k] = l[p] /\ e[l[p]].key = k
    BY <1>2 DEF Agree
  <2>2. w = Without(l, l[p]) /\ n = Linked(m, k, None)
    BY <1>2, <2>1 DEF ErasedList, ErasedMap, Erased, Linked
  <2>3. /\ Agree(w, n, e) /\ Len(w) = Len(l) - 1
        /\ Older(w, e) = {q \in Older(l, e) : q[1] # k /\ q[2] # k}
    <3>1. /\ Agree(Without(l, l[p]), [m EXCEPT ![k] = None], e)
          /\ Len(Without(l, l[p])) = Len(l) - 1
          /\ Older(Without(l, l[p]), e) = {q \in Older(l, e) : q[1] # k /\ q[2] # k}
      BY <2>1, EraseAt
    <3>. QED  BY <2>2, <3>1 DEF Linked
  <2>4. \A i \in 1 .. Len(w) : \E j \in 1 .. Len(l) : w[i] = l[j]
    <3>1. l \in Seq(Slot) /\ \A i, j \in 1 .. Len(l) : l[i] = l[j] => i = j
      BY DEF Agree
    <3>2. \A j \in 1 .. (Len(l) - 1) : w[j] = IF j < p THEN l[j] ELSE l[j + 1]
      BY ONLY <2>1, <2>2, <3>1, WithoutIs
    <3>3. Len(l) \in Nat
      BY <3>1
    <3>. QED  BY <2>3, <3>2, <3>3
  <2>5. Older(w, e) = Within(Older(l, e), Cached(m) \ {k})
    BY <2>3, OlderCached DEF Within
  <2>. QED  BY <1>2, <2>2, <2>3, <2>4, <2>5
<1>. QED  BY <1>1, <1>2

(* splice to the front: the key is used after all others.                  *)
LEMMA TouchKeeps ==
    ASSUME NEW l, NEW m, NEW e, Agree(l, m, e), NEW k \in Key, NEW w,
           w = Touched(l, m, k)
    PROVE  /\ Agree(w, m, e) /\ Len(w) = Len(l)
           /\ IF m[k] = None THEN w = l
              ELSE Older(w, e) = Within(Older(l, e), Cached(m) \ {k})
                                   \cup Behind(k, Cached(m) \ {k})
<1>1. CASE m[k] = None
  BY <1>1 DEF Touched
<1>2. CASE m[k] # None
  <2>. DEFINE u == Without(l, m[k])
              n == [m EXCEPT ![k] = None]
  <2>1. PICK p \in 1 .. Len(l) : m[k] = l[p] /\ e[l[p]].key = k
    BY <1>2 DEF Agree
  <2>2. /\ Agree(u, n, e) /\ Len(u) = Len(l) - 1 /\ \A i \in 1 .. Len(u) : u[i] # m[k]
        /\ Older(u, e) = {q \in Older(l, e) : q[1] # k /\ q[2] # k}
    BY <2>1, EraseAt
  <2>3. /\ w = << m[k] >> \o u
        /\ m \in [Key -> Slot \cup {None}] /\ e \in [Slot -> Entry \cup {None}] /\ Len(l) \in Nat
        /\ m[k] \in Slot /\ e[m[k]] \in Entry
    BY <1>2, <2>1 DEF Touched, Agree
  <2>4. n[k] = None /\ [n EXCEPT ![k] = m[k]] = m /\ Cached(n) = Cached(m) \ {k}
    BY <1>2, <2>3 DEF Cached
  <2>5. /\ e[m[k]].value \in Value
        /\ [key |-> k, value |-> e[m[k]].value] = e[m[k]]
    BY <2>1, <2>3 DEF Entry
  <2>6. [e EXCEPT ![m[k]] = [key |-> k, value |-> e[m[k]].value]] = e
    BY <2>3, <2>5
  <2>. HIDE DEF u, n
  <2>7. /\ Agree(w, m, e) /\ Len(w) = Len(u) + 1
        /\ Older(w, e) = Older(u, e) \cup Behind(k, Cached(n))
    <3>. DEFINE s == m[k]
                v == e[m[k]].value
    <3>1. /\ Agree(u, n, e) /\ n[k] = None /\ v \in Value /\ s \in Slot
          /\ \A i \in 1 .. Len(u) : u[i] # s
      BY <2>2, <2>3, <2>4, <2>5
    <3>2. m = Linked(n, k, s) /\ e = Filled(e, s, k, v)
      BY <2>4, <2>6 DEF Linked, Filled
    <3>3. w = Pushed(s, u)
      BY <2>3 DEF Pushed
    <3>. HIDE DEF s, v
    <3>. QED  BY ONLY <3>1, <3>2, <3>3, k \in Key, PutInFront
  <2>8. Older(u, e) = Within(Older(l, e), Cached(m) \ {k})
    BY <2>2, OlderCached DEF Within
  <2>9. Len(w) = Len(l)
    BY <2>2, <2>3, <2>7
  <2>. QED  BY <1>2, <2>4, <2>7, <2>8, <2>9
<1>. QED  BY <1>1, <1>2

(* put: the key that is given up, if any, is the last of the list, and     *)
(* there is one only if the key is new and the list is full.               *)
GivesUp(k) ==
    IF map[k] # None \/ Len(list) < Capacity THEN {} ELSE {entry[list[Len(list)]].key}

(* A put keeps list and map in step, fills a free slot for its key, gives  *)
(* up at most the least recently used key, and leaves the other keys in    *)
(* their order.                                                            *)
LEMMA PutKeeps ==
    ASSUME IInv, NEW k \in Key, NEW v \in Value, NEW s \in Fresh, Puts(k, v, s)
    PROVE  /\ IInv'
           /\ map'[k] = s /\ entry' = Filled(entry, s, k, v)
           /\ \A x \in Key \ {k} : map'[x] = IF x \in GivesUp(k) THEN None ELSE map[x]
           /\ GivesUp(k) \subseteq Cached(map) \ {k}
           /\ Older(list', entry')
                = Within(Older(list, entry), (Cached(map) \ GivesUp(k)) \ {k})
                    \cup Behind(k, (Cached(map) \ GivesUp(k)) \ {k})
<1>. DEFINE w0 == Erased(list, map, k)[1]
            m0 == Erased(list, map, k)[2]
            w1 == Pushed(s, w0)
            m1 == Linked(m0, k, s)
            f  == Filled(entry, s, k, v)
<1>1. /\ Agree(list, map, entry) /\ Len(list) \in Nat /\ Len(list) <= Capacity
      /\ Capacity \in Nat /\ Capacity >= 1
      /\ map \in [Key -> Slot \cup {None}]
  BY LRUCacheAssumption DEF IInv, Agree
<1>2. s \in Slot /\ s # None /\ \A i \in 1 .. Len(list) : list[i] # s
  BY <1>1, LRUCacheAssumption DEF Fresh, Nodes, Agree
<1>3. /\ Agree(w0, m0, entry) /\ m0 = Linked(map, k, None)
      /\ Len(w0) = IF map[k] = None THEN Len(list) ELSE Len(list) - 1
      /\ \A i \in 1 .. Len(w0) : \E j \in 1 .. Len(list) : w0[i] = list[j]
      /\ Older(w0, entry) = Within(Older(list, entry), Cached(map) \ {k})
  <2>1. w0 = ErasedList(list, map, k) /\ m0 = ErasedMap(list, map, k)
    BY DEF ErasedList, ErasedMap
  <2>. HIDE DEF w0, m0
  <2>. QED  BY ONLY <1>1, <2>1, k \in Key, EraseKeeps
<1>4. /\ list' = Evicted(w1, m1, f)[1] /\ map' = Evicted(w1, m1, f)[2] /\ entry' = f
  BY DEF Puts, Pushed, Linked, Filled
<1>5. map[k] = None => w0 = list
  BY DEF Erased
<1>. HIDE DEF w0, m0
<1>6. m0[k] = None /\ Cached(m0) = Cached(map) \ {k}
  BY <1>1, <1>3 DEF Cached, Linked
<1>7. \A i \in 1 .. Len(w0) : w0[i] # s
  BY <1>2, <1>3
<1>. HIDE DEF w1, m1, f
<1>8. /\ Agree(w1, m1, f) /\ Len(w1) = Len(w0) + 1
      /\ \A i \in 1 .. (Len(w0) + 1) : w1[i] = IF i = 1 THEN s ELSE w0[i - 1]
      /\ Older(w1, f) = Within(Older(list, entry), Cached(map) \ {k})
                          \cup Behind(k, Cached(map) \ {k})
  <2>1. w1 = Pushed(s, w0) /\ m1 = Linked(m0, k, s) /\ f = Filled(entry, s, k, v)
    BY DEF w1, m1, f
  <2>2. /\ Agree(w1, m1, f) /\ Len(w1) = Len(w0) + 1
        /\ \A i \in 1 .. (Len(w0) + 1) : w1[i] = IF i = 1 THEN s ELSE w0[i - 1]
        /\ Older(w1, f) = Older(w0, entry) \cup Behind(k, Cached(m0))
    <3>1. /\ Agree(w0, m0, entry) /\ m0[k] = None /\ s \in Slot
          /\ \A i \in 1 .. Len(w0) : w0[i] # s
      BY <1>2, <1>3, <1>6, <1>7
    <3>. QED  BY ONLY <2>1, <3>1, k \in Key, v \in Value, PutInFront
  <2>. QED  BY <2>2, <1>3, <1>6
<1>9. m1[k] = s /\ \A x \in Key \ {k} : m1[x] = map[x]
  BY <1>1, <1>3 DEF m1, Linked
<1>10. CASE Len(w1) <= Capacity
  <2>1. GivesUp(k) = {}
    BY <1>1, <1>3, <1>8, <1>10 DEF GivesUp
  <2>2. Evicted(w1, m1, f) = <<w1, m1>>
    BY <1>1, <1>3, <1>8, <1>10 DEF Evicted
  <2>3. list' = w1 /\ map' = m1 /\ entry' = f
    BY <1>4, <2>2
  <2>4. IInv'
    BY <2>3, <1>8, <1>10 DEF IInv
  <2>5. Cached(map) \ GivesUp(k) = Cached(map)
    BY <2>1
  <2>. QED  BY <1>8, <1>9, <2>1, <2>3, <2>4, <2>5 DEF f
<1>11. CASE Len(w1) > Capacity
  <2>. DEFINE z == entry[list[Len(list)]].key
  <2>1. map[k] = None /\ w0 = list /\ Len(list) = Capacity /\ Len(w1) = Len(list) + 1
    BY <1>1, <1>3, <1>5, <1>8, <1>11
  <2>2. GivesUp(k) = {z} /\ Len(list) \in 1 .. Len(list)
    BY <1>1, <2>1 DEF GivesUp
  <2>3. w1[Len(w1)] = list[Len(list)]
    BY <1>1, <1>8, <2>1
  <2>4. f[list[Len(list)]] = entry[list[Len(list)]]
    BY <1>1, <1>2, <2>2 DEF f, Filled, Agree
  <2>5. z \in Cached(map) /\ z # k /\ z \in Key
    BY <1>1, <2>1, <2>2, CachedAt DEF Cached
  <2>6. list' = Erased(w1, m1, z)[1] /\ map' = Erased(w1, m1, z)[2] /\ entry' = f
    BY <1>4, <1>11, <2>3, <2>4 DEF Evicted
  <2>. HIDE DEF z
  <2>7. /\ Agree(list', map', f) /\ map' = Linked(m1, z, None)
        /\ Len(list') = IF m1[z] = None THEN Len(w1) ELSE Len(w1) - 1
        /\ Older(list', f) = Within(Older(w1, f), Cached(m1) \ {z})
    <3>1. list' = ErasedList(w1, m1, z) /\ map' = ErasedMap(w1, m1, z)
      BY <2>6 DEF ErasedList, ErasedMap
    <3>2. Agree(w1, m1, f) /\ z \in Key
      BY <1>8, <2>5
    <3>. QED  BY ONLY <3>1, <3>2, EraseKeeps
  <2>8. m1[z] # None /\ m1 \in [Key -> Slot \cup {None}]
    BY <1>8, <1>9, <2>5 DEF Agree, Cached
  <2>9. IInv'
    BY <1>1, <2>1, <2>6, <2>7, <2>8 DEF IInv
  <2>10. /\ map'[k] = s
         /\ \A x \in Key \ {k} : map'[x] = IF x \in GivesUp(k) THEN None ELSE map[x]
    BY <1>9, <2>2, <2>5, <2>7, <2>8 DEF Linked
  <2>11. Cached(m1) = Cached(map) \cup {k}
    BY <1>2, <1>9 DEF Cached
  <2>12. Older(list', entry')
           = Within(Older(list, entry), (Cached(map) \ GivesUp(k)) \ {k})
               \cup Behind(k, (Cached(map) \ GivesUp(k)) \ {k})
    <3>1. Within(Older(w1, f), Cached(m1) \ {z})
            = Within(Older(list, entry), (Cached(map) \ {z}) \ {k})
                \cup Behind(k, (Cached(map) \ {z}) \ {k})
      BY ONLY <1>8, <2>5, <2>11 DEF Within, Behind
    <3>. QED  BY <2>2, <2>6, <2>7, <3>1
  <2>. QED  BY <2>2, <2>5, <2>6, <2>9, <2>10, <2>12 DEF f
<1>12. Len(w1) <= Capacity \/ Len(w1) > Capacity
  <2>1. Len(w1) \in Nat
    BY <1>8 DEF Agree
  <2>. QED  BY <2>1, <1>1
<1>. QED  BY ONLY <1>10, <1>11, <1>12, Zenon

-----------------------------------------------------------------------------
(* The refinement: what the variables of Cache are in a state of the pool. *)
LEMMA AbstractState ==
    ASSUME IInv
    PROVE  /\ Abstract!Present = Cached(map)
           /\ \A keys : Abstract!Among(keys) = Within(Older(list, entry), keys)
           /\ \A k \in Key : Abstract!GivenUp(k) = GivesUp(k)
<1>1. /\ Agree(list, map, entry) /\ DOMAIN list = 1 .. Len(list) /\ Len(list) \in Nat
      /\ Len(list) <= Capacity /\ Capacity \in Nat /\ Capacity >= 1
  BY LRUCacheAssumption DEF IInv, Agree
<1>2. Abstract!Present = Cached(map)
  <2>1. \A k \in Cached(map) : entry[map[k]].value # None
    <3>. TAKE k \in Cached(map)
    <3>1. PICK i \in 1 .. Len(list) : map[k] = list[i]
      BY <1>1, CachedAt
    <3>. QED  BY <1>1, <3>1, EntryFields DEF Agree
  <2>. QED  BY <2>1 DEF Abstract!Present, Cached
<1>3. \A keys : Abstract!Among(keys) = Within(Older(list, entry), keys)
  BY <1>1 DEF Abstract!Among, Within, Older, KeyAt
<1>4. ASSUME NEW k \in Key PROVE Abstract!GivenUp(k) = GivesUp(k)
  <2>1. Abstract!Cardinality(Cached(map)) = Len(list)
    <3>1. Abstract!Cardinality(Cached(map)) = Cardinality(Cached(map))
      BY DEF Abstract!Cardinality, Cardinality
    <3>. QED  BY <1>1, <3>1, CachedCount
  <2>2. k \in Cached(map) <=> map[k] # None
    BY DEF Cached
  <2>3. CASE map[k] # None \/ Len(list) < Capacity
    BY <1>2, <2>1, <2>2, <2>3 DEF Abstract!GivenUp, GivesUp
  <2>4. CASE map[k] = None /\ Len(list) = Capacity
    <3>1. Abstract!GivenUp(k)
            = {x \in Cached(map) : \A y \in Cached(map) \ {x} : <<x, y>> \in Older(list, entry)}
      BY <1>1, <1>2, <2>1, <2>2, <2>4 DEF Abstract!GivenUp, Older, KeyAt
    <3>2. GivesUp(k) = {entry[list[Len(list)]].key}
      BY <1>1, <2>4 DEF GivesUp
    <3>. QED  BY <1>1, <2>4, <3>1, <3>2, OldestLast
  <2>5. Len(list) < Capacity \/ Len(list) = Capacity
    <3>1. Len(list) \in Nat /\ Capacity \in Nat /\ Len(list) <= Capacity
      BY <1>1
    <3>. QED  BY ONLY <3>1
  <2>. QED  BY ONLY <2>3, <2>4, <2>5, Zenon
<1>. QED  BY <1>2, <1>3, <1>4

(* The order of Cache after a step, which the refinement mapping makes of  *)
(* the list and the nodes.                                                 *)
LEMMA AbstractOlder ==
    ASSUME NEW l, NEW e, l \in Seq(Slot)
    PROVE  {<<e[l[p[2]]].key, e[l[p[1]]].key>> :
               p \in {p \in (DOMAIN l) \X (DOMAIN l) : p[1] < p[2]}} = Older(l, e)
<1>1. DOMAIN l = 1 .. Len(l)
  OBVIOUS
<1>. QED  BY <1>1 DEF Older

(* An operation that changes the order only, for a key that is cached.     *)
LEMMA UseStep ==
    ASSUME IInv, NEW k \in Key, map[k] # None, list' = Touched(list, map, k),
           UNCHANGED <<entry, map>>, result' \in {None, entry[map[k]].value}
    PROVE  IInv' /\ Abstract!Use(k)
<1>1. Agree(list, map, entry) /\ Len(list) <= Capacity
  BY DEF IInv
<1>2. /\ Agree(list', map, entry) /\ Len(list') = Len(list)
      /\ Older(list', entry) = Within(Older(list, entry), Cached(map) \ {k})
                                 \cup Behind(k, Cached(map) \ {k})
  <2>. DEFINE w == list'
  <2>1. w = Touched(list, map, k)
    OBVIOUS
  <2>. HIDE DEF w
  <2>2. /\ Agree(w, map, entry) /\ Len(w) = Len(list)
        /\ IF map[k] = None THEN w = list
           ELSE Older(w, entry) = Within(Older(list, entry), Cached(map) \ {k})
                                    \cup Behind(k, Cached(map) \ {k})
    BY ONLY <1>1, <2>1, k \in Key, TouchKeeps
  <2>. QED  BY <2>2 DEF w
<1>3. IInv'
  BY <1>1, <1>2 DEF IInv
<1>4. k \in Abstract!Present
  BY AbstractState DEF Cached
<1>5. {<<KeyAt(p[2]), KeyAt(p[1])>> :
          p \in {p \in (DOMAIN list) \X (DOMAIN list) : p[1] < p[2]}}'
        = Older(list', entry')
  <2>1. list' \in Seq(Slot)
    BY <1>2 DEF Agree
  <2>. QED  BY <2>1, AbstractOlder DEF KeyAt
<1>6. Abstract!UsedNow(k, Abstract!Present)
        = Within(Older(list, entry), Cached(map) \ {k}) \cup Behind(k, Cached(map) \ {k})
  BY AbstractState DEF Abstract!UsedNow, Behind
<1>7. Abstract!Use(k)
  BY <1>2, <1>4, <1>5, <1>6 DEF Abstract!Use
<1>. QED  BY <1>3, <1>7

(* put, and compute_if_absent of a key that is not cached.                 *)
LEMMA StoreStep ==
    ASSUME IInv, NEW k \in Key, NEW v \in Value, NEW s \in Fresh, Puts(k, v, s),
           result' \in {None, v}
    PROVE  IInv' /\ Abstract!Store(k)
<1>. DEFINE kept == Cached(map) \ GivesUp(k)
<1>1. /\ IInv'
      /\ map'[k] = s /\ entry' = Filled(entry, s, k, v)
      /\ \A x \in Key \ {k} : map'[x] = IF x \in GivesUp(k) THEN None ELSE map[x]
      /\ GivesUp(k) \subseteq Cached(map) \ {k}
      /\ Older(list', entry') = Within(Older(list, entry), kept \ {k}) \cup Behind(k, kept \ {k})
  BY PutKeeps
<1>2. /\ s \in Slot /\ s # None /\ \A i \in 1 .. Len(list) : list[i] # s
      /\ entry \in [Slot -> Entry \cup {None}] /\ map \in [Key -> Slot \cup {None}]
  BY LRUCacheAssumption DEF Fresh, Nodes, IInv, Agree
<1>3. /\ entry'[s].value = v /\ v # None
      /\ \A x \in Slot : x # s => entry'[x] = entry[x]
  BY <1>1, <1>2, LRUCacheAssumption DEF Filled
<1>4. \A x \in Cached(map) : map[x] # s /\ map[x] \in Slot
  <2>. TAKE x \in Cached(map)
  <2>1. PICK i \in 1 .. Len(list) : map[x] = list[i]
    BY CachedAt DEF IInv
  <2>2. map[x] \in Slot
    BY <1>2 DEF Cached
  <2>. QED  BY <1>2, <2>1, <2>2
<1>5. \A x \in Key : (IF map'[x] = None THEN None ELSE entry'[map'[x]].value)
         = IF x = k THEN v
           ELSE IF x \in kept THEN (IF map[x] = None THEN None ELSE entry[map[x]].value)
           ELSE None
  <2>. TAKE x \in Key
  <2>1. CASE x = k
    BY <2>1, <1>1, <1>2, <1>3
  <2>2. CASE x # k /\ x \in kept
    <3>1. map'[x] = map[x] /\ map[x] # s /\ map[x] \in Slot
      BY <2>2, <1>1, <1>4
    <3>. QED  BY <2>2, <3>1, <1>3
  <2>3. CASE x # k /\ x \notin kept
    <3>1. map'[x] = None
      BY <2>3, <1>1 DEF Cached
    <3>. QED  BY <2>3, <3>1
  <2>. QED  BY <2>1, <2>2, <2>3
<1>6. Abstract!Present \ Abstract!GivenUp(k) = kept
  BY AbstractState
<1>. HIDE DEF kept
<1>7. Abstract!UsedNow(k, kept) = Within(Older(list, entry), kept \ {k}) \cup Behind(k, kept \ {k})
  BY AbstractState DEF Abstract!UsedNow, Behind
<1>8. {<<KeyAt(p[2]), KeyAt(p[1])>> :
          p \in {p \in (DOMAIN list) \X (DOMAIN list) : p[1] < p[2]}}'
        = Older(list', entry')
  <2>1. list' \in Seq(Slot)
    BY <1>1 DEF IInv, Agree
  <2>. QED  BY <2>1, AbstractOlder DEF KeyAt
<1>9. Abstract!Store(k)
  BY <1>1, <1>3, <1>5, <1>6, <1>7, <1>8 DEF Abstract!Store
<1>. QED  BY <1>1, <1>9

(* erase, and touch and get of a key that is not cached.                   *)
LEMMA DropStep ==
    ASSUME IInv, NEW k \in Key, list' = ErasedList(list, map, k),
           map' = ErasedMap(list, map, k), entry' = entry, result' = None
    PROVE  IInv' /\ Abstract!Drop({k})
<1>1. Agree(list, map, entry) /\ Len(list) <= Capacity
  BY DEF IInv
<1>2. /\ Agree(list', map', entry) /\ map' = Linked(map, k, None)
      /\ Len(list') = IF map[k] = None THEN Len(list) ELSE Len(list) - 1
      /\ Older(list', entry) = Within(Older(list, entry), Cached(map) \ {k})
  BY ONLY <1>1, k \in Key, list' = ErasedList(list, map, k),
          map' = ErasedMap(list, map, k), EraseKeeps
<1>3. IInv'
  BY <1>1, <1>2, LRUCacheAssumption DEF IInv, Agree
<1>4. map'[k] = None /\ \A x \in Key : x # k => map'[x] = map[x]
  BY <1>1, <1>2 DEF Linked, Agree
<1>5. {<<KeyAt(p[2]), KeyAt(p[1])>> :
          p \in {p \in (DOMAIN list) \X (DOMAIN list) : p[1] < p[2]}}'
        = Older(list', entry')
  <2>1. list' \in Seq(Slot)
    BY <1>2 DEF Agree
  <2>. QED  BY <2>1, AbstractOlder DEF KeyAt
<1>6. Abstract!Among(Abstract!Present \ {k}) = Within(Older(list, entry), Cached(map) \ {k})
  BY AbstractState
<1>7. Abstract!Drop({k})
  BY <1>2, <1>4, <1>5, <1>6 DEF Abstract!Drop
<1>. QED  BY <1>3, <1>7

(* clear.                                                                  *)
LEMMA ClearStep ==
    ASSUME IInv, clear
    PROVE  IInv' /\ Abstract!Drop(Key)
<1>1. list' = << >> /\ map' = [k \in Key |-> None] /\ result' = None /\ entry' = entry
  BY DEF clear
<1>2. list' \in Seq(Slot) /\ Len(list') = 0
  BY <1>1
<1>3. IInv'
  BY <1>1, <1>2, LRUCacheAssumption DEF IInv, Agree
<1>4. {<<KeyAt(p[2]), KeyAt(p[1])>> :
          p \in {p \in (DOMAIN list) \X (DOMAIN list) : p[1] < p[2]}}' = {}
  BY <1>2 DEF KeyAt
<1>5. Abstract!Among(Abstract!Present \ Key) = {}
  <2>1. Abstract!Present \ Key = {}
    BY AbstractState DEF Cached
  <2>2. Abstract!Among({}) = Within(Older(list, entry), {})
    BY AbstractState
  <2>3. Within(Older(list, entry), {}) = {}
    BY DEF Within
  <2>. QED  BY <2>1, <2>2, <2>3
<1>6. Abstract!Drop(Key)
  BY <1>1, <1>4, <1>5 DEF Abstract!Drop
<1>. QED  BY <1>3, <1>6

(* touch and get of a key that is not cached change nothing.               *)
LEMMA MissStep ==
    ASSUME IInv, NEW k \in Key, map[k] = None, list' = Touched(list, map, k),
           UNCHANGED <<entry, map>>, result' = None
    PROVE  IInv' /\ Abstract!Drop({k})
<1>1. list' = ErasedList(list, map, k) /\ map' = ErasedMap(list, map, k) /\ entry' = entry
  BY DEF Touched, Erased, ErasedList, ErasedMap
<1>. QED  BY <1>1, DropStep

(* get, whether the key is cached or not.                                  *)
LEMMA GetStep ==
    ASSUME IInv, NEW k \in Key, get(k)
    PROVE  IInv' /\ (Abstract!Use(k) \/ Abstract!Drop({k}))
<1>1. CASE map[k] = None
  BY <1>1, MissStep DEF get, exists
<1>2. CASE map[k] # None
  BY <1>2, UseStep DEF get, exists
<1>. QED  BY <1>1, <1>2

(* A channel is a value.                                                   *)
LEMMA ChannelIsValue ==
    ASSUME NEW e \in Endpoint
    PROVE  create_channel(e) \in Value
BY ChannelPoolAssumption DEF create_channel, Channel

(* Every step of the pool keeps list and map in agreement, and is a step   *)
(* of Cache.                                                               *)
LEMMA EveryStep ==
    ASSUME IInv, Next
    PROVE  IInv' /\ Abstract!Next
<1>1. ASSUME NEW u \in Key, NEW e \in Endpoint, pool_put(u, e)
      PROVE  IInv' /\ Abstract!Next
  <2>1. PICK s \in Fresh : Puts(u, create_channel(e), s)
    BY <1>1 DEF pool_put, put
  <2>2. result' = None
    BY <1>1 DEF pool_put, put
  <2>3. IInv' /\ Abstract!Store(u)
    BY <2>1, <2>2, ChannelIsValue, StoreStep
  <2>. QED  BY <2>3 DEF Abstract!Next
<1>2. ASSUME NEW u \in Key, NEW e \in Endpoint, pool_get(u, e)
      PROVE  IInv' /\ Abstract!Next
  <2>1. CASE exists(map, u)
    <3>1. get(u)
      BY <1>2, <2>1 DEF pool_get, compute_if_absent
    <3>. QED  BY <3>1, GetStep DEF Abstract!Next
  <2>2. CASE ~exists(map, u)
    <3>1. PICK s \in Fresh : Puts(u, create_channel(e), s)
      BY <1>2, <2>2 DEF pool_get, compute_if_absent
    <3>2. result' = IF exists(map', u) THEN entry'[map'[u]].value ELSE None
      BY <1>2, <2>2 DEF pool_get, compute_if_absent
    <3>3. /\ map'[u] = s /\ entry' = Filled(entry, s, u, create_channel(e))
          /\ s \in Slot /\ entry \in [Slot -> Entry \cup {None}]
      <4>1. map'[u] = s /\ entry' = Filled(entry, s, u, create_channel(e))
        BY <3>1, ChannelIsValue, PutKeeps
      <4>2. s \in Slot
        BY DEF Fresh
      <4>3. entry \in [Slot -> Entry \cup {None}]
        BY DEF IInv, Agree
      <4>. QED  BY ONLY <4>1, <4>2, <4>3
    <3>4. entry'[s].value = create_channel(e)
      BY <3>3 DEF Filled
    <3>5. result' \in {None, create_channel(e)}
      BY <3>2, <3>3, <3>4 DEF exists
    <3>6. IInv' /\ Abstract!Store(u)
      BY <3>1, <3>5, ChannelIsValue, StoreStep
    <3>. QED  BY <3>6 DEF Abstract!Next
  <2>. QED  BY <2>1, <2>2
<1>3. ASSUME NEW u \in Key, Other(u)
      PROVE  IInv' /\ Abstract!Next
  <2>1. CASE touch(u)
    <3>1. list' = Touched(list, map, u) /\ result' = None /\ UNCHANGED <<entry, map>>
      BY <2>1 DEF touch
    <3>2. CASE map[u] = None
      BY <3>1, <3>2, MissStep DEF Abstract!Next
    <3>3. CASE map[u] # None
      BY <3>1, <3>3, UseStep DEF Abstract!Next
    <3>. QED  BY <3>2, <3>3
  <2>2. CASE get(u)
    BY <2>2, GetStep DEF Abstract!Next
  <2>3. CASE erase(u)
    <3>1. /\ list' = ErasedList(list, map, u) /\ map' = ErasedMap(list, map, u)
          /\ entry' = entry /\ result' = None
      BY <2>3 DEF erase, ErasedList, ErasedMap
    <3>. QED  BY <3>1, DropStep DEF Abstract!Next
  <2>. QED  BY <1>3, <2>1, <2>2, <2>3 DEF Other
<1>4. ASSUME clear
      PROVE  IInv' /\ Abstract!Next
  BY <1>4, ClearStep DEF Abstract!Next
<1>. QED  BY <1>1, <1>2, <1>3, <1>4 DEF Next

-----------------------------------------------------------------------------
(* In every state the map leads to the nodes of the list, and back.        *)
THEOREM Invariance == Spec => []IInv
<1>1. CacheInit => IInv
  <2>. SUFFICES ASSUME CacheInit PROVE IInv
    OBVIOUS
  <2>1. list = << >> /\ list \in Seq(Slot) /\ Len(list) = 0
    BY DEF CacheInit
  <2>. QED  BY <2>1, LRUCacheAssumption DEF CacheInit, IInv, Agree
<1>2. IInv /\ [Next]_cache => IInv'
  <2>1. IInv /\ Next => IInv'
    BY EveryStep
  <2>2. IInv /\ UNCHANGED cache => IInv'
    BY DEF cache, IInv, Agree
  <2>. QED  BY <2>1, <2>2
<1>. QED  BY <1>1, <1>2, PTL DEF Spec

(* List and map agree after every operation of the pool and of LRUCache,   *)
(* also when a node is freed and its address used again: _map has no       *)
(* iterator to a node of another key, and the cache is never over-full.    *)
THEOREM ConsistentHolds == Spec => []Consistent
<1>1. IInv => Consistent
  <2>. SUFFICES ASSUME IInv PROVE Consistent
    OBVIOUS
  <2>1. DOMAIN list = 1 .. Len(list) /\ list \in Seq(Slot) /\ Agree(list, map, entry)
    BY DEF IInv, Agree
  <2>2. \A k \in Key : map[k] # None => map[k] \in Nodes /\ entry[map[k]].key = k
    BY <2>1 DEF Agree, Nodes
  <2>. QED  BY <2>1, <2>2 DEF IInv, Consistent, Agree
<1>. QED  BY <1>1, Invariance, PTL

(* The pool implements the cache that gives up the entry used least        *)
(* recently: every operation of channel.pool.cc and chord.lru.cache.h is   *)
(* one operation of Cache, or changes nothing of it.                       *)
THEOREM ImplementsCacheHolds == Spec => ImplementsCache
<1>1. CacheInit => Abstract!Init
  <2>. SUFFICES ASSUME CacheInit PROVE Abstract!Init
    OBVIOUS
  <2>1. list = << >> /\ DOMAIN list = {} /\ map = [k \in Key |-> None] /\ result = None
    BY DEF CacheInit
  <2>. QED  BY <2>1 DEF Abstract!Init
<1>2. IInv /\ [Next]_cache => [Abstract!Next]_(Abstract!vars)
  <2>1. IInv /\ Next => Abstract!Next
    BY EveryStep
  <2>2. UNCHANGED cache => UNCHANGED Abstract!vars
    BY DEF cache, Abstract!vars, KeyAt
  <2>. QED  BY <2>1, <2>2
<1>. QED  BY <1>1, <1>2, Invariance, PTL DEF Spec, ImplementsCache, Abstract!Spec

=============================================================================
