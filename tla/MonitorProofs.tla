--------------------------- MODULE MonitorProofs ----------------------------
(***************************************************************************)
(* The locks of the monitor and its filters agree, for any number of       *)
(* server threads and files, as long as no two accesses to a list of       *)
(* filters overlapped; and what put_file_journal removes from the journal  *)
(* is in the ring, unless the hash was known.                              *)
(*                                                                         *)
(* The first rests on counting: a filter is added by a step that makes a   *)
(* lock of its path one of those added, and removed by the step that ends  *)
(* one.  The second follows the poll thread from the file it moved to the  *)
(* journal through the put to its end.                                     *)
(***************************************************************************)
EXTENDS Monitor, FiniteSetTheorems, WellFoundedInduction, TLAPS

File == Content \cup {None, Blank}

FilterSet == [path : Uri, flag : {None, "CREATED"}]

PutPoints == {"put", "put_cow", "create", "truncate", "write", "put_end", "record"}

ServerPoints ==
    PutPoints \cup {"idle", "del", "remove", "remove_cow", "unlink", "remove_end"}

PollPoints ==
    PutPoints \cup {"idle", "filter", "copy", "journal", "journal_cow", "shift", "read",
                    "send", "settle", "journal_end"}

TypeOK ==
    /\ data \in [Uri -> File] /\ journal \in [Uri -> File]
    /\ hash \in [Uri -> File] /\ away \in [Uri -> File]
    /\ open \in [Threads -> {None, "data", "journal"}]
    /\ pc \in [Threads -> ServerPoints \cup PollPoints]
    /\ job \in [Threads -> [uri : Uri \cup {None}, data : File]]
    /\ queue \subseteq Uri
    /\ torn \in BOOLEAN /\ raced \in BOOLEAN /\ skipped \in BOOLEAN /\ ok \in BOOLEAN

(* Every thread is at a point of its own handlers, and has a file there.   *)
Placed ==
    /\ \A t \in Server : pc[t] \in ServerPoints
    /\ pc["poll"] \in PollPoints
    /\ \A t \in Threads :
          /\ pc[t] \notin {"idle", "filter", "copy"} => job[t].uri \in Uri
          /\ pc[t] \in PutPoints \cup {"send"} => job[t].data # None

(* Filters and locks: Shielded, and that the locks can be counted.         *)
Counted ==
    ~torn =>
        /\ filters \in Seq(FilterSet) /\ cow \in Seq(FilterSet)
        /\ \A u \in Uri :
              /\ IsFiniteSet(LocksAdded(u))
              /\ Filtering(filters, u) = Cardinality(LocksAdded(u))
              /\ Filtering(cow, u) >= Cardinality(LocksConstructed(u))

(* The put the poll thread is in: the file is in the journal, and, unless  *)
(* others have written it since it was moved, in the data directory there  *)
(* is nothing, then an empty file, then the content or, if the put was     *)
(* skipped, the empty file.                                                *)
Stage ==
    LET u == job["poll"].uri
        p == pc["poll"]
    IN  /\ p = "read" => journal[u] # None
        /\ p \in PutPoints => u \in Owned
        /\ p = "send" => u \notin Owned /\ ~skipped
        /\ ~raced =>
             /\ p \in {"put", "put_cow", "create", "truncate", "write", "send"} =>
                  job["poll"].data = journal[u]
             /\ p \in {"read", "put", "put_cow", "create"} => data[u] = None
             /\ p = "truncate" => data[u] = Blank
             /\ p = "write" => open["poll"] = "data" /\ ~skipped
             /\ p \in {"put_end", "record"} \/ (p = "settle" /\ u \in Owned) =>
                  data[u] = IF skipped THEN Blank ELSE journal[u]
             /\ p = "settle" /\ u \notin Owned => ~skipped /\ (ok => away[u] = journal[u])

IInv == TypeOK /\ Placed /\ Counted /\ Stage

-----------------------------------------------------------------------------
(* A set of positions has a first.                                         *)
LEMMA Least ==
    ASSUME NEW S \in SUBSET Nat, S # {}
    PROVE  \E m \in S : \A j \in S : m <= j
<1>. DEFINE Below == {q \in Nat \X Nat : q[1] < q[2]}
<1>1. IsWellFoundedOn(Below, Nat)
  BY NatLessThanWellFounded, Zenon DEF OpToRel
<1>2. \A i, j \in Nat : i < j => <<i, j>> \in Below
  OBVIOUS
<1>. HIDE DEF Below
<1>3. PICK m \in S : \A j \in S : ~(<<j, m>> \in Below)
  BY <1>1, WFMin
<1>4. \A j \in S : ~(j < m)
  BY <1>2, <1>3, Zenon
<1>. QED  BY <1>4

(* Counting.  When position p of n is taken out and what is behind moves   *)
(* forward, a set of positions loses p.                                    *)
LEMMA SkipOne ==
    ASSUME NEW n \in Nat, NEW S \in SUBSET (1 .. n), NEW p \in 1 .. n, NEW T,
           T = {j \in 1 .. (n - 1) : (IF j < p THEN j ELSE j + 1) \in S}
    PROVE  /\ IsFiniteSet(S) /\ IsFiniteSet(T)
           /\ Cardinality(S) \in Nat /\ Cardinality(T) \in Nat
           /\ Cardinality(T) = IF p \in S THEN Cardinality(S) - 1 ELSE Cardinality(S)
<1>. DEFINE at(j) == IF j < p THEN j ELSE j + 1
            g == [j \in T |-> at(j)]
<1>1. IsFiniteSet(S) /\ IsFiniteSet(S \ {p}) /\ IsFiniteSet(T)
  <2>1. IsFiniteSet(1 .. n) /\ IsFiniteSet(1 .. (n - 1))
    BY FS_Interval
  <2>2. S \subseteq 1 .. n /\ S \ {p} \subseteq 1 .. n /\ T \subseteq 1 .. (n - 1)
    OBVIOUS
  <2>. QED  BY <2>1, <2>2, FS_Subset
<1>2. Cardinality(S) \in Nat /\ Cardinality(T) \in Nat
  BY <1>1, FS_CardinalityType
<1>3. Cardinality(S \ {p}) = IF p \in S THEN Cardinality(S) - 1 ELSE Cardinality(S)
  BY <1>1, FS_RemoveElement
<1>4. g \in [T -> S \ {p}]
  OBVIOUS
<1>5. \A i, j \in T : g[i] = g[j] => i = j
  OBVIOUS
<1>6. \A i \in S \ {p} : \E j \in T : g[j] = i
  <2>. SUFFICES ASSUME NEW i \in S \ {p} PROVE \E j \in T : g[j] = i
    OBVIOUS
  <2>1. CASE i < p
    <3>1. i \in 1 .. (n - 1) /\ at(i) = i
      BY <2>1
    <3>. QED  BY <3>1
  <2>2. CASE i > p
    <3>1. i - 1 \in 1 .. (n - 1) /\ at(i - 1) = i
      BY <2>2
    <3>. QED  BY <3>1
  <2>3. i < p \/ i > p
    <3>1. i \in Nat /\ p \in Nat /\ i # p
      OBVIOUS
    <3>. QED  BY ONLY <3>1
  <2>. QED  BY ONLY <2>1, <2>2, <2>3
<1>. HIDE DEF g
<1>7. ExistsBijection(T, S \ {p})
  <2>1. g \in Injection(T, S \ {p})
    BY <1>4, <1>5 DEF Injection, IsInjective
  <2>2. g \in Surjection(T, S \ {p})
    BY <1>4, <1>6 DEF Surjection
  <2>. QED  BY <2>1, <2>2 DEF Bijection, ExistsBijection
<1>8. Cardinality(S \ {p}) = Cardinality(T)
  BY <1>1, <1>7, FS_Bijection
<1>. QED  BY <1>1, <1>2, <1>3, <1>8

(* The count of the filters of a path, after push_back.                    *)
LEMMA AppendCount ==
    ASSUME NEW s \in Seq(FilterSet), NEW f \in FilterSet, NEW x
    PROVE  /\ Filtering(s, x) \in Nat
           /\ Filtering(Append(s, f), x)
                = IF f.path = x THEN Filtering(s, x) + 1 ELSE Filtering(s, x)
<1>. DEFINE S == Positions(s, x)
            T == Positions(Append(s, f), x)
            n == Len(s)
<1>1. /\ n \in Nat /\ DOMAIN s = 1 .. n /\ DOMAIN Append(s, f) = 1 .. (n + 1)
      /\ Append(s, f)[n + 1] = f /\ \A i \in 1 .. n : Append(s, f)[i] = s[i]
  OBVIOUS
<1>2. S \subseteq 1 .. n /\ n + 1 \notin S
  BY <1>1 DEF Positions
<1>3. IsFiniteSet(S)
  <2>1. IsFiniteSet(1 .. n)
    BY <1>1, FS_Interval
  <2>. HIDE DEF S
  <2>. QED  BY <1>2, <2>1, FS_Subset
<1>4. T = IF f.path = x THEN S \cup {n + 1} ELSE S
  <2>1. \A i : i \in T <=> i \in S \/ (i = n + 1 /\ f.path = x)
    BY <1>1 DEF Positions
  <2>. HIDE DEF T, S
  <2>2. CASE f.path = x
    BY <2>1, <2>2
  <2>3. CASE f.path # x
    BY <2>1, <2>3
  <2>. QED  BY <2>2, <2>3
<1>5. Cardinality(S \cup {n + 1}) = Cardinality(S) + 1 /\ Cardinality(S) \in Nat
  BY <1>2, <1>3, FS_AddElement, FS_CardinalityType
<1>. HIDE DEF T, S
<1>6. Filtering(s, x) = Cardinality(S) /\ Filtering(Append(s, f), x) = Cardinality(T)
  BY DEF Filtering, S, T
<1>. QED  BY <1>4, <1>5, <1>6

(* The count of the filters of a path, after erase: one less, of the path  *)
(* alone, although filters behind it moved and changed flags.              *)
LEMMA ErasedCount ==
    ASSUME NEW list \in Seq(FilterSet), NEW u \in Uri, Filtering(list, u) >= 1
    PROVE  /\ Erased(list, u) \in Seq(FilterSet)
           /\ \A x : Filtering(Erased(list, u), x)
                       = IF x = u THEN Filtering(list, x) - 1 ELSE Filtering(list, x)
<1>. DEFINE n == Len(list)
            matching == {i \in DOMAIN list : Matches(list[i], u)}
            first == CHOOSE i \in matching : \A j \in matching : i <= j
            erased == [i \in 1 .. (n - 1) |->
                         IF i < first THEN list[i] ELSE Assigned(list[i], list[i + 1])]
<1>1. /\ list \in Seq(FilterSet) /\ n \in Nat /\ DOMAIN list = 1 .. n
      /\ \A i \in 1 .. n : list[i] \in FilterSet
  OBVIOUS
<1>2. matching = Positions(list, u) /\ matching \subseteq 1 .. n
  BY <1>1 DEF Positions, Matches
<1>3. matching # {}
  <2>1. Cardinality({}) = 0
    BY FS_EmptySet
  <2>2. Filtering(list, u) = Cardinality(matching)
    BY <1>2 DEF Filtering
  <2>3. ASSUME matching = {} PROVE FALSE
    <3>1. Filtering(list, u) = 0
      BY <2>1, <2>2, <2>3, Zenon
    <3>. QED  BY <3>1
  <2>. QED  BY <2>3
<1>4. PICK p \in 1 .. n : p \in matching /\ \A j \in matching : p <= j
  <2>1. matching \in SUBSET Nat /\ matching # {}
    BY <1>1, <1>2, <1>3
  <2>. HIDE DEF matching
  <2>2. \E m \in matching : \A j \in matching : m <= j
    BY <2>1, Least
  <2>. QED  BY <2>2, <1>2
<1>5. first = p
  BY <1>1, <1>2, <1>4
<1>6. Erased(list, u) = erased
  BY <1>3 DEF Erased
<1>. HIDE DEF first
<1>7. \A i \in 1 .. (n - 1) :
         /\ erased[i] \in FilterSet
         /\ erased[i].path = list[IF i < p THEN i ELSE i + 1].path
  <2>. TAKE i \in 1 .. (n - 1)
  <2>1. i \in 1 .. n /\ i + 1 \in 1 .. n
    BY <1>1
  <2>2. list[i] \in FilterSet /\ list[i + 1] \in FilterSet
    BY <1>1, <2>1
  <2>3. /\ Assigned(list[i], list[i + 1]) \in FilterSet
        /\ Assigned(list[i], list[i + 1]).path = list[i + 1].path
    BY <2>2 DEF Assigned, FilterSet
  <2>. QED  BY <2>2, <2>3, <1>5
<1>8. n - 1 \in Nat
  BY <1>1, <1>4
<1>9. erased \in Seq(FilterSet) /\ Len(erased) = n - 1
  BY <1>7, <1>8
<1>. HIDE DEF erased
<1>10. ASSUME NEW x
       PROVE  Filtering(Erased(list, u), x)
                = IF x = u THEN Filtering(list, x) - 1 ELSE Filtering(list, x)
  <2>. DEFINE S == Positions(list, x)
              T == Positions(erased, x)
  <2>1. S \in SUBSET (1 .. n)
    BY <1>1 DEF Positions
  <2>2. T = {j \in 1 .. (n - 1) : (IF j < p THEN j ELSE j + 1) \in S}
    <3>1. DOMAIN erased = 1 .. (n - 1)
      BY <1>9
    <3>2. \A j \in 1 .. (n - 1) : (IF j < p THEN j ELSE j + 1) \in 1 .. n
      BY <1>1, <1>4
    <3>. QED  BY <3>1, <3>2, <1>1, <1>7 DEF Positions
  <2>3. p \in S <=> x = u
    BY <1>1, <1>2, <1>4 DEF Positions
  <2>. HIDE DEF S, T, n
  <2>4. Cardinality(T) = IF p \in S THEN Cardinality(S) - 1 ELSE Cardinality(S)
    BY <1>1, <2>1, <2>2, SkipOne
  <2>5. Filtering(Erased(list, u), x) = Cardinality(T) /\ Filtering(list, x) = Cardinality(S)
    BY <1>6 DEF S, T, Filtering
  <2>. QED  BY <2>3, <2>4, <2>5
<1>. QED  BY <1>6, <1>9, <1>10

(* An assigned list has the paths of the other.                            *)
LEMMA CopiedCount ==
    ASSUME NEW old \in Seq(FilterSet), NEW new \in Seq(FilterSet)
    PROVE  /\ Copied(old, new) \in Seq(FilterSet)
           /\ \A x : Filtering(Copied(old, new), x) = Filtering(new, x)
<1>1. Len(new) \in Nat /\ Len(old) \in Nat
  OBVIOUS
<1>2. \A i \in 1 .. Len(new) : /\ Copied(old, new)[i] \in FilterSet
                               /\ Copied(old, new)[i].path = new[i].path
  <2>. TAKE i \in 1 .. Len(new)
  <2>1. new[i] \in FilterSet /\ (i <= Len(old) => old[i] \in FilterSet)
    BY <1>1
  <2>2. i <= Len(old) => /\ Assigned(old[i], new[i]) \in FilterSet
                         /\ Assigned(old[i], new[i]).path = new[i].path
    BY <2>1 DEF Assigned, FilterSet
  <2>3. Copied(old, new)[i] = IF i <= Len(old) THEN Assigned(old[i], new[i]) ELSE new[i]
    BY DEF Copied
  <2>. QED  BY <2>1, <2>2, <2>3
<1>3. Copied(old, new) \in Seq(FilterSet) /\ DOMAIN Copied(old, new) = 1 .. Len(new)
  <2>1. Copied(old, new)
          = [i \in 1 .. Len(new) |-> IF i <= Len(old) THEN Assigned(old[i], new[i]) ELSE new[i]]
    BY DEF Copied
  <2>. QED  BY <1>1, <1>2, <2>1
<1>4. \A x : Positions(Copied(old, new), x) = Positions(new, x)
  BY <1>1, <1>2, <1>3 DEF Positions
<1>. QED  BY <1>3, <1>4 DEF Filtering

-----------------------------------------------------------------------------
(* The locks, when one thread goes on.                                     *)
LEMMA AddedKinds ==
    ASSUME NEW t
    PROVE  /\ Added(t) \subseteq Kinds /\ Constructed(t) \subseteq Added(t)
           /\ Added(t)' \subseteq Kinds /\ Constructed(t)' \subseteq Added(t)'
BY DEF Added, Constructed, Kinds

LEMMA SameLocks ==
    ASSUME \A s \in Threads :
             \/ Added(s) = {} /\ Added(s)' = {}
             \/ /\ Added(s)' = Added(s) /\ Constructed(s)' = Constructed(s)
                /\ job'[s].uri = job[s].uri
    PROVE  \A x : LocksAdded(x)' = LocksAdded(x) /\ LocksConstructed(x)' = LocksConstructed(x)
<1>1. \A s : Constructed(s) \subseteq Added(s) /\ Constructed(s)' \subseteq Added(s)'
  BY AddedKinds
<1>2. \A s \in Threads : \A x :
         /\ \A k : (job'[s].uri = x /\ k \in Added(s)') <=> (job[s].uri = x /\ k \in Added(s))
         /\ \A k : (job'[s].uri = x /\ k \in Constructed(s)') <=> (job[s].uri = x /\ k \in Constructed(s))
  BY <1>1
<1>. QED  BY <1>2 DEF LocksAdded, LocksConstructed

(* A lock more, or one less.                                               *)
LEMMA LockAdded ==
    ASSUME NEW t \in Threads, NEW k \in Kinds, k \notin Added(t),
           Added(t)' = Added(t) \cup {k}, Constructed(t)' = Constructed(t),
           \A s \in Threads \ {t} : Added(s)' = Added(s) /\ Constructed(s)' = Constructed(s),
           \A s \in Threads : job'[s] = job[s]
    PROVE  \A x :
             /\ LocksConstructed(x)' = LocksConstructed(x)
             /\ LocksAdded(x)' = IF x = job[t].uri THEN LocksAdded(x) \cup {<<t, k>>} ELSE LocksAdded(x)
             /\ <<t, k>> \notin LocksAdded(x)
<1>. TAKE x
<1>1. LocksConstructed(x)' = LocksConstructed(x)
  BY DEF LocksConstructed
<1>2. <<t, k>> \notin LocksAdded(x)
  BY DEF LocksAdded
<1>3. \A l \in Threads \X Kinds :
         l[2] \in Added(l[1])' <=> l[2] \in Added(l[1]) \/ l = <<t, k>>
  <2>. TAKE l \in Threads \X Kinds
  <2>1. l = <<l[1], l[2]>> /\ l[1] \in Threads /\ l[2] \in Kinds
    OBVIOUS
  <2>. QED  BY <2>1
<1>4. \A l : l \in LocksAdded(x)' <=>
              l \in LocksAdded(x) \/ (l = <<t, k>> /\ job[t].uri = x)
  BY <1>3 DEF LocksAdded
<1>. QED  BY <1>1, <1>2, <1>4

LEMMA LockConstructed ==
    ASSUME NEW t \in Threads, NEW k \in Kinds,
           Added(t)' = Added(t), Constructed(t)' = Constructed(t) \cup {k},
           \A s \in Threads \ {t} : Added(s)' = Added(s) /\ Constructed(s)' = Constructed(s),
           \A s \in Threads : job'[s] = job[s]
    PROVE  \A x :
             /\ LocksAdded(x)' = LocksAdded(x)
             /\ LocksConstructed(x)' = IF x = job[t].uri THEN LocksConstructed(x) \cup {<<t, k>>}
                                                         ELSE LocksConstructed(x)
<1>. TAKE x
<1>1. LocksAdded(x)' = LocksAdded(x)
  BY DEF LocksAdded
<1>3. \A l \in Threads \X Kinds :
         l[2] \in Constructed(l[1])' <=> l[2] \in Constructed(l[1]) \/ l = <<t, k>>
  <2>. TAKE l \in Threads \X Kinds
  <2>1. l = <<l[1], l[2]>> /\ l[1] \in Threads /\ l[2] \in Kinds
    OBVIOUS
  <2>. QED  BY <2>1
<1>4. \A l : l \in LocksConstructed(x)' <=>
              l \in LocksConstructed(x) \/ (l = <<t, k>> /\ job[t].uri = x)
  BY <1>3 DEF LocksConstructed
<1>. QED  BY <1>1, <1>4

LEMMA LockDestroyed ==
    ASSUME NEW t \in Threads, NEW k \in Kinds, k \in Constructed(t),
           Added(t)' = Added(t) \ {k}, Constructed(t)' = Constructed(t) \ {k},
           \A s \in Threads \ {t} : Added(s)' = Added(s) /\ Constructed(s)' = Constructed(s),
           \A s \in Threads \ {t} : job'[s] = job[s],
           job'[t].uri = job[t].uri \/ Added(t)' = {}
    PROVE  \A x :
             /\ <<t, k>> \in LocksConstructed(x) <=> x = job[t].uri
             /\ <<t, k>> \in LocksAdded(x) <=> x = job[t].uri
             /\ LocksAdded(x)' = LocksAdded(x) \ {<<t, k>>}
             /\ LocksConstructed(x)' = LocksConstructed(x) \ {<<t, k>>}
<1>. TAKE x
<1>1. Constructed(t) \subseteq Added(t) /\ Constructed(t)' \subseteq Added(t)'
  BY AddedKinds
<1>2. /\ <<t, k>> \in LocksConstructed(x) <=> x = job[t].uri
      /\ <<t, k>> \in LocksAdded(x) <=> x = job[t].uri
  BY <1>1 DEF LocksAdded, LocksConstructed
<1>3. \A m \in Threads \X Kinds :
         /\ m[2] \in Added(m[1])' <=> m[2] \in Added(m[1]) /\ m # <<t, k>>
         /\ m[2] \in Constructed(m[1])' <=> m[2] \in Constructed(m[1]) /\ m # <<t, k>>
  <2>. TAKE m \in Threads \X Kinds
  <2>1. m = <<m[1], m[2]>> /\ m[1] \in Threads /\ m[2] \in Kinds
    OBVIOUS
  <2>. QED  BY <2>1
<1>4. \A m \in Threads \X Kinds :
         m[2] \in Added(m[1])' => job'[m[1]].uri = job[m[1]].uri
  OBVIOUS
<1>5. \A m \in Threads \X Kinds :
         m[2] \in Constructed(m[1])' => job'[m[1]].uri = job[m[1]].uri
  BY <1>1
<1>6. LocksAdded(x)' = LocksAdded(x) \ {<<t, k>>}
  BY <1>3, <1>4 DEF LocksAdded
<1>7. LocksConstructed(x)' = LocksConstructed(x) \ {<<t, k>>}
  BY <1>3, <1>5 DEF LocksConstructed
<1>. QED  BY <1>2, <1>6, <1>7

(* The locks that are complete are among those added, so they can be       *)
(* counted too.                                                            *)
LEMMA FewerConstructed ==
    ASSUME NEW x, IsFiniteSet(LocksAdded(x))
    PROVE  /\ IsFiniteSet(LocksConstructed(x))
           /\ Cardinality(LocksConstructed(x)) \in Nat /\ Cardinality(LocksAdded(x)) \in Nat
           /\ Cardinality(LocksConstructed(x)) <= Cardinality(LocksAdded(x))
<1>1. LocksConstructed(x) \subseteq LocksAdded(x)
  BY AddedKinds DEF LocksConstructed, LocksAdded
<1>. QED  BY <1>1, FS_Subset, FS_CardinalityType

-----------------------------------------------------------------------------
(* Steps that leave the lists alone.                                       *)
LEMMA CountedSame ==
    ASSUME Counted, UNCHANGED <<filters, cow, torn>>,
           \A s \in Threads :
             \/ Added(s) = {} /\ Added(s)' = {}
             \/ /\ Added(s)' = Added(s) /\ Constructed(s)' = Constructed(s)
                /\ job'[s].uri = job[s].uri
    PROVE  Counted'
<1>1. \A x : LocksAdded(x)' = LocksAdded(x) /\ LocksConstructed(x)' = LocksConstructed(x)
  BY SameLocks
<1>. QED  BY <1>1 DEF Counted

(* Steps of others: they mark what they write.                             *)
LEMMA StageElsewhere ==
    ASSUME Stage, Placed, pc'["poll"] = pc["poll"], job'["poll"] = job["poll"],
           UNCHANGED <<journal, away, ok>>, skipped' = skipped,
           \/ raced'
           \/ /\ raced' = raced /\ open'["poll"] = open["poll"]
              /\ job["poll"].uri \in Uri => data'[job["poll"].uri] = data[job["poll"].uri]
    PROVE  Stage'
BY DEF Stage, Placed, PutPoints, Threads

LEMMA CreateKeeps ==
    ASSUME IInv, NEW t \in Threads, create(t)
    PROVE  IInv'
<1>. USE DEF IInv, Threads
<1>. DEFINE locks == \A s \in Threads :
                       \/ Added(s) = {} /\ Added(s)' = {}
                       \/ /\ Added(s)' = Added(s) /\ Constructed(s)' = Constructed(s)
                          /\ job'[s].uri = job[s].uri
<1>1. TypeOK'
  BY MonitorAssumption DEF TypeOK, Placed, create, Writes, At, Goes, Job, files, lists, scans, steps, puts, bounds, File, PutPoints, ServerPoints, PollPoints
<1>2. Placed'
  BY MonitorAssumption DEF TypeOK, Placed, Stage, create, Writes, At, Goes, Job, files, lists, scans, steps, puts, bounds, File, PutPoints, ServerPoints, PollPoints
<1>3. UNCHANGED <<filters, cow, torn>>
  BY DEF create, Writes, At, Goes, Job, files, lists, scans, steps, puts, bounds, lists
<1>4. locks
  BY MonitorAssumption DEF TypeOK, Placed, Added, Constructed, create, Writes, At, Goes, Job, files, lists, scans, steps, puts, bounds, PutPoints, ServerPoints, PollPoints
<1>5. Counted'
  BY <1>3, <1>4, CountedSame
<1>6. Stage'
  BY MonitorAssumption DEF TypeOK, Placed, Stage, create, Writes, At, Goes, Job, files, lists, scans, steps, puts, bounds, PutPoints, ServerPoints, PollPoints
<1>. QED  BY <1>1, <1>2, <1>5, <1>6

LEMMA TruncateKeeps ==
    ASSUME IInv, NEW t \in Threads, truncate(t)
    PROVE  IInv'
<1>. USE DEF IInv, Threads
<1>. DEFINE locks == \A s \in Threads :
                       \/ Added(s) = {} /\ Added(s)' = {}
                       \/ /\ Added(s)' = Added(s) /\ Constructed(s)' = Constructed(s)
                          /\ job'[s].uri = job[s].uri
<1>1. TypeOK'
  <2>1. data' \in [Uri -> File] /\ journal' \in [Uri -> File]
    BY MonitorAssumption DEF TypeOK, Placed, truncate, Writes, At, Goes, Job, files, lists, scans, steps, puts, bounds, File, PutPoints, ServerPoints, PollPoints
  <2>2. hash' \in [Uri -> File] /\ away' \in [Uri -> File]
    BY MonitorAssumption DEF TypeOK, Placed, truncate, Writes, At, Goes, Job, files, lists, scans, steps, puts, bounds, File, PutPoints, ServerPoints, PollPoints
  <2>3. open' \in [Threads -> {None, "data", "journal"}]
    BY MonitorAssumption DEF TypeOK, Placed, truncate, Writes, At, Goes, Job, files, lists, scans, steps, puts, bounds, File, PutPoints, ServerPoints, PollPoints
  <2>4. pc' \in [Threads -> ServerPoints \cup PollPoints]
    BY MonitorAssumption DEF TypeOK, Placed, truncate, Writes, At, Goes, Job, files, lists, scans, steps, puts, bounds, File, PutPoints, ServerPoints, PollPoints
  <2>5. job' \in [Threads -> [uri : Uri \cup {None}, data : File]]
    BY MonitorAssumption DEF TypeOK, Placed, truncate, Writes, At, Goes, Job, files, lists, scans, steps, puts, bounds, File, PutPoints, ServerPoints, PollPoints
  <2>6. queue' \subseteq Uri
    BY MonitorAssumption DEF TypeOK, Placed, truncate, Writes, At, Goes, Job, files, lists, scans, steps, puts, bounds, File, PutPoints, ServerPoints, PollPoints
  <2>7. torn' \in BOOLEAN
    BY MonitorAssumption DEF TypeOK, Placed, truncate, Writes, At, Goes, Job, files, lists, scans, steps, puts, bounds, File, PutPoints, ServerPoints, PollPoints
  <2>8. raced' \in BOOLEAN
    BY MonitorAssumption DEF TypeOK, Placed, truncate, Writes, At, Goes, Job, files, lists, scans, steps, puts, bounds, File, PutPoints, ServerPoints, PollPoints
  <2>9. skipped' \in BOOLEAN
    BY MonitorAssumption DEF TypeOK, Placed, truncate, Writes, At, Goes, Job, files, lists, scans, steps, puts, bounds, File, PutPoints, ServerPoints, PollPoints
  <2>10. ok' \in BOOLEAN
    BY MonitorAssumption DEF TypeOK, Placed, truncate, Writes, At, Goes, Job, files, lists, scans, steps, puts, bounds, File, PutPoints, ServerPoints, PollPoints
  <2>. QED  BY <2>1, <2>2, <2>3, <2>4, <2>5, <2>6, <2>7, <2>8, <2>9, <2>10 DEF TypeOK
<1>2. Placed'
  BY MonitorAssumption DEF TypeOK, Placed, Stage, truncate, Writes, At, Goes, Job, files, lists, scans, steps, puts, bounds, File, PutPoints, ServerPoints, PollPoints
<1>3. UNCHANGED <<filters, cow, torn>>
  BY DEF truncate, Writes, At, Goes, Job, files, lists, scans, steps, puts, bounds, lists
<1>4. locks
  BY MonitorAssumption DEF TypeOK, Placed, Added, Constructed, truncate, Writes, At, Goes, Job, files, lists, scans, steps, puts, bounds, PutPoints, ServerPoints, PollPoints
<1>5. Counted'
  BY <1>3, <1>4, CountedSame
<1>6. Stage'
  <2>1. CASE t = "poll" /\ hash[job[t].uri] = job[t].data
    <3>1. /\ pc["poll"] = "truncate" /\ pc'["poll"] = "put_end" /\ job' = job
          /\ UNCHANGED <<data, journal>>
      BY <2>1 DEF TypeOK, truncate, At, Goes
    <3>2. skipped' /\ (raced' => raced) /\ (raced => raced')
      BY <2>1, MonitorAssumption DEF truncate, Writes
    <3>. QED  BY <3>1, <3>2 DEF Stage, PutPoints
  <2>2. CASE t = "poll" /\ hash[job[t].uri] # job[t].data
    BY <2>2, MonitorAssumption DEF TypeOK, Placed, Stage, truncate, Writes, At, Goes, Job, files, lists, scans, steps, puts, bounds, PutPoints, ServerPoints, PollPoints
  <2>3. CASE t # "poll" /\ job["poll"].uri = job[t].uri
    <3>1. pc'["poll"] = pc["poll"] /\ job'["poll"] = job["poll"] /\ UNCHANGED <<journal, away, ok>>
      BY <2>3 DEF TypeOK, truncate, At, Goes, Job
    <3>2. skipped' = skipped
      BY <2>3 DEF truncate
    <3>3. raced'
      BY <2>3 DEF truncate, Writes
    <3>. QED  BY <3>1, <3>2, <3>3, StageElsewhere
  <2>4. CASE t # "poll" /\ job["poll"].uri # job[t].uri
    <3>1. pc'["poll"] = pc["poll"] /\ job'["poll"] = job["poll"] /\ UNCHANGED <<journal, away, ok>>
      BY <2>4 DEF TypeOK, truncate, At, Goes, Job
    <3>2. skipped' = skipped
      BY <2>4 DEF truncate
    <3>3. /\ open'["poll"] = open["poll"]
          /\ job["poll"].uri \in Uri => data'[job["poll"].uri] = data[job["poll"].uri]
      BY <2>4 DEF truncate, TypeOK
    <3>4. raced' = raced
      BY <2>4 DEF truncate, Writes, TypeOK
    <3>. QED  BY <3>1, <3>2, <3>3, <3>4, StageElsewhere
  <2>. QED  BY <2>1, <2>2, <2>3, <2>4
<1>. QED  BY <1>1, <1>2, <1>5, <1>6

LEMMA WriteKeeps ==
    ASSUME IInv, NEW t \in Threads, write(t)
    PROVE  IInv'
<1>. USE DEF IInv, Threads
<1>. DEFINE locks == \A s \in Threads :
                       \/ Added(s) = {} /\ Added(s)' = {}
                       \/ /\ Added(s)' = Added(s) /\ Constructed(s)' = Constructed(s)
                          /\ job'[s].uri = job[s].uri
<1>1. TypeOK'
  BY MonitorAssumption DEF TypeOK, Placed, write, Writes, At, Goes, Job, files, lists, scans, steps, puts, bounds, File, PutPoints, ServerPoints, PollPoints
<1>2. Placed'
  BY MonitorAssumption DEF TypeOK, Placed, Stage, write, Writes, At, Goes, Job, files, lists, scans, steps, puts, bounds, File, PutPoints, ServerPoints, PollPoints
<1>3. UNCHANGED <<filters, cow, torn>>
  BY DEF write, Writes, At, Goes, Job, files, lists, scans, steps, puts, bounds, lists
<1>4. locks
  BY MonitorAssumption DEF TypeOK, Placed, Added, Constructed, write, Writes, At, Goes, Job, files, lists, scans, steps, puts, bounds, PutPoints, ServerPoints, PollPoints
<1>5. Counted'
  BY <1>3, <1>4, CountedSame
<1>6. Stage'
  <2>1. CASE t = "poll"
    BY <2>1, MonitorAssumption DEF TypeOK, Placed, Stage, write, Writes, At, Goes, Job, files, lists, scans, steps, puts, bounds, PutPoints, ServerPoints, PollPoints
  <2>2. CASE t # "poll" /\ job["poll"].uri = job[t].uri
    BY <2>2, MonitorAssumption DEF TypeOK, Placed, Stage, write, Writes, At, Goes, Job, files, lists, scans, steps, puts, bounds, PutPoints, ServerPoints, PollPoints
  <2>3. CASE t # "poll" /\ job["poll"].uri # job[t].uri
    BY <2>3, MonitorAssumption DEF TypeOK, Placed, Stage, write, Writes, At, Goes, Job, files, lists, scans, steps, puts, bounds, PutPoints, ServerPoints, PollPoints
  <2>. QED  BY <2>1, <2>2, <2>3
<1>. QED  BY <1>1, <1>2, <1>5, <1>6

LEMMA RecordKeeps ==
    ASSUME IInv, NEW t \in Threads, record(t)
    PROVE  IInv'
<1>. USE DEF IInv, Threads
<1>. DEFINE locks == \A s \in Threads :
                       \/ Added(s) = {} /\ Added(s)' = {}
                       \/ /\ Added(s)' = Added(s) /\ Constructed(s)' = Constructed(s)
                          /\ job'[s].uri = job[s].uri
<1>1. TypeOK'
  BY MonitorAssumption DEF TypeOK, Placed, record, At, Goes, Job, files, lists, scans, steps, puts, bounds, File, PutPoints, ServerPoints, PollPoints
<1>2. Placed'
  BY MonitorAssumption DEF TypeOK, Placed, Stage, record, At, Goes, Job, files, lists, scans, steps, puts, bounds, File, PutPoints, ServerPoints, PollPoints
<1>3. UNCHANGED <<filters, cow, torn>>
  BY DEF record, At, Goes, Job, files, lists, scans, steps, puts, bounds, lists
<1>4. locks
  BY MonitorAssumption DEF TypeOK, Placed, Added, Constructed, record, At, Goes, Job, files, lists, scans, steps, puts, bounds, PutPoints, ServerPoints, PollPoints
<1>5. Counted'
  BY <1>3, <1>4, CountedSame
<1>6. Stage'
  BY MonitorAssumption DEF TypeOK, Placed, Stage, record, At, Goes, Job, files, lists, scans, steps, puts, bounds, PutPoints, ServerPoints, PollPoints
<1>. QED  BY <1>1, <1>2, <1>5, <1>6

LEMMA DelKeeps ==
    ASSUME IInv, NEW t \in Threads, del(t)
    PROVE  IInv'
<1>. USE DEF IInv, Threads
<1>. DEFINE locks == \A s \in Threads :
                       \/ Added(s) = {} /\ Added(s)' = {}
                       \/ /\ Added(s)' = Added(s) /\ Constructed(s)' = Constructed(s)
                          /\ job'[s].uri = job[s].uri
<1>1. TypeOK'
  <2>1. data' \in [Uri -> File] /\ journal' \in [Uri -> File]
    BY MonitorAssumption DEF TypeOK, Placed, del, Writes, Unlinks, At, Goes, Job, files, lists, scans, steps, puts, bounds, File, PutPoints, ServerPoints, PollPoints
  <2>2. hash' \in [Uri -> File] /\ away' \in [Uri -> File]
    BY MonitorAssumption DEF TypeOK, Placed, del, Writes, Unlinks, At, Goes, Job, files, lists, scans, steps, puts, bounds, File, PutPoints, ServerPoints, PollPoints
  <2>3. open' \in [Threads -> {None, "data", "journal"}]
    BY MonitorAssumption DEF TypeOK, Placed, del, Writes, Unlinks, At, Goes, Job, files, lists, scans, steps, puts, bounds, File, PutPoints, ServerPoints, PollPoints
  <2>4. pc' \in [Threads -> ServerPoints \cup PollPoints]
    BY MonitorAssumption DEF TypeOK, Placed, del, Writes, Unlinks, At, Goes, Job, files, lists, scans, steps, puts, bounds, File, PutPoints, ServerPoints, PollPoints
  <2>5. job' \in [Threads -> [uri : Uri \cup {None}, data : File]]
    BY MonitorAssumption DEF TypeOK, Placed, del, Writes, Unlinks, At, Goes, Job, files, lists, scans, steps, puts, bounds, File, PutPoints, ServerPoints, PollPoints
  <2>6. queue' \subseteq Uri
    BY MonitorAssumption DEF TypeOK, Placed, del, Writes, Unlinks, At, Goes, Job, files, lists, scans, steps, puts, bounds, File, PutPoints, ServerPoints, PollPoints
  <2>7. torn' \in BOOLEAN
    BY MonitorAssumption DEF TypeOK, Placed, del, Writes, Unlinks, At, Goes, Job, files, lists, scans, steps, puts, bounds, File, PutPoints, ServerPoints, PollPoints
  <2>8. raced' \in BOOLEAN
    BY MonitorAssumption DEF TypeOK, Placed, del, Writes, Unlinks, At, Goes, Job, files, lists, scans, steps, puts, bounds, File, PutPoints, ServerPoints, PollPoints
  <2>9. skipped' \in BOOLEAN
    BY MonitorAssumption DEF TypeOK, Placed, del, Writes, Unlinks, At, Goes, Job, files, lists, scans, steps, puts, bounds, File, PutPoints, ServerPoints, PollPoints
  <2>10. ok' \in BOOLEAN
    BY MonitorAssumption DEF TypeOK, Placed, del, Writes, Unlinks, At, Goes, Job, files, lists, scans, steps, puts, bounds, File, PutPoints, ServerPoints, PollPoints
  <2>. QED  BY <2>1, <2>2, <2>3, <2>4, <2>5, <2>6, <2>7, <2>8, <2>9, <2>10 DEF TypeOK
<1>2. Placed'
  BY MonitorAssumption DEF TypeOK, Placed, Stage, del, Writes, Unlinks, At, Goes, Job, files, lists, scans, steps, puts, bounds, File, PutPoints, ServerPoints, PollPoints
<1>3. UNCHANGED <<filters, cow, torn>>
  BY DEF del, Writes, Unlinks, At, Goes, Job, files, lists, scans, steps, puts, bounds, lists
<1>4. locks
  BY MonitorAssumption DEF TypeOK, Placed, Added, Constructed, del, Writes, Unlinks, At, Goes, Job, files, lists, scans, steps, puts, bounds, PutPoints, ServerPoints, PollPoints
<1>5. Counted'
  BY <1>3, <1>4, CountedSame
<1>6. Stage'
  <2>1. CASE t = "poll"
    BY <2>1, MonitorAssumption DEF TypeOK, Placed, Stage, del, Writes, Unlinks, At, Goes, Job, files, lists, scans, steps, puts, bounds, PutPoints, ServerPoints, PollPoints
  <2>2. CASE t # "poll" /\ job["poll"].uri = job[t].uri
    BY <2>2, MonitorAssumption DEF TypeOK, Placed, Stage, del, Writes, Unlinks, At, Goes, Job, files, lists, scans, steps, puts, bounds, PutPoints, ServerPoints, PollPoints
  <2>3. CASE t # "poll" /\ job["poll"].uri # job[t].uri
    <3>1. pc'["poll"] = pc["poll"] /\ job'["poll"] = job["poll"] /\ UNCHANGED <<journal, away, ok>>
      BY <2>3 DEF TypeOK, del, At, Goes, Job
    <3>2. skipped' = skipped
      BY <2>3 DEF del
    <3>3. /\ open'["poll"] = open["poll"]
          /\ job["poll"].uri \in Uri => data'[job["poll"].uri] = data[job["poll"].uri]
      BY <2>3 DEF del, Unlinks, TypeOK
    <3>4. raced' = raced
      BY <2>3 DEF del, Writes, TypeOK
    <3>. QED  BY <3>1, <3>2, <3>3, <3>4, StageElsewhere
  <2>. QED  BY <2>1, <2>2, <2>3
<1>. QED  BY <1>1, <1>2, <1>5, <1>6

LEMMA UnlinkKeeps ==
    ASSUME IInv, NEW t \in Threads, unlink(t)
    PROVE  IInv'
<1>. USE DEF IInv, Threads
<1>. DEFINE locks == \A s \in Threads :
                       \/ Added(s) = {} /\ Added(s)' = {}
                       \/ /\ Added(s)' = Added(s) /\ Constructed(s)' = Constructed(s)
                          /\ job'[s].uri = job[s].uri
<1>1. TypeOK'
  BY MonitorAssumption DEF TypeOK, Placed, unlink, Writes, Unlinks, At, Goes, Job, files, lists, scans, steps, puts, bounds, File, PutPoints, ServerPoints, PollPoints
<1>2. Placed'
  BY MonitorAssumption DEF TypeOK, Placed, Stage, unlink, Writes, Unlinks, At, Goes, Job, files, lists, scans, steps, puts, bounds, File, PutPoints, ServerPoints, PollPoints
<1>3. UNCHANGED <<filters, cow, torn>>
  BY DEF unlink, Writes, Unlinks, At, Goes, Job, files, lists, scans, steps, puts, bounds, lists
<1>4. locks
  BY MonitorAssumption DEF TypeOK, Placed, Added, Constructed, unlink, Writes, Unlinks, At, Goes, Job, files, lists, scans, steps, puts, bounds, PutPoints, ServerPoints, PollPoints
<1>5. Counted'
  BY <1>3, <1>4, CountedSame
<1>6. Stage'
  BY MonitorAssumption DEF TypeOK, Placed, Stage, unlink, Writes, Unlinks, At, Goes, Job, files, lists, scans, steps, puts, bounds, PutPoints, ServerPoints, PollPoints
<1>. QED  BY <1>1, <1>2, <1>5, <1>6

LEMMA TakeKeeps ==
    ASSUME IInv, NEW u \in Uri, put_file_journal(u)
    PROVE  IInv'
<1>. USE DEF IInv, Threads
<1>. DEFINE locks == \A s \in Threads :
                       \/ Added(s) = {} /\ Added(s)' = {}
                       \/ /\ Added(s)' = Added(s) /\ Constructed(s)' = Constructed(s)
                          /\ job'[s].uri = job[s].uri
<1>1. TypeOK'
  BY MonitorAssumption DEF TypeOK, Placed, put_file_journal, At, Goes, Job, files, lists, scans, steps, puts, bounds, File, PutPoints, ServerPoints, PollPoints
<1>2. Placed'
  BY MonitorAssumption DEF TypeOK, Placed, Stage, put_file_journal, At, Goes, Job, files, lists, scans, steps, puts, bounds, File, PutPoints, ServerPoints, PollPoints
<1>3. UNCHANGED <<filters, cow, torn>>
  BY DEF put_file_journal, At, Goes, Job, files, lists, scans, steps, puts, bounds, lists
<1>4. locks
  BY MonitorAssumption DEF TypeOK, Placed, Added, Constructed, put_file_journal, At, Goes, Job, files, lists, scans, steps, puts, bounds, PutPoints, ServerPoints, PollPoints
<1>5. Counted'
  BY <1>3, <1>4, CountedSame
<1>6. Stage'
  BY MonitorAssumption DEF TypeOK, Placed, Stage, put_file_journal, At, Goes, Job, files, lists, scans, steps, puts, bounds, PutPoints, ServerPoints, PollPoints
<1>. QED  BY <1>1, <1>2, <1>5, <1>6

LEMMA ShiftKeeps ==
    ASSUME IInv, shift
    PROVE  IInv'
<1>. USE DEF IInv, Threads
<1>. DEFINE locks == \A s \in Threads :
                       \/ Added(s) = {} /\ Added(s)' = {}
                       \/ /\ Added(s)' = Added(s) /\ Constructed(s)' = Constructed(s)
                          /\ job'[s].uri = job[s].uri
<1>1. TypeOK'
  <2>1. data' \in [Uri -> File] /\ journal' \in [Uri -> File]
    BY MonitorAssumption DEF TypeOK, Placed, shift, At, Goes, Job, files, lists, scans, steps, puts, bounds, File, PutPoints, ServerPoints, PollPoints
  <2>2. hash' \in [Uri -> File] /\ away' \in [Uri -> File]
    BY MonitorAssumption DEF TypeOK, Placed, shift, At, Goes, Job, files, lists, scans, steps, puts, bounds, File, PutPoints, ServerPoints, PollPoints
  <2>3. open' \in [Threads -> {None, "data", "journal"}]
    BY MonitorAssumption DEF TypeOK, Placed, shift, At, Goes, Job, files, lists, scans, steps, puts, bounds, File, PutPoints, ServerPoints, PollPoints
  <2>4. pc' \in [Threads -> ServerPoints \cup PollPoints]
    BY MonitorAssumption DEF TypeOK, Placed, shift, At, Goes, Job, files, lists, scans, steps, puts, bounds, File, PutPoints, ServerPoints, PollPoints
  <2>5. job' \in [Threads -> [uri : Uri \cup {None}, data : File]]
    BY MonitorAssumption DEF TypeOK, Placed, shift, At, Goes, Job, files, lists, scans, steps, puts, bounds, File, PutPoints, ServerPoints, PollPoints
  <2>6. queue' \subseteq Uri
    BY MonitorAssumption DEF TypeOK, Placed, shift, At, Goes, Job, files, lists, scans, steps, puts, bounds, File, PutPoints, ServerPoints, PollPoints
  <2>7. torn' \in BOOLEAN
    BY MonitorAssumption DEF TypeOK, Placed, shift, At, Goes, Job, files, lists, scans, steps, puts, bounds, File, PutPoints, ServerPoints, PollPoints
  <2>8. raced' \in BOOLEAN
    BY MonitorAssumption DEF TypeOK, Placed, shift, At, Goes, Job, files, lists, scans, steps, puts, bounds, File, PutPoints, ServerPoints, PollPoints
  <2>9. skipped' \in BOOLEAN
    BY MonitorAssumption DEF TypeOK, Placed, shift, At, Goes, Job, files, lists, scans, steps, puts, bounds, File, PutPoints, ServerPoints, PollPoints
  <2>10. ok' \in BOOLEAN
    BY MonitorAssumption DEF TypeOK, Placed, shift, At, Goes, Job, files, lists, scans, steps, puts, bounds, File, PutPoints, ServerPoints, PollPoints
  <2>. QED  BY <2>1, <2>2, <2>3, <2>4, <2>5, <2>6, <2>7, <2>8, <2>9, <2>10 DEF TypeOK
<1>2. Placed'
  BY MonitorAssumption DEF TypeOK, Placed, Stage, shift, At, Goes, Job, files, lists, scans, steps, puts, bounds, File, PutPoints, ServerPoints, PollPoints
<1>3. UNCHANGED <<filters, cow, torn>>
  BY DEF shift, At, Goes, Job, files, lists, scans, steps, puts, bounds, lists
<1>4. locks
  BY MonitorAssumption DEF TypeOK, Placed, Added, Constructed, shift, At, Goes, Job, files, lists, scans, steps, puts, bounds, PutPoints, ServerPoints, PollPoints
<1>5. Counted'
  BY <1>3, <1>4, CountedSame
<1>6. Stage'
  BY MonitorAssumption DEF TypeOK, Placed, Stage, shift, At, Goes, Job, files, lists, scans, steps, puts, bounds, PutPoints, ServerPoints, PollPoints
<1>. QED  BY <1>1, <1>2, <1>5, <1>6

LEMMA ReadKeeps ==
    ASSUME IInv, read
    PROVE  IInv'
<1>. USE DEF IInv, Threads
<1>. DEFINE locks == \A s \in Threads :
                       \/ Added(s) = {} /\ Added(s)' = {}
                       \/ /\ Added(s)' = Added(s) /\ Constructed(s)' = Constructed(s)
                          /\ job'[s].uri = job[s].uri
<1>1. TypeOK'
  BY MonitorAssumption DEF TypeOK, Placed, read, At, Goes, Job, files, lists, scans, steps, puts, bounds, File, PutPoints, ServerPoints, PollPoints
<1>2. Placed'
  BY MonitorAssumption DEF TypeOK, Placed, Stage, read, At, Goes, Job, files, lists, scans, steps, puts, bounds, File, PutPoints, ServerPoints, PollPoints
<1>3. UNCHANGED <<filters, cow, torn>>
  BY DEF read, At, Goes, Job, files, lists, scans, steps, puts, bounds, lists
<1>4. locks
  BY MonitorAssumption DEF TypeOK, Placed, Added, Constructed, read, At, Goes, Job, files, lists, scans, steps, puts, bounds, PutPoints, ServerPoints, PollPoints
<1>5. Counted'
  BY <1>3, <1>4, CountedSame
<1>6. Stage'
  BY MonitorAssumption DEF TypeOK, Placed, Stage, read, At, Goes, Job, files, lists, scans, steps, puts, bounds, PutPoints, ServerPoints, PollPoints
<1>. QED  BY <1>1, <1>2, <1>5, <1>6

LEMMA SendKeeps ==
    ASSUME IInv, send
    PROVE  IInv'
<1>. USE DEF IInv, Threads
<1>. DEFINE locks == \A s \in Threads :
                       \/ Added(s) = {} /\ Added(s)' = {}
                       \/ /\ Added(s)' = Added(s) /\ Constructed(s)' = Constructed(s)
                          /\ job'[s].uri = job[s].uri
<1>1. TypeOK'
  <2>1. data' \in [Uri -> File] /\ journal' \in [Uri -> File]
    BY MonitorAssumption DEF TypeOK, Placed, send, At, Goes, Job, files, lists, scans, steps, puts, bounds, File, PutPoints, ServerPoints, PollPoints
  <2>2. hash' \in [Uri -> File] /\ away' \in [Uri -> File]
    BY MonitorAssumption DEF TypeOK, Placed, send, At, Goes, Job, files, lists, scans, steps, puts, bounds, File, PutPoints, ServerPoints, PollPoints
  <2>3. open' \in [Threads -> {None, "data", "journal"}]
    BY MonitorAssumption DEF TypeOK, Placed, send, At, Goes, Job, files, lists, scans, steps, puts, bounds, File, PutPoints, ServerPoints, PollPoints
  <2>4. pc' \in [Threads -> ServerPoints \cup PollPoints]
    BY MonitorAssumption DEF TypeOK, Placed, send, At, Goes, Job, files, lists, scans, steps, puts, bounds, File, PutPoints, ServerPoints, PollPoints
  <2>5. job' \in [Threads -> [uri : Uri \cup {None}, data : File]]
    BY MonitorAssumption DEF TypeOK, Placed, send, At, Goes, Job, files, lists, scans, steps, puts, bounds, File, PutPoints, ServerPoints, PollPoints
  <2>6. queue' \subseteq Uri
    BY MonitorAssumption DEF TypeOK, Placed, send, At, Goes, Job, files, lists, scans, steps, puts, bounds, File, PutPoints, ServerPoints, PollPoints
  <2>7. torn' \in BOOLEAN
    BY MonitorAssumption DEF TypeOK, Placed, send, At, Goes, Job, files, lists, scans, steps, puts, bounds, File, PutPoints, ServerPoints, PollPoints
  <2>8. raced' \in BOOLEAN
    BY MonitorAssumption DEF TypeOK, Placed, send, At, Goes, Job, files, lists, scans, steps, puts, bounds, File, PutPoints, ServerPoints, PollPoints
  <2>9. skipped' \in BOOLEAN
    BY MonitorAssumption DEF TypeOK, Placed, send, At, Goes, Job, files, lists, scans, steps, puts, bounds, File, PutPoints, ServerPoints, PollPoints
  <2>10. ok' \in BOOLEAN
    BY MonitorAssumption DEF TypeOK, Placed, send, At, Goes, Job, files, lists, scans, steps, puts, bounds, File, PutPoints, ServerPoints, PollPoints
  <2>. QED  BY <2>1, <2>2, <2>3, <2>4, <2>5, <2>6, <2>7, <2>8, <2>9, <2>10 DEF TypeOK
<1>2. Placed'
  BY MonitorAssumption DEF TypeOK, Placed, Stage, send, At, Goes, Job, files, lists, scans, steps, puts, bounds, File, PutPoints, ServerPoints, PollPoints
<1>3. UNCHANGED <<filters, cow, torn>>
  BY DEF send, At, Goes, Job, files, lists, scans, steps, puts, bounds, lists
<1>4. locks
  BY MonitorAssumption DEF TypeOK, Placed, Added, Constructed, send, At, Goes, Job, files, lists, scans, steps, puts, bounds, PutPoints, ServerPoints, PollPoints
<1>5. Counted'
  BY <1>3, <1>4, CountedSame
<1>6. Stage'
  BY MonitorAssumption DEF TypeOK, Placed, Stage, send, At, Goes, Job, files, lists, scans, steps, puts, bounds, PutPoints, ServerPoints, PollPoints
<1>. QED  BY <1>1, <1>2, <1>5, <1>6

LEMMA SettleKeeps ==
    ASSUME IInv, settle
    PROVE  IInv'
<1>. USE DEF IInv, Threads
<1>. DEFINE locks == \A s \in Threads :
                       \/ Added(s) = {} /\ Added(s)' = {}
                       \/ /\ Added(s)' = Added(s) /\ Constructed(s)' = Constructed(s)
                          /\ job'[s].uri = job[s].uri
<1>1. TypeOK'
  <2>1. data' \in [Uri -> File] /\ journal' \in [Uri -> File]
    BY MonitorAssumption DEF TypeOK, Placed, settle, Unlinks, At, Goes, Job, files, lists, scans, steps, puts, bounds, File, PutPoints, ServerPoints, PollPoints
  <2>2. hash' \in [Uri -> File] /\ away' \in [Uri -> File]
    BY MonitorAssumption DEF TypeOK, Placed, settle, Unlinks, At, Goes, Job, files, lists, scans, steps, puts, bounds, File, PutPoints, ServerPoints, PollPoints
  <2>3. open' \in [Threads -> {None, "data", "journal"}]
    BY MonitorAssumption DEF TypeOK, Placed, settle, Unlinks, At, Goes, Job, files, lists, scans, steps, puts, bounds, File, PutPoints, ServerPoints, PollPoints
  <2>4. pc' \in [Threads -> ServerPoints \cup PollPoints]
    BY MonitorAssumption DEF TypeOK, Placed, settle, Unlinks, At, Goes, Job, files, lists, scans, steps, puts, bounds, File, PutPoints, ServerPoints, PollPoints
  <2>5. job' \in [Threads -> [uri : Uri \cup {None}, data : File]]
    BY MonitorAssumption DEF TypeOK, Placed, settle, Unlinks, At, Goes, Job, files, lists, scans, steps, puts, bounds, File, PutPoints, ServerPoints, PollPoints
  <2>6. queue' \subseteq Uri
    BY MonitorAssumption DEF TypeOK, Placed, settle, Unlinks, At, Goes, Job, files, lists, scans, steps, puts, bounds, File, PutPoints, ServerPoints, PollPoints
  <2>7. torn' \in BOOLEAN
    BY MonitorAssumption DEF TypeOK, Placed, settle, Unlinks, At, Goes, Job, files, lists, scans, steps, puts, bounds, File, PutPoints, ServerPoints, PollPoints
  <2>8. raced' \in BOOLEAN
    BY MonitorAssumption DEF TypeOK, Placed, settle, Unlinks, At, Goes, Job, files, lists, scans, steps, puts, bounds, File, PutPoints, ServerPoints, PollPoints
  <2>9. skipped' \in BOOLEAN
    BY MonitorAssumption DEF TypeOK, Placed, settle, Unlinks, At, Goes, Job, files, lists, scans, steps, puts, bounds, File, PutPoints, ServerPoints, PollPoints
  <2>10. ok' \in BOOLEAN
    BY MonitorAssumption DEF TypeOK, Placed, settle, Unlinks, At, Goes, Job, files, lists, scans, steps, puts, bounds, File, PutPoints, ServerPoints, PollPoints
  <2>. QED  BY <2>1, <2>2, <2>3, <2>4, <2>5, <2>6, <2>7, <2>8, <2>9, <2>10 DEF TypeOK
<1>2. Placed'
  BY MonitorAssumption DEF TypeOK, Placed, Stage, settle, Unlinks, At, Goes, Job, files, lists, scans, steps, puts, bounds, File, PutPoints, ServerPoints, PollPoints
<1>3. UNCHANGED <<filters, cow, torn>>
  BY DEF settle, Unlinks, At, Goes, Job, files, lists, scans, steps, puts, bounds, lists
<1>4. locks
  BY MonitorAssumption DEF TypeOK, Placed, Added, Constructed, settle, Unlinks, At, Goes, Job, files, lists, scans, steps, puts, bounds, PutPoints, ServerPoints, PollPoints
<1>5. Counted'
  BY <1>3, <1>4, CountedSame
<1>6. Stage'
  BY MonitorAssumption DEF TypeOK, Placed, Stage, settle, Unlinks, At, Goes, Job, files, lists, scans, steps, puts, bounds, PutPoints, ServerPoints, PollPoints
<1>. QED  BY <1>1, <1>2, <1>5, <1>6

LEMMA ScanKeeps ==
    ASSUME IInv, scan
    PROVE  IInv'
<1>. USE DEF IInv, Threads
<1>. DEFINE locks == \A s \in Threads :
                       \/ Added(s) = {} /\ Added(s)' = {}
                       \/ /\ Added(s)' = Added(s) /\ Constructed(s)' = Constructed(s)
                          /\ job'[s].uri = job[s].uri
<1>1. TypeOK'
  BY MonitorAssumption DEF TypeOK, Placed, scan, At, Goes, Job, files, lists, scans, steps, puts, bounds, File, PutPoints, ServerPoints, PollPoints
<1>2. Placed'
  BY MonitorAssumption DEF TypeOK, Placed, Stage, scan, At, Goes, Job, files, lists, scans, steps, puts, bounds, File, PutPoints, ServerPoints, PollPoints
<1>3. UNCHANGED <<filters, cow, torn>>
  BY DEF scan, At, Goes, Job, files, lists, scans, steps, puts, bounds, lists
<1>4. locks
  BY MonitorAssumption DEF TypeOK, Placed, Added, Constructed, scan, At, Goes, Job, files, lists, scans, steps, puts, bounds, PutPoints, ServerPoints, PollPoints
<1>5. Counted'
  BY <1>3, <1>4, CountedSame
<1>6. Stage'
  BY MonitorAssumption DEF TypeOK, Placed, Stage, scan, At, Goes, Job, files, lists, scans, steps, puts, bounds, PutPoints, ServerPoints, PollPoints
<1>. QED  BY <1>1, <1>2, <1>5, <1>6

LEMMA EditKeeps ==
    ASSUME IInv, NEW u \in Uri, NEW c \in Content \cup {None}, Edit(u, c)
    PROVE  IInv'
<1>. USE DEF IInv, Threads
<1>. DEFINE locks == \A s \in Threads :
                       \/ Added(s) = {} /\ Added(s)' = {}
                       \/ /\ Added(s)' = Added(s) /\ Constructed(s)' = Constructed(s)
                          /\ job'[s].uri = job[s].uri
<1>1. TypeOK'
  BY MonitorAssumption DEF TypeOK, Placed, Edit, Writes, Unlinks, At, Goes, Job, files, lists, scans, steps, puts, bounds, File, PutPoints, ServerPoints, PollPoints
<1>2. Placed'
  BY MonitorAssumption DEF TypeOK, Placed, Stage, Edit, Writes, Unlinks, At, Goes, Job, files, lists, scans, steps, puts, bounds, File, PutPoints, ServerPoints, PollPoints
<1>3. UNCHANGED <<filters, cow, torn>>
  BY DEF Edit, Writes, Unlinks, At, Goes, Job, files, lists, scans, steps, puts, bounds, lists
<1>4. locks
  BY MonitorAssumption DEF TypeOK, Placed, Added, Constructed, Edit, Writes, Unlinks, At, Goes, Job, files, lists, scans, steps, puts, bounds, PutPoints, ServerPoints, PollPoints
<1>5. Counted'
  BY <1>3, <1>4, CountedSame
<1>6. Stage'
  <2>1. CASE job["poll"].uri = u
    BY <2>1, MonitorAssumption DEF TypeOK, Placed, Stage, Edit, Writes, Unlinks, At, Goes, Job, files, lists, scans, steps, puts, bounds, PutPoints, ServerPoints, PollPoints
  <2>2. CASE job["poll"].uri # u
    BY <2>2, MonitorAssumption DEF TypeOK, Placed, Stage, Edit, Writes, Unlinks, At, Goes, Job, files, lists, scans, steps, puts, bounds, PutPoints, ServerPoints, PollPoints
  <2>. QED  BY <2>1, <2>2
<1>. QED  BY <1>1, <1>2, <1>5, <1>6

LEMMA CallKeeps ==
    ASSUME IInv, NEW t \in Server, NEW u \in Uri, NEW c, NEW p,
           (p = "del" /\ c = None) \/ (p = "put" /\ c \in Content), Call(t, p, u, c)
    PROVE  IInv'
<1>. USE DEF IInv, Threads
<1>. DEFINE locks == \A s \in Threads :
                       \/ Added(s) = {} /\ Added(s)' = {}
                       \/ /\ Added(s)' = Added(s) /\ Constructed(s)' = Constructed(s)
                          /\ job'[s].uri = job[s].uri
<1>1. TypeOK'
  BY MonitorAssumption DEF TypeOK, Placed, Call, At, Goes, Job, files, lists, scans, steps, puts, bounds, File, PutPoints, ServerPoints, PollPoints
<1>2. Placed'
  BY MonitorAssumption DEF TypeOK, Placed, Stage, Call, At, Goes, Job, files, lists, scans, steps, puts, bounds, File, PutPoints, ServerPoints, PollPoints
<1>3. UNCHANGED <<filters, cow, torn>>
  BY DEF Call, At, Goes, Job, files, lists, scans, steps, puts, bounds, lists
<1>4. locks
  BY MonitorAssumption DEF TypeOK, Placed, Added, Constructed, Call, At, Goes, Job, files, lists, scans, steps, puts, bounds, PutPoints, ServerPoints, PollPoints
<1>5. Counted'
  BY <1>3, <1>4, CountedSame
<1>6. Stage'
  BY MonitorAssumption DEF TypeOK, Placed, Stage, Call, At, Goes, Job, files, lists, scans, steps, puts, bounds, PutPoints, ServerPoints, PollPoints
<1>. QED  BY <1>1, <1>2, <1>5, <1>6

-----------------------------------------------------------------------------
(* Steps in the lists.                                                     *)
LEMMA BeginKeeps ==
    ASSUME IInv, NEW t \in Threads, begin(t)
    PROVE  IInv'
<1>1. UNCHANGED <<data, hash, away, journal, open, filters, cow, queue, pc, job, ok, skipped, raced>>
  BY DEF begin, files, scans, steps, puts
<1>2. torn' \in BOOLEAN /\ (~torn' => ~torn)
  BY DEF begin, IInv, TypeOK
<1>3. TypeOK' /\ Placed' /\ Stage'
  BY <1>1, <1>2 DEF IInv, TypeOK, Placed, Stage
<1>4. \A x : LocksAdded(x)' = LocksAdded(x) /\ LocksConstructed(x)' = LocksConstructed(x)
  <2>1. \A s \in Threads : /\ Added(s)' = Added(s) /\ Constructed(s)' = Constructed(s)
                           /\ job'[s].uri = job[s].uri
    BY <1>1 DEF Added, Constructed
  <2>. QED  BY <2>1, SameLocks
<1>5. Counted'
  BY <1>1, <1>2, <1>4 DEF IInv, Counted
<1>. QED  BY <1>3, <1>5 DEF IInv

(* All but the count is the same for all of them.                          *)
LEMMA InList ==
    ASSUME IInv, NEW t \in Threads,
           add_filter(t) \/ remove_filter(t) \/ (t = "poll" /\ copy)
    PROVE  TypeOK' /\ Placed' /\ Stage' /\ torn' = torn
<1>1. /\ UNCHANGED <<data, hash, away, journal, open, queue, ok, skipped, raced, torn>>
      /\ pc[t] \in Adding \cup AddingCow \cup Removing \cup {"copy"}
      /\ Goes(t, After(pc[t]))
  BY DEF add_filter, remove_filter, copy, Within, Leaves, After, files, scans, puts
<1>2. TypeOK'
  BY <1>1 DEF IInv, TypeOK, Goes, Job, After, Adding, AddingCow, Removing, File, PutPoints, ServerPoints, PollPoints
<1>3. Placed'
  BY <1>1, MonitorAssumption DEF IInv, TypeOK, Placed, Goes, Job, After, Adding, AddingCow, Removing, Threads, PutPoints, ServerPoints, PollPoints
<1>4. Stage'
  <2>1. CASE t = "poll"
    BY <1>1, <2>1 DEF IInv, TypeOK, Placed, Stage, Goes, Job, After, Adding, AddingCow, Removing, PutPoints, PollPoints
  <2>2. CASE t # "poll"
    <3>1. pc'["poll"] = pc["poll"] /\ job'["poll"] = job["poll"]
      BY <1>1, <2>2 DEF IInv, TypeOK, Goes
    <3>. QED  BY <1>1, <3>1 DEF IInv, Stage
  <2>. QED  BY <2>1, <2>2
<1>. QED  BY <1>1, <1>2, <1>3, <1>4

LEMMA AddKeeps ==
    ASSUME IInv, NEW t \in Threads, add_filter(t)
    PROVE  IInv'
<1>1. TypeOK' /\ Placed' /\ Stage' /\ torn' = torn
  BY InList
<1>2. SUFFICES ASSUME ~torn PROVE Counted'
  BY <1>1 DEF IInv, Counted
<1>. DEFINE u == job[t].uri
            f == Filter(u, FlagOf(pc[t]))
<1>3. /\ filters \in Seq(FilterSet) /\ cow \in Seq(FilterSet)
      /\ \A x \in Uri : /\ IsFiniteSet(LocksAdded(x))
                        /\ Filtering(filters, x) = Cardinality(LocksAdded(x))
                        /\ Filtering(cow, x) >= Cardinality(LocksConstructed(x))
  BY <1>2 DEF IInv, Counted
<1>4. /\ pc[t] \in Adding \cup AddingCow /\ u \in Uri
      /\ pc' = [pc EXCEPT ![t] = After(pc[t])] /\ job' = job
  BY DEF IInv, TypeOK, Placed, add_filter, Within, Goes, After, Adding, AddingCow
<1>5. f \in FilterSet
  BY <1>4 DEF FilterSet, Filter, FlagOf
<1>6. f.path = u
  BY DEF Filter
<1>7. \A s \in Threads \ {t} : Added(s)' = Added(s) /\ Constructed(s)' = Constructed(s)
  BY <1>4 DEF IInv, TypeOK, Added, Constructed
<1>8. \A x \in Uri : /\ IsFiniteSet(LocksConstructed(x))
                     /\ Cardinality(LocksConstructed(x)) \in Nat /\ Cardinality(LocksAdded(x)) \in Nat
  BY <1>3, FewerConstructed
<1>9. CASE pc[t] \in Adding
  <2>1. filters' = Append(filters, f) /\ cow' = cow
    BY <1>2, <1>9 DEF add_filter, Within, Now, Seen, Lists, Adding, AddingCow
  <2>2. /\ pc[t] \in Kinds /\ pc[t] \notin Added(t)
        /\ Added(t)' = Added(t) \cup {pc[t]} /\ Constructed(t)' = Constructed(t)
    BY <1>4, <1>9, MonitorAssumption DEF IInv, TypeOK, Placed, Threads, Added, Constructed, Kinds, After, Adding, PutPoints, ServerPoints, PollPoints
  <2>3. \A x : /\ LocksConstructed(x)' = LocksConstructed(x)
               /\ LocksAdded(x)' = IF x = u THEN LocksAdded(x) \cup {<<t, pc[t]>>} ELSE LocksAdded(x)
               /\ <<t, pc[t]>> \notin LocksAdded(x)
    BY <1>4, <1>7, <2>2, LockAdded
  <2>4. \A x \in Uri : /\ IsFiniteSet(LocksAdded(x) \cup {<<t, pc[t]>>})
                       /\ Cardinality(LocksAdded(x) \cup {<<t, pc[t]>>}) = Cardinality(LocksAdded(x)) + 1
    BY <1>3, <2>3, FS_AddElement
  <2>5. /\ filters' \in Seq(FilterSet)
        /\ \A x : Filtering(filters', x) = IF u = x THEN Filtering(filters, x) + 1 ELSE Filtering(filters, x)
    BY <1>3, <1>5, <1>6, <2>1, AppendCount
  <2>. HIDE DEF u, f
  <2>. QED  BY <1>3, <2>1, <2>3, <2>4, <2>5 DEF Counted
<1>10. CASE pc[t] \in AddingCow
  <2>1. cow' = Append(cow, f) /\ filters' = filters
    BY <1>2, <1>10 DEF add_filter, Within, Now, Seen, Lists, Adding, AddingCow
  <2>. DEFINE k == CASE pc[t] = "put_cow" -> "put" [] pc[t] = "remove_cow" -> "remove" [] OTHER -> "journal"
  <2>2. /\ k \in Kinds /\ Added(t)' = Added(t) /\ Constructed(t)' = Constructed(t) \cup {k}
    BY <1>4, <1>10, MonitorAssumption DEF IInv, TypeOK, Placed, Threads, Added, Constructed, Kinds, After, AddingCow, PutPoints, ServerPoints, PollPoints
  <2>. HIDE DEF k
  <2>3. \A x : /\ LocksAdded(x)' = LocksAdded(x)
               /\ LocksConstructed(x)' = IF x = u THEN LocksConstructed(x) \cup {<<t, k>>} ELSE LocksConstructed(x)
    BY <1>4, <1>7, <2>2, LockConstructed
  <2>4. \A x \in Uri : /\ Cardinality(LocksConstructed(x) \cup {<<t, k>>}) \in Nat
                       /\ Cardinality(LocksConstructed(x) \cup {<<t, k>>}) <= Cardinality(LocksConstructed(x)) + 1
    <3>. TAKE x \in Uri
    <3>1. Cardinality(LocksConstructed(x) \cup {<<t, k>>})
            = IF <<t, k>> \in LocksConstructed(x) THEN Cardinality(LocksConstructed(x))
                                                  ELSE Cardinality(LocksConstructed(x)) + 1
      BY <1>8, FS_AddElement
    <3>2. Cardinality(LocksConstructed(x)) \in Nat
      BY <1>8
    <3>. QED  BY <3>1, <3>2
  <2>5. /\ cow' \in Seq(FilterSet)
        /\ \A x : /\ Filtering(cow, x) \in Nat
                  /\ Filtering(cow', x) = IF u = x THEN Filtering(cow, x) + 1 ELSE Filtering(cow, x)
    BY <1>3, <1>5, <1>6, <2>1, AppendCount
  <2>. HIDE DEF u, f
  <2>6. \A x \in Uri : Filtering(cow', x) >= Cardinality(LocksConstructed(x)')
    BY <1>3, <1>8, <2>3, <2>4, <2>5
  <2>. QED  BY <1>3, <2>1, <2>3, <2>5, <2>6 DEF Counted
<1>. QED  BY <1>4, <1>9, <1>10

LEMMA RemoveKeeps ==
    ASSUME IInv, NEW t \in Threads, remove_filter(t)
    PROVE  IInv'
<1>1. TypeOK' /\ Placed' /\ Stage' /\ torn' = torn
  BY InList
<1>2. SUFFICES ASSUME ~torn PROVE Counted'
  BY <1>1 DEF IInv, Counted
<1>. DEFINE u == job[t].uri
            k == CASE pc[t] = "put_end" -> "put" [] pc[t] = "remove_end" -> "remove" [] OTHER -> "journal"
            l == <<t, k>>
<1>3. /\ filters \in Seq(FilterSet) /\ cow \in Seq(FilterSet)
      /\ \A x \in Uri : /\ IsFiniteSet(LocksAdded(x))
                        /\ Filtering(filters, x) = Cardinality(LocksAdded(x))
                        /\ Filtering(cow, x) >= Cardinality(LocksConstructed(x))
  BY <1>2 DEF IInv, Counted
<1>4. /\ pc[t] \in Removing /\ u \in Uri
      /\ pc' = [pc EXCEPT ![t] = After(pc[t])] /\ \A s \in Threads \ {t} : job'[s] = job[s]
      /\ After(pc[t]) # "idle" => job' = job
  BY DEF IInv, TypeOK, Placed, remove_filter, Within, Goes, Removing
<1>5. filters' = Erased(filters, u) /\ cow' = cow
  BY <1>2, <1>4 DEF remove_filter, Now, Seen, Lists, Removing
<1>6. \A s \in Threads \ {t} : Added(s)' = Added(s) /\ Constructed(s)' = Constructed(s)
  BY <1>4 DEF IInv, TypeOK, Added, Constructed
<1>7. /\ k \in Kinds /\ k \in Constructed(t)
      /\ Added(t)' = Added(t) \ {k} /\ Constructed(t)' = Constructed(t) \ {k}
      /\ After(pc[t]) = "idle" => Added(t)' = {}
  BY <1>4, MonitorAssumption DEF IInv, TypeOK, Placed, Threads, Added, Constructed, Kinds, After, Removing, PutPoints, ServerPoints, PollPoints
<1>. HIDE DEF k
<1>8. \A x : /\ l \in LocksConstructed(x) <=> x = u
             /\ l \in LocksAdded(x) <=> x = u
             /\ LocksAdded(x)' = LocksAdded(x) \ {l}
             /\ LocksConstructed(x)' = LocksConstructed(x) \ {l}
  BY <1>4, <1>6, <1>7, LockDestroyed
<1>. HIDE DEF l, u
<1>9. \A x \in Uri : /\ IsFiniteSet(LocksConstructed(x))
                     /\ Cardinality(LocksConstructed(x)) \in Nat /\ Cardinality(LocksAdded(x)) \in Nat
  BY <1>3, FewerConstructed
<1>10. \A x \in Uri :
         /\ IsFiniteSet(LocksAdded(x)')
         /\ Cardinality(LocksAdded(x)') = IF x = u THEN Cardinality(LocksAdded(x)) - 1 ELSE Cardinality(LocksAdded(x))
         /\ Cardinality(LocksConstructed(x)') \in Nat
         /\ Cardinality(LocksConstructed(x)') <= Cardinality(LocksConstructed(x))
  <2>. TAKE x \in Uri
  <2>1. /\ IsFiniteSet(LocksAdded(x) \ {l})
        /\ Cardinality(LocksAdded(x) \ {l}) = IF l \in LocksAdded(x) THEN Cardinality(LocksAdded(x)) - 1 ELSE Cardinality(LocksAdded(x))
    BY <1>3, FS_RemoveElement
  <2>2. /\ IsFiniteSet(LocksConstructed(x) \ {l})
        /\ Cardinality(LocksConstructed(x) \ {l})
             = IF l \in LocksConstructed(x) THEN Cardinality(LocksConstructed(x)) - 1 ELSE Cardinality(LocksConstructed(x))
    BY <1>9, FS_RemoveElement
  <2>3. Cardinality(LocksConstructed(x) \ {l}) \in Nat
    BY <2>2, FS_CardinalityType
  <2>4. LocksAdded(x)' = LocksAdded(x) \ {l} /\ LocksConstructed(x)' = LocksConstructed(x) \ {l}
    BY <1>8
  <2>5. l \in LocksAdded(x) <=> x = u
    BY <1>8
  <2>6. Cardinality(LocksConstructed(x)) \in Nat
    BY <1>9
  <2>7. Cardinality(LocksConstructed(x) \ {l}) <= Cardinality(LocksConstructed(x))
    BY <2>2, <2>6
  <2>. QED  BY <2>1, <2>3, <2>4, <2>5, <2>7, Zenon
<1>11. Filtering(filters, u) >= 1
  <2>1. u \in Uri /\ l \in LocksAdded(u)
    BY <1>4, <1>8
  <2>2. Cardinality(LocksAdded(u)) # 0
    BY <1>3, <2>1, FS_EmptySet
  <2>. QED  BY <1>3, <1>9, <2>1, <2>2
<1>12. /\ filters' \in Seq(FilterSet)
       /\ \A x : Filtering(filters', x) = IF x = u THEN Filtering(filters, x) - 1 ELSE Filtering(filters, x)
  BY <1>3, <1>4, <1>5, <1>11, ErasedCount
<1>13. \A x \in Uri : /\ Filtering(filters', x) = Cardinality(LocksAdded(x)')
                      /\ Filtering(cow', x) >= Cardinality(LocksConstructed(x)')
  <2>. TAKE x \in Uri
  <2>1. Filtering(cow, x) \in Nat
    <3>1. Filter(x, None) \in FilterSet
      BY DEF Filter, FilterSet
    <3>. QED  BY <1>3, <3>1, AppendCount
  <2>. QED  BY <1>3, <1>5, <1>9, <1>10, <1>12, <2>1
<1>. QED  BY <1>3, <1>5, <1>10, <1>12, <1>13 DEF Counted

LEMMA CopyKeeps ==
    ASSUME IInv, copy
    PROVE  IInv'
<1>0. "poll" \in Threads
  BY DEF Threads
<1>1. TypeOK' /\ Placed' /\ Stage' /\ torn' = torn
  BY <1>0, InList
<1>2. SUFFICES ASSUME ~torn PROVE Counted'
  BY <1>1 DEF IInv, Counted
<1>3. /\ filters \in Seq(FilterSet) /\ cow \in Seq(FilterSet)
      /\ \A x \in Uri : /\ IsFiniteSet(LocksAdded(x))
                        /\ Filtering(filters, x) = Cardinality(LocksAdded(x))
  BY <1>2 DEF IInv, Counted
<1>4. filters' = filters /\ cow' = Copied(cow, filters)
  BY <1>2 DEF copy, Within, Now, Seen, Lists
<1>5. \A s \in Threads :
         \/ Added(s) = {} /\ Added(s)' = {}
         \/ /\ Added(s)' = Added(s) /\ Constructed(s)' = Constructed(s)
            /\ job'[s].uri = job[s].uri
  BY DEF IInv, TypeOK, copy, Within, Goes, Added, Constructed
<1>6. \A x : LocksAdded(x)' = LocksAdded(x) /\ LocksConstructed(x)' = LocksConstructed(x)
  BY <1>5, SameLocks
<1>7. /\ cow' \in Seq(FilterSet) /\ \A x : Filtering(cow', x) = Filtering(filters, x)
  BY <1>3, <1>4, CopiedCount
<1>8. \A x \in Uri : Cardinality(LocksConstructed(x)) <= Cardinality(LocksAdded(x))
                       /\ Cardinality(LocksConstructed(x)) \in Nat /\ Cardinality(LocksAdded(x)) \in Nat
  BY <1>3, FewerConstructed
<1>. QED  BY <1>3, <1>4, <1>6, <1>7, <1>8 DEF Counted

LEMMA ProcessKeeps ==
    ASSUME IInv, process
    PROVE  IInv'
<1>1. /\ UNCHANGED <<data, hash, away, journal, open, ok, skipped, raced, torn, filters, cow>>
      /\ pc["poll"] = "filter" /\ Goes("poll", "copy")
  BY DEF process, Within, Leaves, files, puts
<1>2. queue' \subseteq Uri
  BY DEF process, Handled
<1>3. TypeOK'
  BY <1>1, <1>2 DEF IInv, TypeOK, Goes, PollPoints
<1>4. Placed'
  BY <1>1, MonitorAssumption DEF IInv, TypeOK, Placed, Goes, Threads, PutPoints, PollPoints
<1>5. Stage'
  BY <1>1 DEF IInv, TypeOK, Stage, Goes, Threads, PutPoints
<1>6. \A s \in Threads :
         \/ Added(s) = {} /\ Added(s)' = {}
         \/ /\ Added(s)' = Added(s) /\ Constructed(s)' = Constructed(s)
            /\ job'[s].uri = job[s].uri
  BY <1>1 DEF IInv, TypeOK, Goes, Added, Constructed
<1>7. Counted'
  BY <1>1, <1>6, CountedSame DEF IInv
<1>. QED  BY <1>3, <1>4, <1>5, <1>7 DEF IInv

-----------------------------------------------------------------------------
LEMMA ServesKeeps ==
    ASSUME IInv, NEW t \in Threads, Serves(t)
    PROVE  IInv'
BY BeginKeeps, AddKeeps, RemoveKeeps, CreateKeeps, TruncateKeeps, WriteKeeps, RecordKeeps,
   DelKeeps, UnlinkKeeps DEF Serves

LEMMA Inductive ==
    ASSUME IInv, [Next]_vars
    PROVE  IInv'
<1>1. CASE Polls
  <2>1. "poll" \in Threads
    BY DEF Threads
  <2>. QED  BY <1>1, <2>1, ServesKeeps, ScanKeeps, ProcessKeeps, CopyKeeps, TakeKeeps,
               ShiftKeeps, ReadKeeps, SendKeeps, SettleKeeps DEF Polls
<1>2. CASE \E t \in Server : Serves(t)
  BY <1>2, ServesKeeps DEF Threads
<1>3. CASE \E u \in Uri, c \in Content \cup {None} : Edit(u, c)
  BY <1>3, EditKeeps
<1>4. CASE \E t \in Server, u \in Uri :
             Call(t, "del", u, None) \/ \E c \in Content : Call(t, "put", u, c)
  <2>1. PICK t \in Server, u \in Uri :
           Call(t, "del", u, None) \/ \E c \in Content : Call(t, "put", u, c)
    BY <1>4
  <2>2. CASE Call(t, "del", u, None)
    BY <2>2, CallKeeps
  <2>3. ASSUME NEW c \in Content, Call(t, "put", u, c) PROVE IInv'
    BY <2>3, CallKeeps
  <2>. QED  BY <2>1, <2>2, <2>3
<1>5. CASE UNCHANGED vars
  <2>1. UNCHANGED <<data, hash, away, journal, open, filters, cow, torn, queue, pc, job, ok, skipped, raced>>
    BY <1>5 DEF vars, files, lists, scans, steps, puts
  <2>2. TypeOK' /\ Placed' /\ Stage'
    BY <2>1 DEF IInv, TypeOK, Placed, Stage
  <2>3. \A s \in Threads : /\ Added(s)' = Added(s) /\ Constructed(s)' = Constructed(s)
                           /\ job'[s].uri = job[s].uri
    BY <2>1 DEF Added, Constructed
  <2>4. Counted'
    BY <2>1, <2>3, CountedSame DEF IInv
  <2>. QED  BY <2>2, <2>4 DEF IInv
<1>. QED  BY <1>1, <1>2, <1>3, <1>4, <1>5 DEF Next

LEMMA Initially == Init => IInv
<1>. SUFFICES ASSUME Init PROVE IInv
  OBVIOUS
<1>1. TypeOK /\ Placed /\ Stage
  BY MonitorAssumption DEF Init, Job, TypeOK, Placed, Stage, File, Threads, PutPoints, ServerPoints, PollPoints
<1>2. \A x : LocksAdded(x) = {} /\ LocksConstructed(x) = {}
  <2>1. \A t \in Threads : Added(t) = {} /\ Constructed(t) = {}
    BY DEF Init, Added, Constructed
  <2>. QED  BY <2>1 DEF LocksAdded, LocksConstructed
<1>3. \A x : Positions(filters, x) = {} /\ Positions(cow, x) = {}
  BY DEF Init, Positions
<1>4. filters \in Seq(FilterSet) /\ cow \in Seq(FilterSet)
  BY DEF Init
<1>5. IsFiniteSet({}) /\ Cardinality({}) = 0
  BY FS_EmptySet
<1>6. \A x : /\ Filtering(filters, x) = 0 /\ Filtering(cow, x) = 0
             /\ IsFiniteSet(LocksAdded(x)) /\ Cardinality(LocksAdded(x)) = 0
             /\ Cardinality(LocksConstructed(x)) = 0
  BY <1>2, <1>3, <1>5, Zenon DEF Filtering
<1>7. Counted
  BY <1>4, <1>6 DEF Counted
<1>. QED  BY <1>1, <1>7 DEF IInv

THEOREM Invariance == Spec => []IInv
<1>1. IInv /\ [Next]_vars => IInv'
  BY Inductive
<1>. QED  BY <1>1, Initially, PTL DEF Spec

(* While no two accesses to the lists of filters have overlapped, a path   *)
(* has as many filters as locks, and none is missing where process() looks *)
(* (monitor::add_filter, remove_filter, process): however the calls of     *)
(* server threads and poll thread interleave.                              *)
THEOREM ShieldedHolds == Spec => []Shielded
<1>1. IInv => Shielded
  BY DEF IInv, Counted, Shielded
<1>. QED  BY <1>1, Invariance, PTL

(* What put_file_journal removes from the journal, and nobody else wrote   *)
(* meanwhile, is in the ring if data was sent, and else comes back empty.  *)
THEOREM SuccessfullyPutHolds == Spec => SuccessfullyPut
<1>. DEFINE Stored ==
       \A u \in Uri :
          journal[u] # None /\ journal'[u] = None /\ ~raced
            => Held(u) = IF skipped THEN Blank ELSE journal[u]
<1>1. IInv /\ [Next]_vars => [Stored]_vars
  <2>. SUFFICES ASSUME IInv, Next, NEW u \in Uri, journal[u] # None, journal'[u] = None, ~raced
                PROVE  Held(u) = IF skipped THEN Blank ELSE journal[u]
    BY DEF vars
  <2>1. CASE settle
    <3>1. u = job["poll"].uri /\ ok /\ pc["poll"] = "settle"
      BY <2>1 DEF IInv, TypeOK, settle, At
    <3>. QED  BY <3>1 DEF IInv, Stage, Held
  <2>2. CASE shift
    BY <2>2 DEF IInv, TypeOK, shift, files
  <2>3. CASE \E t \in Threads : write(t)
    BY <2>3, MonitorAssumption DEF IInv, TypeOK, Placed, PutPoints, write, At
  <2>4. CASE UNCHANGED journal
    BY <2>4
  <2>5. \/ settle \/ shift \/ (\E t \in Threads : write(t)) \/ UNCHANGED journal
    BY DEF Next, Polls, Serves, Threads, begin, add_filter, remove_filter, create, truncate, record, del,
           unlink, put_file_journal, read, send, scan, process, copy, Edit, Call, files
  <2>. QED  BY <2>1, <2>2, <2>3, <2>4, <2>5
<1>. QED  BY <1>1, Invariance, PTL DEF Spec, SuccessfullyPut

=============================================================================
