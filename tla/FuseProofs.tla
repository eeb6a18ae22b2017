----------------------------- MODULE FuseProofs -----------------------------
(***************************************************************************)
(* The invariants of FuseAdapter, for every number of files and handles,   *)
(* however many calls fail, peers write and crashes happen.                *)
(***************************************************************************)
EXTENDS FuseAdapter, FiniteSetTheorems, TLAPS

TypeOK ==
    /\ store \in [Uri -> Content \cup {None, Blank}]
    /\ journal \in [Uri -> Inode \cup {None}]
    /\ content \in [Inode -> Content \cup {Blank}]
    /\ handle \in [Handle -> OpenFile \cup {None}]
    /\ latest \in [Uri -> Content \cup {None, Blank}]
    /\ spoiled \subseteq Uri

(* A journal file has one name, and a handle that has it open knows it by  *)
(* that name.                                                              *)
OneName ==
    /\ \A u, v \in Uri : journal[u] # None /\ journal[u] = journal[v] => u = v
    /\ \A h \in Open, u \in Uri : handle[h].inode = journal[u] => handle[h].uri = u

(* A file that was renamed while it was open is spoiled until it is        *)
(* renamed or removed when nobody has it open.                             *)
MovedSpoiled == \A h \in Open : handle[h].moved => handle[h].uri \in spoiled

(* An open file has in the journal what was written to it last ...         *)
OpenLatest ==
    \A h \in Open : handle[h].uri \notin spoiled =>
        /\ journal[handle[h].uri] = handle[h].inode
        /\ content[handle[h].inode] = latest[handle[h].uri]

(* ... and a closed one in the ring, and the journal has nothing else.     *)
ClosedLatest ==
    \A u \in Uri \ spoiled : OpenAt(u) = {} =>
        /\ store[u] = latest[u]
        /\ journal[u] # None => content[journal[u]] = store[u]

(* What a step needs of the files that are open it has from OpenLatest     *)
(* when it closes one, and from ClosedLatest when it opens one; OneName    *)
(* keeps a write to one file away from the others.                         *)
IInv == TypeOK /\ OneName /\ MovedSpoiled /\ OpenLatest /\ ClosedLatest

-----------------------------------------------------------------------------
(* A handle that is opened is open.                                        *)
LEMMA OpenedIsOpen ==
    ASSUME NEW u \in Uri, NEW i \in Inode
    PROVE  [uri |-> u, inode |-> i, moved |-> FALSE] # None
<1>1. [uri |-> u, inode |-> i, moved |-> FALSE] \in OpenFile
  BY DEF OpenFile
<1> QED
  BY <1>1, FuseAdapterAssumption

(* A function does not have more values than arguments.                    *)
LEMMA ImageBound ==
    ASSUME NEW S, IsFiniteSet(S), NEW f
    PROVE  /\ IsFiniteSet({f[x] : x \in S})
           /\ Cardinality({f[x] : x \in S}) <= Cardinality(S)
<1> DEFINE T == {f[x] : x \in S}
           g == [x \in S |-> f[x]]
<1>1. g \in Surjection(S, T)
  BY DEF Surjection
<1> QED
  BY <1>1, FS_Surjection

(* There is a journal file that is neither named nor open: `Fresh' is one. *)
LEMMA FreshExists ==
    ASSUME TypeOK
    PROVE  /\ Fresh \in Inode
           /\ \A u \in Uri : journal[u] # Fresh
           /\ \A h \in Open : handle[h].inode # Fresh
<1> DEFINE named == {journal[u] : u \in Uri}
           file == [h \in Open |-> handle[h].inode]
           opened == {file[h] : h \in Open}
<1>1. IsFiniteSet(named) /\ Cardinality(named) <= Cardinality(Uri)
  BY FuseAdapterAssumption, ImageBound
<1>2. IsFiniteSet(Open) /\ Cardinality(Open) <= Cardinality(Handle)
  BY FuseAdapterAssumption, FS_Subset DEF Open
<1>3. IsFiniteSet(opened) /\ Cardinality(opened) <= Cardinality(Open)
  <2> HIDE DEF file
  <2> QED  BY <1>2, ImageBound
<1>4. PICK i \in Inode : i \notin named \cup opened
  <2> SUFFICES ASSUME Inode \subseteq named \cup opened  PROVE FALSE
    OBVIOUS
  <2> HIDE DEF named, opened
  <2>1. /\ IsFiniteSet(named \cup opened)
        /\ Cardinality(named \cup opened)
             = Cardinality(named) + Cardinality(opened) - Cardinality(named \cap opened)
    BY <1>1, <1>3, FS_Union
  <2>2. IsFiniteSet(named \cap opened)
    BY <1>1, FS_Subset
  <2>3. Cardinality(Inode) <= Cardinality(named \cup opened)
    BY <2>1, FS_Subset
  <2>4. /\ Cardinality(named) \in Nat /\ Cardinality(opened) \in Nat
        /\ Cardinality(named \cap opened) \in Nat /\ Cardinality(Inode) \in Nat
        /\ Cardinality(Uri) \in Nat /\ Cardinality(Handle) \in Nat
        /\ Cardinality(Open) \in Nat
    BY <1>1, <1>2, <1>3, <2>2, FuseAdapterAssumption, FS_CardinalityType
  <2> QED
    BY <1>1, <1>2, <1>3, <2>1, <2>3, <2>4, FuseAdapterAssumption
<1>5. /\ \A u \in Uri : journal[u] # i
      /\ \A h \in Open : handle[h].inode # i
  BY <1>4
<1> QED
  BY <1>5 DEF Fresh

-----------------------------------------------------------------------------
(* One lemma per call: each keeps every part of the invariant.             *)
LEMMA CreateKeeps ==
    ASSUME IInv, NEW h \in Handle, NEW u \in Uri, NEW trunc \in BOOLEAN, create(h, u, trunc)
    PROVE  IInv'
<1> USE FuseAdapterAssumption, FreshExists DEF IInv, Open, OpenAt, OpenFile, create, Put, Outcome
<1>1. TypeOK'
  BY DEF TypeOK
<1>2. OneName'
  BY DEF TypeOK, OneName
<1>3. MovedSpoiled'
  BY DEF TypeOK, MovedSpoiled
<1>4. OpenLatest'
  BY DEF TypeOK, OneName, MovedSpoiled, OpenLatest, ClosedLatest
<1>5. ClosedLatest'
  BY DEF TypeOK, OneName, MovedSpoiled, OpenLatest, ClosedLatest
<1> QED
  BY <1>1, <1>2, <1>3, <1>4, <1>5

(* open() adds a handle on the journal file, fetched from the ring        *)
(* when the journal has none.                                              *)
LEMMA OpenKeeps ==
    ASSUME IInv, NEW h \in Handle, NEW u \in Uri, NEW trunc \in BOOLEAN, open(h, u, trunc)
    PROVE  IInv'
<1> USE FuseAdapterAssumption DEF IInv, Open, OpenAt, OpenFile
<1>1. CASE journal[u] # None
  <2>1. PICK i \in Inode : i = journal[u]
    BY <1>1 DEF TypeOK
  <2>2. /\ handle[h] = None
        /\ handle' = [handle EXCEPT ![h] = [uri |-> u, inode |-> i, moved |-> FALSE]]
        /\ content' = IF trunc THEN [content EXCEPT ![i] = Blank] ELSE content
        /\ latest' = IF trunc THEN [latest EXCEPT ![u] = Blank] ELSE latest
        /\ journal' = journal /\ spoiled' = spoiled /\ store' = store
    BY <1>1, <2>1 DEF open
  <2> USE <2>1, <2>2
  <2>3. TypeOK'
    BY DEF TypeOK
  <2>4. OneName'
    BY DEF TypeOK, OneName
  <2>5. MovedSpoiled'
    BY DEF TypeOK, MovedSpoiled
  <2>6. OpenLatest'
    BY DEF TypeOK, OneName, OpenLatest, ClosedLatest
  <2>7. ClosedLatest'
    <3>1. handle'[h] # None /\ handle'[h].uri = u
      BY OpenedIsOpen DEF TypeOK
    <3>2. \A k \in Handle : handle[k] # None => handle'[k] = handle[k]
      BY DEF TypeOK
    <3>3. \A v \in Uri : OpenAt(v)' = {} => OpenAt(v) = {} /\ v # u
      BY <3>1, <3>2
    <3> HIDE DEF OpenAt
    <3> QED
      BY <3>3 DEF TypeOK, OneName, ClosedLatest
  <2> QED
    BY <2>3, <2>4, <2>5, <2>6, <2>7
<1>2. CASE journal[u] = None
  <2>1. PICK ok \in BOOLEAN :
           /\ get(u, Fresh, ok, trunc)
           /\ latest' = IF ok /\ trunc THEN [latest EXCEPT ![u] = Blank] ELSE latest
           /\ handle' = IF ok THEN [handle EXCEPT ![h] = [uri |-> u, inode |-> Fresh, moved |-> FALSE]]
                        ELSE handle
    BY <1>2 DEF open
  <2>2. store[u] # None /\ handle[h] = None /\ store' = store
    BY DEF open
  <2>3. PICK i \in Inode : /\ i = Fresh
                           /\ \A v \in Uri : journal[v] # i
                           /\ \A k \in Open : handle[k].inode # i
    BY FreshExists
  <2>4. CASE ok
    <3>1. /\ journal' = [journal EXCEPT ![u] = i]
          /\ content' = [content EXCEPT ![i] = IF trunc THEN Blank ELSE store[u]]
          /\ handle' = [handle EXCEPT ![h] = [uri |-> u, inode |-> i, moved |-> FALSE]]
          /\ latest' = IF trunc THEN [latest EXCEPT ![u] = Blank] ELSE latest
          /\ spoiled' = spoiled
      BY <2>1, <2>3, <2>4 DEF get, Outcome
    <3> USE <1>2, <2>2, <2>3, <3>1
    <3>2. TypeOK'
      BY DEF TypeOK
    <3>3. OneName'
      BY DEF TypeOK, OneName
    <3>4. MovedSpoiled'
      BY DEF TypeOK, MovedSpoiled
    <3>5. OpenLatest'
      BY DEF TypeOK, OneName, OpenLatest, ClosedLatest
    <3>6. ClosedLatest'
      <4>1. handle'[h] # None /\ handle'[h].uri = u
        BY OpenedIsOpen DEF TypeOK
      <4>2. \A k \in Handle : handle[k] # None => handle'[k] = handle[k]
        BY DEF TypeOK
      <4>3. \A v \in Uri : OpenAt(v)' = {} => OpenAt(v) = {} /\ v # u
        BY <4>1, <4>2
      <4> HIDE DEF OpenAt
      <4> QED
        BY <4>3 DEF TypeOK, OneName, ClosedLatest
    <3> QED
      BY <3>2, <3>3, <3>4, <3>5, <3>6
  <2>5. CASE ~ok
    <3>1. /\ journal' \in {journal, [journal EXCEPT ![u] = i]}
          /\ content' = [content EXCEPT ![i] = Blank]
          /\ handle' = handle
          /\ latest' = latest
          /\ spoiled' = spoiled \cup {u}
      BY <2>1, <2>3, <2>5 DEF get, Outcome
    <3> USE <1>2, <2>2, <2>3, <3>1
    <3>2. TypeOK'
      BY DEF TypeOK
    <3>3. OneName' /\ MovedSpoiled'
      BY DEF TypeOK, OneName, MovedSpoiled
    <3>4. OpenLatest'
      BY DEF TypeOK, OneName, OpenLatest
    <3>5. ClosedLatest'
      BY DEF TypeOK, OneName, ClosedLatest
    <3> QED
      BY <3>2, <3>3, <3>4, <3>5
  <2> QED
    BY <2>4, <2>5
<1> QED
  BY <1>1, <1>2

(* A write is the latest, and every handle of the file sees it: they share *)
(* the journal file.                                                       *)
LEMMA WriteKeeps ==
    ASSUME IInv, NEW h \in Handle, NEW c \in Content \cup {Blank}, write(h, c)
    PROVE  IInv'
<1> USE FuseAdapterAssumption DEF IInv, Open, OpenAt, OpenFile, write
<1>1. TypeOK'
  BY DEF TypeOK
<1>2. OneName'
  BY DEF TypeOK, OneName
<1>3. MovedSpoiled'
  BY DEF TypeOK, MovedSpoiled
<1>4. OpenLatest'
  BY DEF TypeOK, OneName, MovedSpoiled, OpenLatest, ClosedLatest
<1>5. ClosedLatest'
  BY DEF TypeOK, OneName, MovedSpoiled, OpenLatest, ClosedLatest
<1> QED
  BY <1>1, <1>2, <1>3, <1>4, <1>5

(* flush() puts what the journal has under the handle's name.              *)
LEMMA FlushKeeps ==
    ASSUME IInv, NEW h \in Handle, flush(h)
    PROVE  IInv'
<1> USE FuseAdapterAssumption DEF IInv, Open, OpenAt, OpenFile, flush, Put, Outcome
<1>1. TypeOK'
  BY DEF TypeOK
<1>2. OneName'
  BY DEF TypeOK, OneName
<1>3. MovedSpoiled'
  BY DEF TypeOK, MovedSpoiled
<1>4. OpenLatest'
  BY DEF TypeOK, OneName, MovedSpoiled, OpenLatest, ClosedLatest
<1>5. ClosedLatest'
  BY DEF TypeOK, OneName, MovedSpoiled, OpenLatest, ClosedLatest
<1> QED
  BY <1>1, <1>2, <1>3, <1>4, <1>5

(* release() puts once more and lets go of the handle.                     *)
LEMMA ReleaseKeeps ==
    ASSUME IInv, NEW h \in Handle, release(h)
    PROVE  IInv'
<1> USE FuseAdapterAssumption DEF IInv, Open, OpenAt, OpenFile, release, Put, Outcome, clean_journal, CleanAfter
<1>1. TypeOK'
  BY DEF TypeOK
<1>2. OneName'
  BY DEF TypeOK, OneName
<1>3. MovedSpoiled'
  BY DEF TypeOK, MovedSpoiled
<1>4. OpenLatest'
  BY DEF TypeOK, OneName, MovedSpoiled, OpenLatest, ClosedLatest
<1>5. ClosedLatest'
  BY DEF TypeOK, OneName, MovedSpoiled, OpenLatest, ClosedLatest
<1> QED
  BY <1>1, <1>2, <1>3, <1>4, <1>5

(* A rename moves the journal file; whoever has it open keeps a handle     *)
(* under the old name, which counts as spoiled.                            *)
LEMMA RenameKeeps ==
    ASSUME IInv, NEW src \in Uri, NEW dst \in Uri, rename(src, dst)
    PROVE  IInv'
<1> USE FuseAdapterAssumption DEF IInv
<1>1. src # dst /\ OpenAt(dst) = {} /\ UNCHANGED content
  BY DEF rename
<1>2. CASE Outcome(FALSE, {src, dst}) /\ UNCHANGED <<journal, handle, latest>>
           /\ store' \in {store, [store EXCEPT ![dst] = store[src], ![src] = None]}
  <2>1. spoiled' = spoiled \cup {src, dst}
    BY <1>2 DEF Outcome
  <2>2. /\ store' \in [Uri -> Content \cup {None, Blank}]
        /\ \A u \in Uri \ {src, dst} : store'[u] = store[u]
    BY <1>2 DEF TypeOK
  <2> QED
    BY <1>1, <1>2, <2>1, <2>2
       DEF TypeOK, OneName, MovedSpoiled, OpenLatest, ClosedLatest, Open, OpenAt
<1>3. CASE /\ store' = [store EXCEPT ![dst] = store[src], ![src] = None]
           /\ clean_journal(Cleans(src, dst))
           /\ handle' = [h \in Handle |->
                IF h \in OpenAt(src) THEN [handle[h] EXCEPT !.uri = dst, !.moved = TRUE]
                ELSE handle[h]]
           /\ latest' = [latest EXCEPT ![dst] = latest[src], ![src] = None]
           /\ spoiled' = (spoiled \ {src, dst}) \cup
                           (IF OpenAt(src) # {} \/ src \in spoiled THEN {dst} ELSE {})
  <2>1. /\ store' \in [Uri -> Content \cup {None, Blank}]
        /\ latest' \in [Uri -> Content \cup {None, Blank}]
        /\ store'[src] = None /\ latest'[src] = None
        /\ store'[dst] = store[src] /\ latest'[dst] = latest[src]
        /\ \A u \in Uri \ {src, dst} : store'[u] = store[u] /\ latest'[u] = latest[u]
    BY <1>1, <1>3 DEF TypeOK
  <2>2. /\ journal' \in [Uri -> Inode \cup {None}]
        /\ journal'[src] = None /\ journal'[dst] = None
        /\ \A u \in Uri \ {src, dst} : journal'[u] = journal[u]
    BY <1>1, <1>3 DEF TypeOK, clean_journal, Cleans
  <2>3. /\ handle' \in [Handle -> OpenFile \cup {None}]
        /\ \A h \in Handle :
              handle[h] # None => /\ handle'[h].inode = handle[h].inode
                                  /\ handle[h].uri # src => handle'[h] = handle[h]
                                  /\ handle[h].uri = src => handle'[h].uri = dst
        /\ \A h \in Handle : handle[h] = None <=> handle'[h] = None
    BY <1>3 DEF TypeOK, Open, OpenAt, OpenFile
  <2>4. spoiled' \subseteq Uri /\ src \notin spoiled'
        /\ (dst \notin spoiled' => OpenAt(src) = {} /\ src \notin spoiled)
        /\ \A u \in Uri \ {src, dst} : u \in spoiled' <=> u \in spoiled
    BY <1>1, <1>3 DEF TypeOK
  <2>5. \A h \in Handle :
          handle[h] # None => /\ handle[h] \in OpenFile
                              /\ handle[h].uri # dst
                              /\ dst \notin spoiled' => handle[h].uri # src
    BY <1>1, <2>4 DEF TypeOK, Open, OpenAt
  <2>6. TypeOK'
    BY <1>1, <2>1, <2>2, <2>3, <2>4 DEF TypeOK
  <2>7. OneName'
    BY <1>1, <2>2, <2>3, <2>5 DEF TypeOK, OneName, Open, OpenFile
  <2>8. MovedSpoiled'
    BY <2>3, <2>4, <2>5 DEF MovedSpoiled, Open, OpenFile
  <2>9. OpenLatest'
    BY <1>1, <2>1, <2>2, <2>3, <2>4, <2>5 DEF TypeOK, OpenLatest, Open, OpenFile
  <2>10. ClosedLatest'
    <3> SUFFICES ASSUME NEW u \in Uri, u \notin spoiled', OpenAt(u)' = {}
                 PROVE  store'[u] = latest'[u] /\ (journal'[u] # None => content'[journal'[u]] = store'[u])
      BY DEF ClosedLatest
    <3>1. CASE u = src
      BY <3>1, <2>1, <2>2
    <3>2. CASE u = dst
      BY <3>2, <2>1, <2>2, <2>4 DEF ClosedLatest
    <3>3. CASE u \notin {src, dst}
      <4>1. OpenAt(u) = {}
        BY <3>3, <2>3 DEF Open, OpenAt
      <4> QED
        BY <3>3, <4>1, <1>1, <2>1, <2>2, <2>4 DEF ClosedLatest
    <3> QED
      BY <3>1, <3>2, <3>3
  <2> QED
    BY <2>6, <2>7, <2>8, <2>9, <2>10
<1> QED
  BY <1>2, <1>3 DEF rename

(* unlink() deletes a file that nobody has open from the ring and the      *)
(* journal.                                                                *)
LEMMA UnlinkKeeps ==
    ASSUME IInv, NEW u \in Uri, unlink(u)
    PROVE  IInv'
<1> USE FuseAdapterAssumption DEF IInv, Open, OpenAt, OpenFile, unlink, Outcome, clean_journal
<1>1. TypeOK'
  BY DEF TypeOK
<1>2. OneName'
  BY DEF TypeOK, OneName
<1>3. MovedSpoiled'
  BY DEF TypeOK, MovedSpoiled
<1>4. OpenLatest'
  BY DEF TypeOK, OneName, MovedSpoiled, OpenLatest, ClosedLatest
<1>5. ClosedLatest'
  BY DEF TypeOK, OneName, MovedSpoiled, OpenLatest, ClosedLatest
<1> QED
  BY <1>1, <1>2, <1>3, <1>4, <1>5

(* What another peer puts spoils a file that is in the journal.            *)
LEMMA ForeignKeeps ==
    ASSUME IInv, NEW u \in Uri, NEW c \in Content \cup {None}, Foreign(u, c)
    PROVE  IInv'
<1> USE FuseAdapterAssumption DEF IInv, Open, OpenAt, OpenFile, Foreign
<1>1. TypeOK'
  BY DEF TypeOK
<1>2. OneName'
  BY DEF TypeOK, OneName
<1>3. MovedSpoiled'
  BY DEF TypeOK, MovedSpoiled
<1>4. OpenLatest'
  BY DEF TypeOK, OneName, MovedSpoiled, OpenLatest, ClosedLatest
<1>5. ClosedLatest'
  BY DEF TypeOK, OneName, MovedSpoiled, OpenLatest, ClosedLatest
<1> QED
  BY <1>1, <1>2, <1>3, <1>4, <1>5

(* A restart closes every handle; the files that were open count as        *)
(* spoiled.                                                                *)
LEMMA RestartKeeps ==
    ASSUME IInv, Restart
    PROVE  IInv'
<1> USE FuseAdapterAssumption DEF IInv, Open, OpenAt, OpenFile, Restart
<1>1. TypeOK'
  BY DEF TypeOK
<1>2. OneName'
  BY DEF TypeOK, OneName
<1>3. MovedSpoiled'
  BY DEF TypeOK, MovedSpoiled
<1>4. OpenLatest'
  BY DEF TypeOK, OneName, MovedSpoiled, OpenLatest, ClosedLatest
<1>5. ClosedLatest'
  BY DEF TypeOK, OneName, MovedSpoiled, OpenLatest, ClosedLatest
<1> QED
  BY <1>1, <1>2, <1>3, <1>4, <1>5

-----------------------------------------------------------------------------
(* Every step keeps the invariant.                                         *)
LEMMA Inductive == IInv /\ [Next]_vars => IInv'
<1> SUFFICES ASSUME IInv, [Next]_vars  PROVE IInv'
  OBVIOUS
<1>1. ASSUME NEW h \in Handle, NEW u \in Uri, NEW trunc \in BOOLEAN, create(h, u, trunc) \/ open(h, u, trunc)
      PROVE  IInv'
  BY <1>1, CreateKeeps, OpenKeeps
<1>2. ASSUME NEW h \in Handle, truncate(h) \/ flush(h) \/ release(h)  PROVE IInv'
  BY <1>2, WriteKeeps, FlushKeeps, ReleaseKeeps DEF truncate
<1>3. ASSUME NEW h \in Handle, NEW c \in Content, write(h, c)  PROVE IInv'
  BY <1>3, WriteKeeps
<1>4. ASSUME NEW u \in Uri, NEW v \in Uri, rename(u, v)  PROVE IInv'
  BY <1>4, RenameKeeps
<1>5. ASSUME NEW u \in Uri, mknod(u) \/ unlink(u)  PROVE IInv'
  <2>1. CASE mknod(u)
    BY <2>1 DEF mknod, IInv, TypeOK, OneName, MovedSpoiled, OpenLatest, ClosedLatest, Open, OpenAt
  <2> QED
    BY <1>5, <2>1, UnlinkKeeps
<1>6. ASSUME NEW u \in Uri, NEW c \in Content \cup {None}, Foreign(u, c)  PROVE IInv'
  BY <1>6, ForeignKeeps
<1>7. CASE Crash
  BY <1>7 DEF Crash, IInv, TypeOK, OneName, MovedSpoiled, OpenLatest, ClosedLatest, Open, OpenAt
<1>8. CASE Restart
  BY <1>8, RestartKeeps
<1>9. CASE UNCHANGED vars
  BY <1>9 DEF vars, IInv, TypeOK, OneName, MovedSpoiled, OpenLatest, ClosedLatest, Open, OpenAt
<1> QED
  BY <1>1, <1>2, <1>3, <1>4, <1>5, <1>6, <1>7, <1>8, <1>9 DEF Next

(* The journal and the handles agree in every state of the mount.          *)
THEOREM Invariance == Spec => []IInv
<1>1. Init => IInv
  BY FuseAdapterAssumption
     DEF Init, IInv, TypeOK, OneName, MovedSpoiled, OpenLatest, ClosedLatest, Open, OpenAt
<1> QED
  BY <1>1, Inductive, PTL DEF Spec

(* flush and release put what was written last, whoever else had the file  *)
(* open.                                                                   *)
THEOREM WritesStoredHolds == Spec => []WritesStored
<1>1. IInv => WritesStored
  BY DEF IInv, ClosedLatest, WritesStored
<1> QED
  BY <1>1, Invariance, PTL

(* A journal file that open() finds is what the ring has.                  *)
THEOREM CoherentHolds == Spec => []Coherent
<1>1. IInv => Coherent
  BY DEF IInv, ClosedLatest, Coherent
<1> QED
  BY <1>1, Invariance, PTL

(* What a handle writes to is what flush() puts.                           *)
THEOREM AttachedHolds == Spec => []Attached
<1>1. IInv => Attached
  BY DEF IInv, OpenLatest, Attached
<1> QED
  BY <1>1, Invariance, PTL
=============================================================================
