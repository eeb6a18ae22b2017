------------------------------ MODULE Metadata ------------------------------
(***************************************************************************)
(* Metadata, Replication and the rules by which MetadataManager merges     *)
(* them (chord.fs.metadata.cc, chord.fs.replication.cc,                    *)
(* chord.fs.metadata.manager.h).                                           *)
(*                                                                         *)
(* A std::set<Metadata> is ordered and unique by name, so it is a function *)
(* from names to the rest of the entry.  Names are integers in the order   *)
(* of the strings: "." and ".." come first, a file or directory is called  *)
(* by the number of its uri.  A database is a function from the uris that  *)
(* have a key to such a set.  Permissions, owners and sizes are left out.  *)
(***************************************************************************)
EXTENDS Integers, FiniteSets

CONSTANT None                  \* an empty std::optional

Dot == -2
DotDot == -1
Root == 0

Dots == {Dot, DotDot}

(***************************************************************************)
(* Replication                                                             *)
(***************************************************************************)
Replication(index, count) == [index |-> index, count |-> count]

NONE == Replication(0, 1)

Increased(r) == [r EXCEPT !.index = @ + 1]         \* operator++

has_next(r) == r.index + 1 < r.count

Replicates(r) == r.index < r.count /\ r.count > 1  \* operator bool

(***************************************************************************)
(* Metadata                                                                *)
(***************************************************************************)
Entry(type, hash, ref, repl) == [type |-> type, hash |-> hash, ref |-> ref, repl |-> repl]

NoMetadata == [n \in {} |-> None]

Single(name, entry) == [n \in {name} |-> entry]

(* `new' inserted into or assigned over `old', name by name.               *)
Assign(new, old) ==
    [n \in DOMAIN new \cup DOMAIN old |-> IF n \in DOMAIN new THEN new[n] ELSE old[n]]

Without(md, names) == [n \in DOMAIN md \ names |-> md[n]]

First(names) == CHOOSE n \in names : \A m \in names : n <= m

begin(md) == md[First(DOMAIN md)]

(* std::max_element by count: of several, the first one.                   *)
max_replication(md) ==
    LET most == {n \in DOMAIN md : \A m \in DOMAIN md : md[m].repl.count <= md[n].repl.count}
    IN  md[First(most)].repl

max_replication_index_zero(md) ==
    LET r == max_replication(md)
    IN  IF Replicates(r) THEN Replication(0, r.count) ELSE r

create_directory(md) == Entry("dir", None, None, max_replication_index_zero(md))

is_directory(md) == \E n \in Dots \cap DOMAIN md : md[n].type = "dir"

is_mkdir(uri, md) == DOMAIN md = {uri} /\ md[uri].type = "dir"

is_empty(md) == Cardinality(DOMAIN md) = 2 /\ is_directory(md)

is_regular_file(md) == \E n \in DOMAIN md : DOMAIN md = {n} /\ md[n].type = "file"

(* `me' is context.node().                                                 *)
is_shallow_copy(md, me) == is_regular_file(md) /\ begin(md).ref \notin {None, me}

is_shallow_copyable(md, me) ==
    /\ is_regular_file(md) /\ max_replication(md) = NONE
    /\ begin(md).ref = None \/ begin(md).ref # me

equal_basic(a, b) ==
    /\ DOMAIN a = DOMAIN b
    /\ \A n \in DOMAIN a : a[n].type = b[n].type /\ a[n].hash = b[n].hash

increase_replication_and_clean(md) ==
    [n \in {m \in DOMAIN md : Replicates(Increased(md[m].repl))} |->
        [md[n] EXCEPT !.repl = Increased(@)]]

(***************************************************************************)
(* MetadataManager.  Every method reads one key, and writes it.            *)
(***************************************************************************)
Current(db, uri) == IF uri \in DOMAIN db THEN db[uri] ELSE NoMetadata

(* Mutant: the entries are written over the ones that are there.           *)
MergedAsIs(current, md) == md

(* __add: "." and ".." are never taken from the caller.                    *)
Merged(current, md) ==
    LET all == Assign(md, current)
        dir == create_directory(md)
    IN  IF Dot \in DOMAIN all
        THEN Assign([n \in Dots |-> dir], all)
        ELSE all

added(db, uri, md) == DOMAIN md \ DOMAIN Current(db, uri) # {}

add(db, uri, md) == Assign(Single(uri, Merged(Current(db, uri), md)), db)

(* del(uri): guarded by "never remove the root", but the parent of the     *)
(* root is the root, not empty.                                            *)
del(db, uri) == Without(db, {uri})

(* del(uri, metadata), without removeIfEmpty, which nobody sets.           *)
del_entries(db, uri, names) == Assign(Single(uri, Without(db[uri], names)), db)

deleted_entries(db, uri, names) == Without(db[uri], DOMAIN db[uri] \ names)

initialize == Single(Root, Merged(NoMetadata, Single(Dot, Entry("dir", None, None, NONE))))

get_replicated(db, min_idx) ==
    LET replicated(md) == {n \in DOMAIN md : /\ md[n].type # "dir"
                                             /\ md[n].repl.count > 1
                                             /\ md[n].repl.index >= min_idx}
    IN  [u \in {v \in DOMAIN db : replicated(db[v]) # {}} |->
            Without(db[u], DOMAIN db[u] \ replicated(db[u]))]
=============================================================================
