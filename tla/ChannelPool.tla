---------------------------- MODULE ChannelPool -----------------------------
(***************************************************************************)
(* chord::ChannelPool (chord.channel.pool.cc): the channels to other       *)
(* peers, in an LRUCache keyed by uuid.  chord::Client and fs::Client of a *)
(* peer share one pool and ask it for a channel before every call.         *)
(*                                                                         *)
(* A node object names a uuid and an endpoint.  A peer that is restarted   *)
(* under another address keeps its uuid (it is configured), so the pool is *)
(* asked for one uuid under several endpoints.                             *)
(***************************************************************************)
EXTENDS LRUCache

CONSTANTS Endpoint

Channel == [to : Endpoint]

ASSUME ChannelPoolAssumption == Value = Channel

(* grpc::CreateChannel.                                                    *)
create_channel(endpoint) == [to |-> endpoint]

pool_put(uuid, endpoint) == put(uuid, create_channel(endpoint))

pool_get(uuid, endpoint) == compute_if_absent(uuid, create_channel(endpoint))

(* The rest of the interface of LRUCache has no caller in the pool but is  *)
(* part of the class, and is tested with it.                               *)
Other(k) == touch(k) \/ get(k) \/ erase(k)

Next ==
    \/ \E u \in Key, e \in Endpoint : pool_put(u, e) \/ pool_get(u, e)
    \/ \E u \in Key : Other(u)
    \/ clear

Spec == CacheInit /\ [][Next]_cache

-----------------------------------------------------------------------------
(* List and map agree: the map leads from every key to the node of that    *)
(* key and from no other, every node is reached, and the cache is not      *)
(* over-full.  A node freed and reused (channel.pool.cc:26) is never       *)
(* reached through an old iterator.                                        *)
Consistent ==
    /\ list \in Seq(Slot) /\ Len(list) <= Capacity
    /\ \A i, j \in DOMAIN list : list[i] = list[j] => i = j
    /\ \A i \in DOMAIN list : entry[list[i]] \in Entry /\ map[entry[list[i]].key] = list[i]
    /\ \A k \in Key : map[k] # None => map[k] \in Nodes /\ entry[map[k]].key = k

(* The pool is a cache that gives up the channel used least recently, and  *)
(* a call gets the channel that is cached for its uuid, whatever endpoint  *)
(* it asks for.                                                            *)
KeyAt(i) == entry[list[i]].key

Abstract == INSTANCE Cache WITH
    value <- [k \in Key |-> IF map[k] = None THEN None ELSE entry[map[k]].value],
    older <- {<<KeyAt(p[2]), KeyAt(p[1])>> :
                 p \in {p \in (DOMAIN list) \X (DOMAIN list) : p[1] < p[2]}},
    answer <- result

ImplementsCache == Abstract!Spec
=============================================================================
