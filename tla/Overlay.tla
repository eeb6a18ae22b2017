------------------------------- MODULE Overlay -------------------------------
(***************************************************************************)
(* The ring protocol: ChordFacade, Client and Service (chord.facade.cc,    *)
(* chord.client.cc, chord.service.cc) of several peers, each with the      *)
(* router of RouterOps.                                                    *)
(*                                                                         *)
(* A peer runs one process per thread of control: "main" starts the node   *)
(* and makes it leave, "stab", "check" and "fix" are the periodic tasks of *)
(* the scheduler.  A remote call is made in one step, handled in another   *)
(* and, when the reply carries data, applied in a third, so that calls of  *)
(* different peers interleave in between.  A handler that itself makes     *)
(* calls (join, successor) takes a step per call.                          *)
(*                                                                         *)
(* A definition marked Mutant is what a slip would make of the one below   *)
(* it; nothing uses it but the runs that show a property notices.          *)
(***************************************************************************)
EXTENDS RouterOps

CONSTANTS Members,      \* uuids of the peers
          Bootstrap,    \* those configured to create a ring
          JoinAddr,     \* whom each of the others is configured to join
          Leavers,      \* those that may be shut down
          Crashers,     \* those that may crash
          Tasks,        \* periodic tasks under study: subset of {"stab", "check", "fix"}
          Runs,         \* how often a periodic task runs: twice, see Scheduler
          MaxChanges,   \* bound on peers that join or leave at the same time
          MaxTimeouts,  \* bound on calls that miss their deadline
          MaxDepth      \* bound on nested forwarded calls

ASSUME OverlayAssumption ==
    /\ Members \subseteq Uuid /\ Bootstrap \subseteq Members
    /\ Members \ Bootstrap \subseteq DOMAIN JoinAddr
    /\ \A u \in DOMAIN JoinAddr : JoinAddr[u] \in Members
    /\ Leavers \subseteq Members /\ Crashers \subseteq Members
    /\ Tasks \subseteq {"stab", "check", "fix"}
    /\ Runs \in Nat /\ MaxChanges \in Nat /\ MaxTimeouts \in Nat /\ MaxDepth \in Nat
    /\ Endpoint = {"adv", "peer", "none"}

VARIABLES status,       \* is the peer's process there?
          router,       \* finger table and predecessor of each peer
          proc,         \* proc[u][k]: where process k of peer u is
          runs,         \* runs[u][k]: how often a periodic task has run
          next,         \* ChordFacade::next, the finger to fix
          timeouts,     \* calls that missed their deadline so far
          announced,    \* history: the predecessor last announced to the file system
          mishaps       \* history: what went wrong so far, see Mishap

vars == <<status, router, proc, runs, next, timeouts, announced, mishaps>>

(* An empty optional was dereferenced, by one of Dereference; fix_fingers  *)
(* removed a peer that is there; a peer was started before the one it is   *)
(* configured to join was in the ring; a peer that created a ring joined   *)
(* another peer, for it was alone when stabilize ran.                      *)
Dereference == {"Service::join", "Service::notify", "ChordFacade::join"}
Mishap == Dereference \cup {"Service::fix_fingers", "ChordFacade::start", "ChordFacade::stabilize"}

(* History: m has happened, if b.                                          *)
Notes(b, m) == mishaps' = mishaps \cup {x \in {m} : b}

Task == {"stab", "check", "fix"}
Kind == {"main"} \cup Task
JoinKind == {"main", "stab"}        \* those that call ChordFacade::join

(* The peer as it advertises itself; a node as it is read from a request   *)
(* by make_node(serverContext, entry), which puts the caller's host in     *)
(* place of the advertised one.                                            *)
Me(u) == [uuid |-> u, endpoint |-> "adv"]
AsSeen(n) == [n EXCEPT !.endpoint = "peer"]

(* What an empty message is read as: uuid 0, which may be a peer's.        *)
Nowhere == [uuid |-> 0, endpoint |-> "none"]

Idle == [pc |-> "idle"]
Serving(v) == v \in Members /\ status[v] = "up"

Ready == [pc |-> "ready"]

(* ChordFacade::create: a bootstrap peer has an empty router.              *)
Init ==
    /\ status = [u \in Members |-> IF u \in Bootstrap THEN "up" ELSE "off"]
    /\ router = [u \in Members |-> EmptyRouter]
    /\ proc = [u \in Members |-> [k \in Kind |->
                  IF k = "main" /\ u \in Bootstrap THEN Ready ELSE Idle]]
    /\ runs = [u \in Members |-> [k \in Task |-> 0]]
    /\ next = [u \in Members |-> 0]
    /\ timeouts = 0
    /\ announced = [u \in Members |-> NoNode]
    /\ mishaps = {}

-----------------------------------------------------------------------------
Pc(u, k) == proc[u][k].pc
Up == {u \in Members : Serving(u)}
Settled == {u \in Up : Pc(u, "main") = "ready"}
JoinPc == {"join", "joined", "notify_pred", "notified_pred", "notify_succ", "join_failed", "garbage"}
Goto(u, k, p) == proc' = [proc EXCEPT ![u][k] = p]
SetRouter(u, r) == router' = [router EXCEPT ![u] = r]

Dies(u) ==
    /\ status' = [status EXCEPT ![u] = "crashed"]
    /\ proc' = [proc EXCEPT ![u] = [k \in Kind |-> Idle]]

(* A call to v is answered, or fails: v is gone or its answer comes after  *)
(* the deadline.                                                           *)
Answers(v) == Serving(v) /\ UNCHANGED timeouts

Fails(v) ==
    \/ ~Serving(v) /\ UNCHANGED timeouts
    \/ Serving(v) /\ timeouts < MaxTimeouts /\ timeouts' = timeouts + 1

(***************************************************************************)
(* Forwarded calls.  A handler that forwards a request tries the nodes of  *)
(* closest_preceding_nodes in turn; `stack' holds, for each such handler,  *)
(* its node and the nodes it has not tried yet.                            *)
(***************************************************************************)
Frame(v, cands) == [at |-> v, rest |-> Tail(cands)]

Push(stack, v, cands) ==
    IF stack # << >> /\ stack[Len(stack)] = Frame(v, cands)
    THEN stack ELSE Append(stack, Frame(v, cands))

(* Where a failed call is tried again: the innermost handler that is still *)
(* there and has a node left.                                              *)
Retries(stack) ==
    {k \in 1 .. Len(stack) : /\ stack[k].rest # << >>
                             /\ \A j \in 1 .. k : Serving(stack[j].at)}

Retry(stack) ==
    LET k == Last(Retries(stack))
    IN  [target |-> Head(stack[k].rest).uuid,
         caller |-> stack[k].at,
         stack  |-> [SubSeq(stack, 1, k) EXCEPT ![k].rest = Tail(@)]]

(* The answer reaches the caller when every handler on its way is there.   *)
Returns(stack) == \A k \in 1 .. Len(stack) : Serving(stack[k].at)

-----------------------------------------------------------------------------
(***************************************************************************)
(* ChordFacade::start: the server already answers when the node joins.     *)
(***************************************************************************)
JoinVia(u) == [pc |-> "join", target |-> JoinAddr[u], stack |-> << >>]

(* A join ends where it was called: in start() or in stabilize().          *)
AfterJoin(k) == IF k = "main" THEN Ready ELSE Idle

(* The peers of the ring: those that created it or have a successor.       *)
Inside == {v \in Up : v \in Bootstrap \/ has_successor(router[v])}

Start(u) ==
    /\ status[u] = "off"
    /\ Cardinality(Up \ Settled) < MaxChanges
    /\ status' = [status EXCEPT ![u] = "up"]
    /\ Goto(u, "main", JoinVia(u))
    /\ Notes(JoinAddr[u] \notin Inside, "ChordFacade::start")
    /\ UNCHANGED <<router, runs, next, timeouts, announced>>

(***************************************************************************)
(* Service::join at v, on behalf of src.                                   *)
(***************************************************************************)
(* Mutant: the interval up to the successor is forgotten.                  *)
ForwardsUnlessBehind(v, src) ==
    has_predecessor(router[v]) /\ ~Between(router[v].predecessor.uuid, src, v)

ForwardsJoin(v, src) ==
    LET r == router[v]
    IN  /\ has_predecessor(r)
        /\ ~Between(v, src, successor_or_self(Me(v), r).uuid)
        /\ ~Between(r.predecessor.uuid, src, v)

Precedes(v, src) == Between(v, src, successor_or_self(Me(v), router[v]).uuid)

JoinResponse(v, src) ==
    LET r == router[v]
    IN  IF Precedes(v, src)        THEN [succ |-> successor_or_self(Me(v), r), pred |-> Me(v)]
        ELSE IF has_predecessor(r) THEN [succ |-> Me(v), pred |-> r.predecessor]
        ELSE [succ |-> Nowhere, pred |-> Nowhere]   \* pred->uuid of an empty optional

(* Forwarding that only its deadline ends: to itself, or too deep.         *)
EndlessJoin(u, p) ==
    \/ Len(p.stack) >= MaxDepth
    \/ Head(closest_preceding_nodes(Me(p.target), router[p.target], u)) = Me(p.target)

JoinForward(u, k) ==
    LET p == proc[u][k]
        v == p.target
        cands == closest_preceding_nodes(Me(v), router[v], u)
    IN  /\ p.pc = "join"
        /\ Answers(v) /\ ForwardsJoin(v, u) /\ ~EndlessJoin(u, p)
        /\ Goto(u, k, [p EXCEPT !.target = Head(cands).uuid, !.stack = Push(@, v, cands)])
        /\ UNCHANGED <<status, router, runs, next, announced, mishaps>>

JoinAnswer(u, k) ==
    LET p == proc[u][k]
        v == p.target
        res == JoinResponse(v, u)
    IN  /\ p.pc = "join"
        /\ Answers(v) /\ ~ForwardsJoin(v, u) /\ Returns(p.stack)
        /\ Goto(u, k, [pc |-> "joined", succ |-> res.succ, pred |-> res.pred])
        /\ mishaps' = mishaps \cup {x \in {"Service::join"} : ~Precedes(v, u) /\ ~has_predecessor(router[v])}
                              \cup {x \in {"ChordFacade::stabilize"} : u \in Bootstrap}
        /\ UNCHANGED <<status, router, runs, next, announced>>

(* The call fails, or its answer is lost, or forwarding goes on past the   *)
(* deadline.                                                               *)
JoinFails(u, k) ==
    LET p == proc[u][k]
    IN  /\ p.pc = "join"
        /\ \/ Fails(p.target)
           \/ Answers(p.target) /\ IF ForwardsJoin(p.target, u)
                                   THEN EndlessJoin(u, p) ELSE ~Returns(p.stack)
        /\ Goto(u, k, IF Retries(p.stack) = {} THEN AfterJoin(k)
                      ELSE [pc |-> "join", target |-> Retry(p.stack).target,
                            stack |-> Retry(p.stack).stack])
        /\ UNCHANGED <<status, router, runs, next, announced, mishaps>>

(***************************************************************************)
(* ChordFacade::join after Client::join has returned OK: notify the        *)
(* predecessor, then the successor, both read from the router again.       *)
(* "assertion: router->successor() and router->predecessor() are set": if  *)
(* one is not, what is sent and to whom is undefined.                      *)
(***************************************************************************)
Joined(r) == has_successor(r) /\ has_predecessor(r)

SendNotify(u, k, r, message) ==
    IF Joined(r)
    THEN Goto(u, k, message) /\ UNCHANGED mishaps
    ELSE /\ Goto(u, k, [pc |-> "garbage"])
         /\ mishaps' = mishaps \cup {"ChordFacade::join"}

ToPredecessor(u, r) ==
    [pc |-> "notify_pred", target |-> r.predecessor.uuid, nodes |-> <<successor(r), Me(u)>>]

ToSuccessor(u, r, ok) ==
    [pc |-> "notify_succ", target |-> successor(r).uuid, nodes |-> <<r.predecessor, Me(u)>>, ok |-> ok]

(* Client::join, the answer.                                               *)
JoinReply(u, k) ==
    LET p == proc[u][k]
    IN  /\ p.pc = "joined"
        /\ \E r \in {update(Me(u), update(Me(u), router[u], p.succ), p.pred)} :
              SetRouter(u, r) /\ SendNotify(u, k, r, ToPredecessor(u, r))
        /\ UNCHANGED <<status, runs, next, timeouts, announced>>

(***************************************************************************)
(* Service::notify at v.  `nodes' are old_node and new_node, if sent.      *)
(***************************************************************************)
(* Mutant: the successor is looked at first.                               *)
ChangesUnchecked(v, source) ==
    LET r == router[v]
    IN  IF r.predecessor = source THEN {FALSE}
        ELSE IF has_successor(r) THEN {Between(source.uuid, v, successor(r).uuid)}
        ELSE BOOLEAN

ChangesPredecessor(v, source) ==
    LET r == router[v]
    IN  IF ~has_predecessor(r) THEN {TRUE}
        ELSE IF r.predecessor = source THEN {FALSE}
        ELSE IF has_successor(r) THEN {Between(source.uuid, v, successor(r).uuid)}
        ELSE BOOLEAN                  \* successor->uuid of an empty optional

HandleNotify(v, source, nodes) ==
    IF source = Me(v)
    THEN UNCHANGED <<router, announced, mishaps>>
    ELSE \E changed \in ChangesPredecessor(v, source), r1 \in {update(Me(v), router[v], source)} :
           LET Insert(r, n) == update(Me(v), r, n)
           IN  /\ SetRouter(v, IF nodes = << >> THEN r1
                               ELSE Insert(Insert(r1, AsSeen(nodes[1])), AsSeen(nodes[2])))
               /\ announced' = [announced EXCEPT ![v] = IF changed THEN source ELSE @]
               /\ mishaps' = mishaps \cup
                     {x \in {"Service::notify"} : Cardinality(ChangesPredecessor(v, source)) > 1}

(* The call is handled and answered; handled, but too late for the caller; *)
(* or not handled.                                                         *)
CallNotify(v, source, nodes, ok) ==
    \/ ok = (source # Me(v)) /\ Answers(v) /\ HandleNotify(v, source, nodes)
    \/ ok = FALSE /\ Serving(v) /\ Fails(v) /\ HandleNotify(v, source, nodes)
    \/ ok = FALSE /\ Fails(v) /\ UNCHANGED <<router, announced, mishaps>>

NotifyPredecessor(u, k) ==
    LET p == proc[u][k]
    IN  /\ p.pc = "notify_pred"
        /\ \E ok \in BOOLEAN :
             /\ CallNotify(p.target, Me(u), p.nodes, ok)
             /\ Goto(u, k, [pc |-> "notified_pred", ok |-> ok])
        /\ UNCHANGED <<status, runs, next>>

NotifyNext(u, k) ==
    /\ Pc(u, k) = "notified_pred"
    /\ SendNotify(u, k, router[u], ToSuccessor(u, router[u], proc[u][k].ok))
    /\ UNCHANGED <<status, router, runs, next, timeouts, announced>>

NotifySuccessor(u, k) ==
    LET p == proc[u][k]
    IN  /\ p.pc = "notify_succ"
        /\ \E ok \in BOOLEAN :
             /\ CallNotify(p.target, Me(u), p.nodes, ok)
             /\ Goto(u, k, IF p.ok /\ ok THEN AfterJoin(k) ELSE [pc |-> "join_failed"])
        /\ UNCHANGED <<status, runs, next>>

(* join_failed: the router is reset.                                       *)
JoinFailed(u, k) ==
    /\ Pc(u, k) = "join_failed"
    /\ SetRouter(u, EmptyRouter)
    /\ Goto(u, k, AfterJoin(k))
    /\ UNCHANGED <<status, runs, next, timeouts, announced, mishaps>>

(* The empty optional was dereferenced: the process dies, or the garbage   *)
(* is no node that answers.                                                *)
JoinUndefined(u, k) ==
    /\ Pc(u, k) = "garbage"
    /\ \/ Goto(u, k, [pc |-> "join_failed"]) /\ UNCHANGED status
       \/ Dies(u)
    /\ UNCHANGED <<router, runs, next, timeouts, announced, mishaps>>

Join(u, k) ==
    \/ JoinForward(u, k) \/ JoinAnswer(u, k) \/ JoinFails(u, k) \/ JoinReply(u, k)
    \/ NotifyPredecessor(u, k) \/ NotifyNext(u, k) \/ NotifySuccessor(u, k)
    \/ JoinFailed(u, k) \/ JoinUndefined(u, k)

-----------------------------------------------------------------------------
(* A periodic task begins on one of the two threads of the scheduler.      *)
PoolSize == 2

(* Mutant: one run too many.                                               *)
BeginsAgain(u, k) ==
    /\ k \in Tasks
    /\ Serving(u) /\ Pc(u, "main") = "ready"
    /\ Pc(u, k) = "idle" /\ runs[u][k] <= Runs
    /\ runs' = [runs EXCEPT ![u][k] = @ + 1]

Begins(u, k) ==
    /\ k \in Tasks
    /\ Serving(u) /\ Pc(u, "main") = "ready"
    /\ Pc(u, k) = "idle" /\ runs[u][k] < Runs
    /\ Cardinality({t \in Task : Pc(u, t) # "idle"}) < PoolSize
    /\ runs' = [runs EXCEPT ![u][k] = @ + 1]

(***************************************************************************)
(* ChordFacade::stabilize and Client::stabilize.                           *)
(***************************************************************************)
(* ... and, at its end, "lost connection and we know where to join".       *)
AfterStabilize(u, r) ==
    IF ~has_successor(r) /\ u \in DOMAIN JoinAddr THEN JoinVia(u) ELSE Idle

StabilizeBegin(u) ==
    /\ Begins(u, "stab")
    /\ Goto(u, "stab", IF has_successor(router[u])
                       THEN [pc |-> "stabilize", peer |-> successor(router[u])]
                       ELSE AfterStabilize(u, router[u]))
    /\ UNCHANGED <<status, router, next, timeouts, announced, mishaps>>

(* Service::stabilize.                                                     *)
StabilizeHandled(u) ==
    LET p == proc[u]["stab"]
    IN  /\ p.pc = "stabilize"
        /\ Answers(p.peer.uuid)
        /\ Goto(u, "stab", [pc |-> "stabilized", peer |-> p.peer,
                            pred |-> router[p.peer.uuid].predecessor])
        /\ UNCHANGED <<status, router, runs, next, announced, mishaps>>

(* Router::remove, which tells the file system that a predecessor failed.  *)
RemovePeer(u, uuid) ==
    LET r == remove(Me(u), router[u], uuid)
    IN  /\ SetRouter(u, r)
        /\ announced' = [announced EXCEPT ![u] =
                IF PredecessorFailed(router[u], uuid) THEN NoNode ELSE @]

(* Mutant: the call is repeated until it is answered.                      *)
StabilizeRetries(u) ==
    /\ Pc(u, "stab") = "stabilize"
    /\ Fails(proc[u]["stab"].peer.uuid)
    /\ UNCHANGED <<status, router, proc, runs, next, announced, mishaps>>

StabilizeFails(u) ==
    LET p == proc[u]["stab"]
    IN  /\ p.pc = "stabilize"
        /\ Fails(p.peer.uuid)
        /\ RemovePeer(u, p.peer.uuid)
        /\ Goto(u, "stab", AfterStabilize(u, router'[u]))
        /\ UNCHANGED <<status, runs, next, mishaps>>

(* The closer node the successor knows is taken over, and Client::notify() *)
(* reads the successor again.                                              *)
StabilizeReply(u) ==
    LET p == proc[u]["stab"]
        r == IF p.pred # NoNode /\ Between(u, p.pred.uuid, p.peer.uuid)
             THEN update(Me(u), router[u], p.pred) ELSE router[u]
    IN  /\ p.pc = "stabilized"
        /\ SetRouter(u, r)
        /\ Goto(u, "stab", IF has_successor(r) THEN [pc |-> "notify", target |-> successor(r).uuid]
                                               ELSE AfterStabilize(u, r))
        /\ UNCHANGED <<status, runs, next, timeouts, announced, mishaps>>

StabilizeNotify(u) ==
    LET p == proc[u]["stab"]
    IN  /\ p.pc = "notify"
        /\ \E ok \in BOOLEAN : CallNotify(p.target, Me(u), << >>, ok)
        /\ Goto(u, "stab", AfterStabilize(u, router[u]))
        /\ UNCHANGED <<status, runs, next>>

Stabilize(u) ==
    \/ StabilizeBegin(u) \/ StabilizeHandled(u) \/ StabilizeFails(u)
    \/ StabilizeReply(u) \/ StabilizeNotify(u)

(***************************************************************************)
(* Client::check                                                           *)
(***************************************************************************)
CheckBegin(u) ==
    /\ Begins(u, "check")
    /\ Goto(u, "check", IF Joined(router[u]) THEN [pc |-> "ping", peer |-> router[u].predecessor] ELSE Idle)
    /\ UNCHANGED <<status, router, next, timeouts, announced, mishaps>>

CheckPing(u) ==
    LET p == proc[u]["check"]
    IN  /\ p.pc = "ping"
        /\ \/ Answers(p.peer.uuid) /\ UNCHANGED <<router, announced>>
           \/ Fails(p.peer.uuid) /\ RemovePeer(u, p.peer.uuid)
        /\ Goto(u, "check", Idle)
        /\ UNCHANGED <<status, runs, next, mishaps>>

Check(u) == CheckBegin(u) \/ CheckPing(u)

(***************************************************************************)
(* ChordFacade::fix_fingers, Service::fix_fingers and the lookup they      *)
(* start: Service::successor and Client::successor at one node after the   *)
(* other.  These calls have no deadline.                                   *)
(***************************************************************************)
(* History: the peers that had joined when a lookup of u began.            *)
RingOf(u) ==
    LET joined == {v \in Settled : v \in Bootstrap \/ Joined(router[v])}
    IN  IF u \in joined THEN joined ELSE {}

FixBegin(u) ==
    LET index == (next[u] + 1) % BITS
    IN  /\ Begins(u, "fix")
        /\ next' = [next EXCEPT ![u] = index]
        /\ Goto(u, "fix", [pc |-> "successor", id |-> FingerStart(Me(u), index),
                           target |-> u, caller |-> u, stack |-> << >>, ring |-> RingOf(u)])
        /\ UNCHANGED <<status, router, timeouts, announced, mishaps>>

(* Service::successor takes note of the caller ...                         *)
SuccessorArrives(u) ==
    LET p == proc[u]["fix"]
        v == p.target
    IN  /\ p.pc = "successor" /\ Serving(v)
        /\ SetRouter(v, update(Me(v), router[v], Me(p.caller)))
        /\ Goto(u, "fix", [p EXCEPT !.pc = "probe"])
        /\ UNCHANGED <<status, runs, next, timeouts, announced, mishaps>>

(* ... removes successors that do not answer a ping ...                    *)
SuccessorProbes(u) ==
    LET p == proc[u]["fix"]
        v == p.target
        succ == successor_or_self(Me(v), router[v])
    IN  /\ p.pc = "probe" /\ Serving(v)
        /\ Fails(succ.uuid)
        /\ RemovePeer(v, succ.uuid)
        /\ UNCHANGED <<status, proc, runs, next, mishaps>>

(* ... and answers with the one that does, or forwards the request.        *)
(* Mutant: the arguments of between in the wrong order.                    *)
CoversSwapped(v, id, succ) == id = v \/ Between(v, succ.uuid, id)

(* Mutant: every request is answered with the own successor.               *)
CoversAll(v, id, succ) == TRUE

Covers(v, id, succ) == id = v \/ Between(v, id, succ.uuid)

SuccessorAnswers(u) ==
    LET p == proc[u]["fix"]
        v == p.target
        succ == successor_or_self(Me(v), router[v])
    IN  /\ p.pc = "probe" /\ Serving(v)
        /\ Answers(succ.uuid) /\ Covers(v, p.id, succ) /\ Returns(p.stack)
        /\ Goto(u, "fix", [pc |-> "fixed", id |-> p.id, succ |-> succ, ring |-> p.ring])
        /\ UNCHANGED <<status, router, runs, next, announced, mishaps>>

SuccessorForwards(u) ==
    LET p == proc[u]["fix"]
        v == p.target
        cands == closest_preceding_nodes(Me(v), router[v], p.id)
    IN  /\ p.pc = "probe" /\ Serving(v)
        /\ LET succ == successor_or_self(Me(v), router[v])
           IN  Answers(succ.uuid) /\ ~Covers(v, p.id, succ)
        /\ Len(p.stack) < MaxDepth
        /\ Goto(u, "fix", [p EXCEPT !.pc = "successor", !.target = Head(cands).uuid,
                                    !.caller = v, !.stack = Push(@, v, cands)])
        /\ UNCHANGED <<status, router, runs, next, announced, mishaps>>

(* The node called is gone, or one on the way back is: the innermost       *)
(* handler left tries its next node; without one fix_fingers gives up.     *)
SuccessorFails(u) ==
    LET p == proc[u]["fix"]
        v == p.target
        succ == successor_or_self(Me(v), router[v])
    IN  /\ p.pc \in {"successor", "probe"}
        /\ \/ ~Serving(v)
           \/ p.pc = "probe" /\ Serving(succ.uuid) /\ Covers(v, p.id, succ) /\ ~Returns(p.stack)
        /\ Goto(u, "fix", IF Retries(p.stack) = {} THEN Idle
                          ELSE [p EXCEPT !.pc = "successor", !.target = Retry(p.stack).target,
                                         !.caller = Retry(p.stack).caller, !.stack = Retry(p.stack).stack])
        /\ UNCHANGED <<status, router, runs, next, timeouts, announced, mishaps>>

FixReply(u) ==
    LET p == proc[u]["fix"]
    IN  /\ p.pc = "fixed"
        /\ \/ /\ p.succ = Me(u)
              /\ RemovePeer(u, p.id)
              /\ Notes(Serving(p.id) /\ router' # router, "Service::fix_fingers")
           \/ /\ p.succ # Me(u)
              /\ SetRouter(u, update(Me(u), router[u], p.succ))
              /\ UNCHANGED <<announced, mishaps>>
        /\ Goto(u, "fix", Idle)
        /\ UNCHANGED <<status, runs, next, timeouts>>

FixFingers(u) ==
    \/ FixBegin(u) \/ SuccessorArrives(u) \/ SuccessorProbes(u) \/ SuccessorAnswers(u)
    \/ SuccessorForwards(u) \/ SuccessorFails(u) \/ FixReply(u)

-----------------------------------------------------------------------------
(***************************************************************************)
(* ChordFacade::stop: the scheduler starts no further task, and            *)
(* Client::leave informs the successor, then the predecessor.              *)
(***************************************************************************)
ToLeave(pc, n, r) ==
    [pc |-> pc, target |-> IF n = NoNode THEN {} ELSE {n.uuid}, entries |-> get(r)]

StopBegin(u) ==
    /\ u \in Leavers /\ Serving(u) /\ Pc(u, "main") = "ready"
    /\ Cardinality(Up \ Settled) < MaxChanges
    /\ Goto(u, "main", ToLeave("leave_succ", successor(router[u]), router[u]))
    /\ UNCHANGED <<status, router, runs, next, timeouts, announced, mishaps>>

(* Service::leave at v: no event, whoever the leaving node was to v.       *)
(* Mutant: the entries of the leaving node are not taken over.             *)
LeaveIgnored(v, u, entries) == SetRouter(v, remove(Me(v), router[v], u))

HandleLeave(v, u, entries) ==
    SetRouter(v, update_set(Me(v), remove(Me(v), router[v], u), {AsSeen(n) : n \in entries}))

CallLeave(v, u, entries) ==
    \/ Answers(v) /\ HandleLeave(v, u, entries)
    \/ Fails(v) /\ UNCHANGED router

Inform(u, p) ==
    \/ p.target = {} /\ UNCHANGED <<router, timeouts>>
    \/ \E v \in p.target : CallLeave(v, u, p.entries)

LeaveSuccessor(u) ==
    LET p == proc[u]["main"]
    IN  /\ p.pc = "leave_succ"
        /\ Inform(u, p)
        /\ Goto(u, "main", [pc |-> "leave_next"])
        /\ UNCHANGED <<status, runs, next, announced, mishaps>>

LeaveNext(u) ==
    /\ Pc(u, "main") = "leave_next"
    /\ Goto(u, "main", ToLeave("leave_pred", router[u].predecessor, router[u]))
    /\ UNCHANGED <<status, router, runs, next, timeouts, announced, mishaps>>

LeavePredecessor(u) ==
    LET p == proc[u]["main"]
    IN  /\ p.pc = "leave_pred"
        /\ Inform(u, p)
        /\ Goto(u, "main", [pc |-> "left"])
        /\ UNCHANGED <<status, runs, next, announced, mishaps>>

(* The process ends, once its tasks have: ~Scheduler joins the threads.    *)
Exit(u) ==
    /\ Pc(u, "main") = "left" /\ Serving(u)
    /\ \A k \in Task : Pc(u, k) = "idle"
    /\ status' = [status EXCEPT ![u] = "left"]
    /\ UNCHANGED <<router, proc, runs, next, timeouts, announced, mishaps>>

Crash(u) ==
    /\ u \in Crashers /\ Serving(u)
    /\ Dies(u)
    /\ UNCHANGED <<router, runs, next, timeouts, announced, mishaps>>

Main(u) == Start(u) \/ LeaveSuccessor(u) \/ LeaveNext(u) \/ LeavePredecessor(u) \/ Exit(u)

Quiescent ==
    \A u \in Members :
        /\ status[u] # "off"
        /\ Serving(u) => /\ Pc(u, "main") = "ready"
                         /\ \A k \in Tasks : Pc(u, k) = "idle" /\ runs[u][k] = Runs

Rest == Quiescent /\ UNCHANGED vars

Step(u) ==
    \/ Main(u)
    \/ \E k \in JoinKind : Join(u, k)
    \/ Stabilize(u) \/ Check(u) \/ FixFingers(u)

Next ==
    \/ \E u \in Members : Step(u) \/ StopBegin(u) \/ Crash(u)
    \/ Rest

(* Every thread of control goes on, and a peer that is configured starts;  *)
(* nobody has to leave or to crash.                                        *)
GoesOn(u, k) ==
    \/ k = "stab" /\ (Stabilize(u) \/ Join(u, k))
    \/ k = "check" /\ Check(u)
    \/ k = "fix" /\ FixFingers(u)

Fairness ==
    \A u \in Members :
        /\ WF_vars(Main(u) \/ Join(u, "main"))
        /\ \A k \in Tasks : WF_vars(GoesOn(u, k))

Spec == Init /\ [][Next]_vars /\ Fairness

-----------------------------------------------------------------------------
Succ(u) == successor_or_self(Me(u), router[u]).uuid
Pred(u) == (IF has_predecessor(router[u]) THEN router[u].predecessor ELSE Me(u)).uuid

(* The peer of S that follows u on the ring.                               *)
Following(u, S) ==
    CHOOSE v \in S \cup {u} : \A w \in S \ {u} : v # u /\ Distance(u, v) <= Distance(u, w)

(* Nobody is joining, rejoining or leaving.                                *)
Calm == Up = Settled /\ \A u \in Up, k \in JoinKind : Pc(u, k) \notin JoinPc

(* The state of every component keeps its type: routers stay routers       *)
(* whatever handlers and replies interleave, counters stay in bounds.      *)
TypeOK ==
    /\ status \in [Members -> {"off", "up", "left", "crashed"}]
    /\ router \in [Members -> RouterState]
    /\ DOMAIN proc = Members /\ \A u \in Members : DOMAIN proc[u] = Kind
    /\ runs \in [Members -> [Task -> 0 .. Runs]]
    /\ next \in [Members -> Index]
    /\ timeouts \in 0 .. MaxTimeouts
    /\ announced \in [Members -> OptNode]
    /\ mishaps \subseteq Mishap

(* So far peers have only joined, and no lookup has had one forgotten.     *)
OnlyJoins ==
    /\ timeouts = 0 /\ "Service::fix_fingers" \notin mishaps
    /\ \A u \in Members :
          /\ status[u] \in {"off", "up"}
          /\ Pc(u, "main") \notin {"leave_succ", "leave_next", "leave_pred", "left"}

(* ... and each peer through one of the ring.                              *)
InOrder == OnlyJoins /\ mishaps \cap {"ChordFacade::start", "ChordFacade::stabilize"} = {}

(* No uuid follows another one directly, the uuid skipped by the reduction *)
(* modulo MaxUuid not counted: the interval of the first finger is open,   *)
(* and the peer would have no successor.  No peer is to join itself.       *)
Spread ==
    /\ \A u, v \in Members : u # v => Distance(u, FingerStart(Me(u), 0)) < Distance(u, v)
    /\ \A u \in DOMAIN JoinAddr : JoinAddr[u] # u

(* One peer creates the ring.  The others join any peer, and it may be     *)
(* configured to join one, too.                                            *)
Root == CHOOSE b \in Members : Bootstrap = {b}
OneCreator == Bootstrap = {Root}

(* ChordFacade::join and Service::join, notify dereference the optional    *)
(* successor and predecessor without a test: they are there, however joins *)
(* overlap.                                                                *)
NoUndefined == OnlyJoins => mishaps \cap Dereference = {}

(* Joins and leaves that do not overlap leave a perfect ring behind, as    *)
(* long as nobody crashes and the peer to be joined is in the ring: every  *)
(* peer's successor is the next one that is up, and knows it as its        *)
(* predecessor.                                                            *)
(* A leaving peer tells its neighbours only: when a second one leaves, a   *)
(* neighbour may fall back to one that left before, until it is noticed.   *)
CalmIdeal ==
    LET departed == {v \in Members : status[v] = "left"}
        stale == IF Cardinality(departed) > 1 THEN departed ELSE {}
    IN  Calm /\ "ChordFacade::start" \notin mishaps /\ (\A u \in Members : status[u] # "crashed") =>
            \A u \in Up :
                /\ Succ(u) \in {Following(u, Up)} \cup stale
                /\ Pred(Following(u, Up)) \in {u} \cup stale

(* Concurrent joins, through whatever peer of the ring, never split it:    *)
(* from every peer that has a successor, following successors leads to a   *)
(* bootstrap peer.                                                         *)
Reachable(u) ==
    LET R[n \in 0 .. Cardinality(Members)] ==
          IF n = 0 THEN {u} ELSE R[n - 1] \cup {Succ(v) : v \in R[n - 1]}
    IN  R[Cardinality(Members)]

OneRing == InOrder => \A u \in Up : has_successor(router[u]) => Reachable(u) \cap Bootstrap # {}

(* A peer gives its successor up only for a closer one, or because that    *)
(* peer is gone, leaves or missed a deadline, or because its own join      *)
(* failed: stale replies and gossip never push a good successor out.  One  *)
(* stale reply does, a lookup of exactly the successor's uuid that found   *)
(* nobody but the peer itself: fix_fingers removes that uuid.              *)
SuccessorKept ==
    [][\A u \in Up : has_successor(router[u]) =>
          \/ has_successor(router'[u]) /\ Distance(u, Succ(u)') <= Distance(u, Succ(u))
          \/ Succ(u) \notin Settled
          \/ timeouts' > timeouts
          \/ Pc(u, "fix") = "fixed" /\ proc[u]["fix"].succ = Me(u) /\ proc[u]["fix"].id = Succ(u)
          \/ \E k \in JoinKind : Pc(u, k) = "join_failed"]_vars

(* A lookup that answers names a peer at least as close to the id as every *)
(* peer that had joined when the lookup began and has not begun to leave:  *)
(* joins that do not overlap do not mislead the lookups under way.  A peer *)
(* that is gone does, for a join that fails on it resets a router to which *)
(* others forward already; overlapping joins do, and joins through a peer  *)
(* outside the ring.                                                       *)
LookupCorrect ==
    MaxChanges <= 1 /\ InOrder =>
        \A u \in Up : Pc(u, "fix") = "fixed" =>
            LET p == proc[u]["fix"]
            IN  \A v \in p.ring \cap Settled : Distance(p.id, p.succ.uuid) <= Distance(p.id, v)

(* Every join through a peer of the ring ends with a successor and a       *)
(* predecessor.                                                            *)
JoinSucceeds ==
    \A u \in Members \ Bootstrap : (Pc(u, "main") = "join") ~> (Joined(router[u]) \/ ~InOrder)

(* Every lookup comes to its end: it is not forwarded in circles, although *)
(* no hop is counted and peers join and crash on its way.  (But for the    *)
(* lookup of a peer's own successor, which the peer forwards to itself; no *)
(* finger of the instance starts at a peer.)                               *)
LookupsEnd == \A u \in Members : (Pc(u, "fix") # "idle") ~> (Pc(u, "fix") = "idle")

(* Every process comes to its end: a peer that joins gets ready, one that  *)
(* leaves gets away and a periodic task returns, whoever leaves, crashes   *)
(* or misses a deadline meanwhile.                                         *)
ProcessesEnd ==
    \A u \in Members :
        /\ (Pc(u, "main") \in JoinPc) ~> (Pc(u, "main") \notin JoinPc)
        /\ (Pc(u, "main") = "leave_succ") ~> ~Serving(u)
        /\ \A k \in Tasks : (Pc(u, k) # "idle") ~> (Pc(u, k) = "idle")
=============================================================================
