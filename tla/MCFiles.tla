------------------------------ MODULE MCFiles -------------------------------
(***************************************************************************)
(* FileFacade for TLC.                                                     *)
(***************************************************************************)
EXTENDS FileFacade

CONSTANTS a, b                 \* contents

MCParent == [u \in Uris |-> IF u = 2 THEN 1 ELSE Root]
MCPosition == [u \in Uris |-> <<0, 3, 5, 2>>[u + 1]]
MCHome == [c \in {"alice", "bob"} |-> IF c = "alice" THEN 1 ELSE 4]
MCThread == {"alice", "bob", "ring"}
MCHome1 == [c \in {"alice"} |-> 1]
MCThread1 == {"alice", "ring"}

MCPut(u, d, n) == [Cmd("put", u) EXCEPT !.data = d, !.count = n]
MCDel == [Cmd("del", 1) EXCEPT !.rec = TRUE]
MCCommands ==
    [c \in {"alice", "bob"} |->
        IF c = "alice"
        THEN {MCPut(2, a, 2), [MCPut(2, b, 1) EXCEPT !.uris = <<2, 3>>],
              [Cmd("mov", 3) EXCEPT !.target = 2], MCDel}
        ELSE {MCPut(3, a, 1), Cmd("get", 2), MCDel, Cmd("mkdir", 1)}]
MCCommands1 ==
    [c \in {"alice"} |->
        {MCPut(2, a, 2), MCPut(3, a, 1), Cmd("get", 2), Cmd("get", 3), Cmd("del", 3),
         Cmd("mkdir", 1), Cmd("del", 1)}]
MCMaxCommands == [c \in {"alice", "bob"} |-> IF c = "alice" THEN 2 ELSE 1]
MCMaxCommands1 == [c \in {"alice"} |-> 3]
MCOverlap1 == {Cmd("get", 3), Cmd("del", 3)}
=============================================================================
