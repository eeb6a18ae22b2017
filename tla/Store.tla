------------------------------- MODULE Store --------------------------------
(***************************************************************************)
(* What the file system promises its users while no peer comes or goes:    *)
(* one value per file, which nothing but a running command changes.        *)
(*                                                                         *)
(* A command has a file to itself (`alone') unless another command that    *)
(* writes it runs meanwhile, or did before (`contested').  Of files that   *)
(* commands fought over nothing is promised.                               *)
(***************************************************************************)
CONSTANTS File, Client, None

VARIABLES
    value,         \* value[f], the content of f, or None
    running,       \* running[c], the command of client c, or None
    success,       \* success[c], whether that is going to be told it succeeded
    contested      \* the files nothing is promised of any more

vars == <<value, running, contested>>

Busy == {c \in Client : running[c] # None}

Init ==
    /\ value = [f \in File |-> None]
    /\ running = [c \in Client |-> None]
    /\ contested = {}

(* A command puts a content (op = "put"), deletes a file (op = "del") or   *)
(* those of a directory (op = "clear"), or moves one (op = "mov").         *)
Start(c) ==
    LET k == running'[c]
        free == k.files \ (contested \cup UNION {running[d].files : d \in Busy})
    IN  /\ running[c] = None /\ k # None
        /\ running' = [d \in Client |->
              IF d = c THEN [k EXCEPT !.alone = free]
              ELSE IF d \in Busy THEN [running[d] EXCEPT !.alone = @ \ k.files]
              ELSE None]
        /\ contested \subseteq contested' /\ contested' \subseteq contested \cup k.files
        /\ UNCHANGED value

(* A name is given up only when there is something under the new one.      *)
Write(c, f) ==
    LET k == running[c]
    IN  /\ c \in Busy /\ f \in k.files
        /\ \A g \in File \ {f} : value'[g] = value[g]
        /\ f \in k.alone =>
             \/ k.op = "put" /\ value'[f] = k.data
             \/ k.op \in {"del", "clear"} /\ value'[f] = None
             \/ k.op = "mov" /\ f # k.source /\ value'[f] # None
             \/ /\ k.op = "mov" /\ f = k.source /\ value'[f] = None
                /\ \A g \in k.alone \ {f} : value[g] # None
        /\ UNCHANGED <<running, contested>>

Return(c) ==
    LET k == running[c]
    IN  /\ c \in Busy
        /\ success[c] => \A f \in k.alone : /\ k.op = "put" => value[f] = k.data
                                            /\ k.op = "del" => value[f] = None
        /\ running' = [running EXCEPT ![c] = None]
        /\ k.files \ k.alone \subseteq contested'
        /\ contested \subseteq contested' /\ contested' \subseteq contested \cup k.files
        /\ UNCHANGED value

Next == \E c \in Client : Start(c) \/ Return(c) \/ \E f \in File : Write(c, f)

Spec == Init /\ [][Next]_vars
=============================================================================
