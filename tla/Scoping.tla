------------------------------ MODULE Scoping ------------------------------
(***************************************************************************)
(* What the symbol table promises its clients: a stack of sets of names in *)
(* which a name is declared at most once among all open scopes, and which  *)
(* forgets the names of a scope when the scope is left.                    *)
(***************************************************************************)
EXTENDS Naturals, Sequences

CONSTANT Names

VARIABLE open       \* the names declared in each open scope, outermost first

Visible == UNION {open[k] : k \in DOMAIN open}

Init == open = <<{}>>

Enter == open # <<>> /\ open' = Append(open, {})

Leave == open # <<>> /\ open' = SubSeq(open, 1, Len(open) - 1)

Declare(name) ==
    /\ open # <<>> /\ name \notin Visible
    /\ open' = [open EXCEPT ![Len(open)] = @ \cup {name}]

Next == Enter \/ Leave \/ \E name \in Names : Declare(name)

Spec == Init /\ [][Next]_open
=============================================================================
