--------------------------------- MODULE Trees ---------------------------------
(***************************************************************************)
(* Trees: functions from paths to labels.  The path of a node is the       *)
(* sequence of the places its ancestors have among their siblings, <<>>    *)
(* for the root.                                                           *)
(***************************************************************************)
EXTENDS Naturals, Sequences

(* Place c below a path that starts where c is the root. *)
Under(c, path) == <<c>> \o path

Tree(label, children) ==
    LET below == UNION {{Under(c, path) : path \in DOMAIN children[c]} : c \in DOMAIN children}
    IN  [path \in {<<>>} \cup below |->
            IF path = <<>> THEN label ELSE children[path[1]][Tail(path)]]

Leaf(label) == Tree(label, <<>>)
=============================================================================
