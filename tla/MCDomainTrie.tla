---------------------------- MODULE MCDomainTrie ----------------------------
(* Patterns over two letters that share prefixes, end in one another and   *)
(* differ in a leading dot, asked for with all names of up to 3 characters. *)
EXTENDS DomainTrie

a == 3
b == 4

MCInputs ==
    [exact  : SUBSET {<<a>>, <<b, Dot, a>>, <<b, a>>},
     suffix : SUBSET {<<a>>, <<Dot, a>>, <<b, Dot, a>>, <<Dot, b>>, <<b, b>>}]

MCNames ==
    UNION {[1 .. n -> {Dot, a, b}] : n \in 0 .. 3} \cup {<<b, Dot, b, Dot, a>>}

=============================================================================
