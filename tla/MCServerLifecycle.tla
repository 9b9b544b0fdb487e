-------------------------- MODULE MCServerLifecycle --------------------------
(* ServerLifecycle with two types of which one is not exported: it can be  *)
(* registered with RegisterName alone, and both then under the same name.  *)
EXTENDS ServerLifecycle

CONSTANTS Arith, arith, u1

MCLower == [n \in {Arith, arith} |-> arith]

MCTypes ==
    {[name |-> Arith, methods |-> {[name |-> Arith, shape |-> "fit"],
                                   [name |-> arith, shape |-> "unfit"]}],
     [name |-> arith, methods |-> {[name |-> Arith, shape |-> "context"]}]}
=============================================================================
