----------------------------- MODULE MCSubmission -----------------------------
(***************************************************************************)
(* Spends: two fixtures of one deterministic seed, which share the dummy,  *)
(* and one that pays an output which the first pays, too.  A deposit of    *)
(* that output, which any number of runs may make.                         *)
(***************************************************************************)
EXTENDS Submission

Spend(note, dummy, outputs) ==
    [op |-> "transfer", note |-> note, keys |-> {note, dummy}, outputs |-> outputs]

Deposit(note) == [op |-> "shield", note |-> note, keys |-> {}, outputs |-> {note}]

MCFixtures ==
    {Spend("a", "dummy", {"b", "c"}), Spend("d", "dummy", {"e"}), Spend("f", "g", {"b"}),
     Deposit("b")}
=============================================================================
