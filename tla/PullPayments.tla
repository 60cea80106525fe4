---------------------------- MODULE PullPayments ----------------------------
(***************************************************************************)
(* What withdrawals promise, with no calls in them: accounts are owed      *)
(* amounts, and a payout pays some accounts all that each is owed.         *)
(***************************************************************************)
EXTENDS Integers

CONSTANT Accounts

VARIABLES
    owed,  \* what each account may still claim
    paid   \* what each account was paid in all

pullVars == <<owed, paid>>

PullInit ==
    /\ owed = [who \in Accounts |-> 0]
    /\ paid = [who \in Accounts |-> 0]

Owe(who) ==
    /\ owed'[who] > owed[who]
    /\ owed' = [owed EXCEPT ![who] = owed'[who]]
    /\ UNCHANGED paid

PayOut(payees) ==
    /\ owed' = [who \in Accounts |-> IF who \in payees THEN 0 ELSE owed[who]]
    /\ paid' = [who \in Accounts |-> paid[who] + (IF who \in payees THEN owed[who] ELSE 0)]

PullNext ==
    \/ \E who \in Accounts : Owe(who)
    \/ \E payees \in SUBSET Accounts : PayOut(payees)

PullSpec == PullInit /\ [][PullNext]_pullVars
=============================================================================
