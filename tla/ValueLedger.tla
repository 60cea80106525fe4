---------------------------- MODULE ValueLedger ----------------------------
(***************************************************************************)
(* What the shielded pool promises, with no tree, proof, transaction or    *)
(* gas in it: notes of value, of which each is created once and spent at   *)
(* most once, and accounts that are owed value.  A deposit creates a note; *)
(* a spend replaces at most two notes by at most two others, a credit and  *)
(* a fee, losing nothing; a withdrawal pays out the whole credit.          *)
(***************************************************************************)
EXTENDS Integers, FiniteSets, Functions

CONSTANT Accounts

VARIABLES
    unspent,  \* the notes that can be spent, records with a value
    spent,    \* the notes that were spent
    credit,   \* what each account is owed
    fees      \* all the fees that spends left to the pool

ledgerVars == <<unspent, spent, credit, fees>>

TotalValue(notes) == SumFunction([note \in notes |-> note.value])

LedgerInit ==
    /\ unspent = {}
    /\ spent = {}
    /\ credit = [who \in Accounts |-> 0]
    /\ fees = 0

Deposit ==
    /\ \E note \in unspent' :
           /\ note \notin unspent \cup spent
           /\ note.value > 0
           /\ unspent' = unspent \cup {note}
    /\ UNCHANGED <<spent, credit, fees>>

Spend ==
    LET inputs == unspent \ unspent'
        outputs == unspent' \ unspent
    IN  /\ Cardinality(inputs) \in 1..2
        /\ Cardinality(outputs) <= 2
        /\ outputs \cap spent = {}
        /\ spent' = spent \cup inputs
        /\ \A who \in Accounts : credit'[who] >= credit[who]
        /\ Cardinality({who \in Accounts : credit'[who] # credit[who]}) <= 1
        /\ fees' >= fees
        /\ TotalValue(inputs) = TotalValue(outputs) + (SumFunction(credit') - SumFunction(credit))
                                    + (fees' - fees)

Withdraw(who) ==
    /\ credit[who] > 0
    /\ credit' = [credit EXCEPT ![who] = 0]
    /\ UNCHANGED <<unspent, spent, fees>>

LedgerNext == Deposit \/ Spend \/ \E who \in Accounts : Withdraw(who)

LedgerSpec == LedgerInit /\ [][LedgerNext]_ledgerVars
=============================================================================
