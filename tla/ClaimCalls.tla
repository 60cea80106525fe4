----------------------------- MODULE ClaimCalls -----------------------------
(***************************************************************************)
(* claimWithdrawal of ShieldedPoolLogic.sol with the call it makes.        *)
(*                                                                         *)
(* Paying a contract runs the contract's code before claimWithdrawal has   *)
(* returned.  That code may call the pool again, claim for itself or for   *)
(* others, shield what it received, and finally return or fail; a failure  *)
(* undoes everything since its call, payouts nested in it included, and    *)
(* reverts the claim.  ShieldedPoolLogic takes a claim as one step; here   *)
(* it is shown that it may.                                                *)
(***************************************************************************)
EXTENDS Integers, Sequences, FiniteSets, Functions

CONSTANTS
    Payees,       \* addresses that withdrawals may name, the pool among them
    Contracts,    \* those that run code when they are paid
    Self,         \* address(this), the pool
    Funds,        \* value of the notes shielded before
    MaxCredited,  \* bound of the model: what an account is credited in all
    MaxDepth      \* bound of the model: payouts nested in each other

ASSUME ClaimsAssumption ==
    /\ IsFiniteSet(Payees)
    /\ Contracts \subseteq Payees \ {Self}
    /\ Funds \in Nat /\ MaxCredited \in Nat /\ MaxDepth \in Nat

VARIABLES
    world,    \* what a failing call undoes: see Worlds
    stack,    \* payouts that have not returned, the innermost last
    credited  \* what settlements credited each account in all

claimVars == <<world, stack, credited>>

Nothing == [who \in Payees |-> 0]

Worlds ==
    [credit  : [Payees -> Nat],  \* withdrawalCredit
     balance : Nat,                \* of the pool
     notes   : Nat,                \* value of all unspent notes
     wealth  : [Payees -> Nat],  \* native balance of each account
     paid    : [Payees -> Nat]]  \* sum of the Withdrawn events of each account

ClaimsInit ==
    /\ world = [credit |-> Nothing, balance |-> Funds, notes |-> Funds,
                wealth |-> Nothing, paid |-> Nothing]
    /\ stack = <<>>
    /\ credited = Nothing

-----------------------------------------------------------------------------
\* settle cannot be reached from a payout: its caller must be the pool.
Credit(who, amount) ==
    /\ stack = <<>>
    /\ amount \in 1..world.notes
    /\ credited[who] + amount <= MaxCredited
    /\ world' = [world EXCEPT !.notes = @ - amount, !.credit[who] = @ + amount]
    /\ credited' = [credited EXCEPT ![who] = @ + amount]
    /\ UNCHANGED stack

\* Between transactions anyone may call shield, during a payout only contracts.
Deposit(who, value) ==
    /\ stack = <<>> \/ who \in Contracts
    /\ value \in 1..world.wealth[who]
    /\ world' = [world EXCEPT !.wealth[who] = @ - value,
                              !.balance = @ + value, !.notes = @ + value]
    /\ UNCHANGED <<stack, credited>>

\* Mutant: the credit is left for after the call.
Paid_NotZeroed(w, who) ==
    [w EXCEPT !.balance = @ - w.credit[who],
              !.wealth[who] = @ + w.credit[who], !.paid[who] = @ + w.credit[who]]

\* The state in which who runs: its credit is gone and its value has arrived.
Paid(w, who) ==
    [credit  |-> [w.credit EXCEPT ![who] = 0],
     balance |-> w.balance - w.credit[who],
     notes   |-> w.notes,
     wealth  |-> [w.wealth EXCEPT ![who] = @ + w.credit[who]],
     paid    |-> [w.paid EXCEPT ![who] = @ + w.credit[who]]]

\* Mutant: a failed call is ignored instead of reverting the claim.
Undone_Ignored(frame) == [frame.before EXCEPT !.credit[frame.who] = 0]

Undone(frame) == frame.before

\* A call of the pool by itself without calldata always fails, so its claim does.
Claimable(who) == who # Self /\ world.credit[who] \in 1..world.balance

ClaimToAccount(who) ==
    /\ who \notin Contracts
    /\ Claimable(who)
    /\ world' = Paid(world, who)
    /\ UNCHANGED <<stack, credited>>

ClaimToContract(who) ==
    /\ who \in Contracts
    /\ Claimable(who)
    /\ Len(stack) < MaxDepth
    /\ world' = Paid(world, who)
    /\ stack' = Append(stack, [who |-> who, before |-> world])
    /\ UNCHANGED credited

Outer == SubSeq(stack, 1, Len(stack) - 1)

PayeeReturns ==
    /\ stack # <<>>
    /\ stack' = Outer
    /\ UNCHANGED <<world, credited>>

PayeeFails ==
    /\ stack # <<>>
    /\ world' = Undone(stack[Len(stack)])
    /\ stack' = Outer
    /\ UNCHANGED credited

ClaimsNext ==
    \/ \E who \in Payees, amount \in 1..Funds : Credit(who, amount) \/ Deposit(who, amount)
    \/ \E who \in Payees : ClaimToAccount(who) \/ ClaimToContract(who)
    \/ PayeeReturns
    \/ PayeeFails

ClaimsSpec == ClaimsInit /\ [][ClaimsNext]_claimVars

-----------------------------------------------------------------------------
(***************************************************************************)
(* Every credit is paid exactly once, whatever payees do while they run:   *)
(* at any depth, what an account may still claim and what it was paid add  *)
(* up to what it was credited.                                             *)
(***************************************************************************)
PaidOnce == \A who \in Payees : world.credit[who] + world.paid[who] = credited[who]

(***************************************************************************)
(* The pool holds exactly the value of the notes and the credits, also     *)
(* while a payee runs: what claimWithdrawal pays to one account is never   *)
(* what another one's note or credit stands for.                           *)
(***************************************************************************)
Backed == world.balance = world.notes + SumFunction(world.credit)

(***************************************************************************)
(* Seen between transactions, claims are single steps: a transaction pays  *)
(* some accounts all their credit and no account a part of it.  What a     *)
(* running payout did counts only once its outermost call has returned.    *)
(***************************************************************************)
Durable == IF stack = <<>> THEN world ELSE stack[1].before

Pulls == INSTANCE PullPayments WITH Accounts <- Payees, owed <- Durable.credit, paid <- Durable.paid

ClaimsAreSteps == Pulls!PullSpec
=============================================================================
