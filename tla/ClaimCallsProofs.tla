-------------------------- MODULE ClaimCallsProofs --------------------------
(***************************************************************************)
(* Reentrant claims, for any accounts, contracts, funds and depth.         *)
(*                                                                         *)
(* What is claimed of the world now is not inductive: a failing payee puts *)
(* back the world that its call began with.  The invariant therefore says  *)
(* the same of the world saved in every frame of the stack, and that the   *)
(* world and all the saved ones come from the outermost by whole payments. *)
(* This is kept because credits are only added while the stack is empty.   *)
(***************************************************************************)
EXTENDS ClaimCalls, SumTheorems

Frames == [who : Payees, before : Worlds]

ClaimTypeOK ==
    /\ world \in Worlds
    /\ stack \in Seq(Frames)
    /\ credited \in [Payees -> Nat]

\* The world w owes and has paid the credits given, and holds what it owes.
Settles(w, given) ==
    /\ \A who \in Payees : w.credit[who] + w.paid[who] = given[who]
    /\ w.balance = w.notes + SumFunction(w.credit)

\* In w each account was paid all that v owed it, or nothing.
PaidSince(v, w) ==
    \A who \in Payees :
        \/ w.credit[who] = v.credit[who] /\ w.paid[who] = v.paid[who]
        \/ w.credit[who] = 0 /\ w.paid[who] = v.paid[who] + v.credit[who]

\* What a frame of the stack may put back has paid whole credits only.
WholePayments ==
    stack # <<>> =>
        /\ PaidSince(stack[1].before, world)
        /\ \A i \in 1..Len(stack) : PaidSince(stack[1].before, stack[i].before)

ClaimIInv ==
    /\ ClaimTypeOK
    /\ Settles(world, credited)
    /\ \A i \in 1..Len(stack) : Settles(stack[i].before, credited)
    /\ WholePayments

-----------------------------------------------------------------------------
LEMMA WorldFields ==
    ASSUME NEW w \in Worlds
    PROVE  /\ w.credit \in [Payees -> Nat] /\ w.paid \in [Payees -> Nat]
           /\ w.wealth \in [Payees -> Nat]
           /\ w.balance \in Nat /\ w.notes \in Nat
BY DEF Worlds

(***************************************************************************)
(* Paying who moves its credit from what it may claim to what it was paid, *)
(* and its value out of the pool.                                          *)
(***************************************************************************)
LEMMA PaidMovesCredit ==
    ASSUME NEW w \in Worlds, NEW who \in Payees, w.credit[who] \in 1..w.balance
    PROVE  /\ Paid(w, who) \in Worlds
           /\ \A given : Settles(w, given) => Settles(Paid(w, who), given)
           /\ \A v \in Worlds : PaidSince(v, w) => PaidSince(v, Paid(w, who))
  <1> DEFINE p == Paid(w, who)
  <1>1. /\ p.credit = [w.credit EXCEPT ![who] = 0]
        /\ p.balance = w.balance - w.credit[who]
        /\ p.notes = w.notes
        /\ p.wealth = [w.wealth EXCEPT ![who] = @ + w.credit[who]]
        /\ p.paid = [w.paid EXCEPT ![who] = @ + w.credit[who]]
        /\ p = [credit |-> p.credit, balance |-> p.balance, notes |-> p.notes,
                wealth |-> p.wealth, paid |-> p.paid]
    BY DEF Paid
  <1>2. /\ w.credit \in [Payees -> Nat] /\ w.wealth \in [Payees -> Nat]
        /\ w.paid \in [Payees -> Nat] /\ w.balance \in Nat /\ w.notes \in Nat
    BY WorldFields
  <1> HIDE DEF p
  <1>3. /\ p.credit \in [Payees -> Nat] /\ p.wealth \in [Payees -> Nat]
        /\ p.paid \in [Payees -> Nat] /\ p.balance \in Nat /\ p.notes \in Nat
    BY <1>1, <1>2
  <1>4. p \in Worlds
    BY <1>1, <1>3 DEF Worlds
  <1>5. ASSUME NEW a \in Payees
        PROVE  p.credit[a] + p.paid[a] = w.credit[a] + w.paid[a]
    BY <1>1, <1>2
  <1>6. SumFunction(p.credit) = SumFunction(w.credit) - w.credit[who]
    <2>1. SumFunction([w.credit EXCEPT ![who] = 0]) = SumFunction(w.credit) - w.credit[who] + 0
      BY <1>2, ClaimsAssumption, TotalUpdated
    <2>2. SumFunction(w.credit) \in Nat
      BY <1>2, ClaimsAssumption, TotalType
    <2> QED  BY <1>1, <1>2, <2>1, <2>2
  <1>7. ASSUME NEW given, Settles(w, given)
        PROVE  p.balance = p.notes + SumFunction(p.credit)
    <2>1. SumFunction(w.credit) \in Nat
      BY <1>2, ClaimsAssumption, TotalType
    <2> QED  BY <1>1, <1>2, <1>6, <1>7, <2>1 DEF Settles
  <1>8. ASSUME NEW v \in Worlds, PaidSince(v, w) PROVE PaidSince(v, p)
    <2>1. v.credit \in [Payees -> Nat] /\ v.paid \in [Payees -> Nat]
      BY WorldFields
    <2> QED  BY <1>1, <1>2, <1>8, <2>1 DEF PaidSince
  <1>9. ASSUME NEW given, Settles(w, given)
        PROVE  Settles(p, given)
    BY <1>5, <1>9, <1>7 DEF Settles
  <1> QED  BY <1>4, <1>8, <1>9 DEF p

LEMMA ClaimInit == ClaimsInit => ClaimIInv
  <1> SUFFICES ASSUME ClaimsInit PROVE ClaimIInv
    OBVIOUS
  <1>1. Nothing \in [Payees -> Nat]
    BY DEF Nothing
  <1>2. ClaimTypeOK
    BY <1>1, ClaimsAssumption DEF ClaimsInit, ClaimTypeOK, Worlds
  <1>3. SumFunction(Nothing) = 0
    BY ClaimsAssumption, TotalOfZeros DEF Nothing
  <1>4. Settles(world, credited)
    BY <1>1, <1>3, ClaimsAssumption DEF ClaimsInit, Settles, Nothing
  <1> QED  BY <1>2, <1>4 DEF ClaimIInv, ClaimsInit, WholePayments

\* A call that leaves the stack alone and from which the world comes out well.
LEMMA SameStackKeepsIInv ==
    ASSUME ClaimIInv, world' \in Worlds, Settles(world', credited),
           stack # <<>> => PaidSince(stack[1].before, world'),
           UNCHANGED <<stack, credited>>
    PROVE  ClaimIInv'
  <1>1. stack' = stack /\ credited' = credited
    OBVIOUS
  <1>2. WholePayments'
    BY <1>1 DEF ClaimIInv, WholePayments
  <1>3. \A i \in 1..Len(stack') : Settles(stack'[i].before, credited')
    BY <1>1 DEF ClaimIInv
  <1> QED  BY <1>1, <1>2, <1>3 DEF ClaimIInv, ClaimTypeOK

\* A payout that has returned or failed leaves the frames below it.
LEMMA OuterKeepsIInv ==
    ASSUME ClaimIInv, stack # <<>>, stack' = Outer, UNCHANGED credited,
           world' \in {world, stack[Len(stack)].before}
    PROVE  ClaimIInv'
  <1>1. /\ stack \in Seq(Frames) /\ Len(stack) \in Nat \ {0}
        /\ \A i \in 1..Len(stack) : Settles(stack[i].before, credited)
        /\ world \in Worlds /\ Settles(world, credited)
        /\ PaidSince(stack[1].before, world)
        /\ \A i \in 1..Len(stack) : PaidSince(stack[1].before, stack[i].before)
    BY DEF ClaimIInv, ClaimTypeOK, WholePayments
  <1>2. /\ stack' \in Seq(Frames) /\ Len(stack') \in Nat
        /\ \A i \in 1..Len(stack') : i \in 1..Len(stack) /\ stack'[i] = stack[i]
    BY <1>1 DEF Outer
  <1>3. stack[Len(stack)].before \in Worlds /\ Len(stack) \in 1..Len(stack)
    <2>1. Len(stack) \in 1..Len(stack)
      BY <1>1
    <2>2. stack[Len(stack)] \in Frames
      BY <1>1, <2>1
    <2> QED  BY <2>1, <2>2 DEF Frames
  <1>4. world' \in Worlds /\ Settles(world', credited) /\ PaidSince(stack[1].before, world')
    BY <1>1, <1>3
  <1>5. stack' # <<>> => stack'[1] = stack[1]
    BY <1>2
  <1>6. WholePayments'
    <2>1. \A i \in 1..Len(stack') : PaidSince(stack[1].before, stack'[i].before)
      BY <1>1, <1>2
    <2> QED  BY <1>4, <1>5, <2>1 DEF WholePayments
  <1>7. \A i \in 1..Len(stack') : Settles(stack'[i].before, credited')
    BY <1>1, <1>2
  <1> QED  BY <1>1, <1>2, <1>4, <1>6, <1>7 DEF ClaimIInv, ClaimTypeOK

LEMMA ClaimStep == ClaimIInv /\ [ClaimsNext]_claimVars => ClaimIInv'
  <1> SUFFICES ASSUME ClaimIInv, [ClaimsNext]_claimVars PROVE ClaimIInv'
    OBVIOUS
  <1>0. /\ world \in Worlds /\ stack \in Seq(Frames) /\ credited \in [Payees -> Nat]
        /\ Settles(world, credited)
        /\ stack # <<>> => PaidSince(stack[1].before, world)
        /\ stack # <<>> => stack[1].before \in Worlds
    <2>1. stack \in Seq(Frames)
      BY DEF ClaimIInv, ClaimTypeOK
    <2>2. stack # <<>> => stack[1] \in Frames
      BY <2>1
    <2> QED  BY <2>1, <2>2 DEF ClaimIInv, ClaimTypeOK, WholePayments, Frames
  <1>1. ASSUME NEW who \in Payees, NEW amount \in 1..Funds, Credit(who, amount)
        PROVE  ClaimIInv'
    <2>1. /\ world.credit \in [Payees -> Nat] /\ world.paid \in [Payees -> Nat]
          /\ world.wealth \in [Payees -> Nat]
          /\ world.balance \in Nat /\ world.notes \in Nat
      BY <1>0, WorldFields
    <2>2. /\ world'.credit = [world.credit EXCEPT ![who] = @ + amount]
          /\ world'.paid = world.paid /\ world'.wealth = world.wealth
          /\ world'.balance = world.balance /\ world'.notes = world.notes - amount
          /\ world' = [credit |-> world'.credit, balance |-> world'.balance,
                       notes |-> world'.notes, wealth |-> world'.wealth,
                       paid |-> world'.paid]
      BY <1>0, <1>1 DEF Credit, Worlds
    <2>3. amount \in Nat /\ amount <= world.notes
      BY <1>1, <2>1 DEF Credit
    <2>4. world' \in Worlds
      <3>1. world'.credit \in [Payees -> Nat]
        BY <2>1, <2>2, <2>3
      <3>2. world'.notes \in Nat
        BY <2>1, <2>2, <2>3
      <3> QED  BY <2>1, <2>2, <3>1, <3>2 DEF Worlds
    <2>5. credited' = [credited EXCEPT ![who] = @ + amount] /\ stack' = <<>>
      BY <1>1 DEF Credit
    <2>6. credited' \in [Payees -> Nat]
      BY <1>0, <2>3, <2>5
    <2>7. SumFunction(world'.credit) = SumFunction(world.credit) + amount
      <3>1. world.credit[who] + amount \in Nat /\ SumFunction(world.credit) \in Nat
        BY <2>1, <2>3, ClaimsAssumption, TotalType
      <3>2. SumFunction([world.credit EXCEPT ![who] = @ + amount]) =
                SumFunction(world.credit) - world.credit[who] + (world.credit[who] + amount)
        BY <2>1, <3>1, ClaimsAssumption, TotalUpdated
      <3> QED  BY <2>1, <2>2, <2>3, <3>1, <3>2
    <2>8. \A a \in Payees : world'.credit[a] + world'.paid[a] = credited'[a]
      <3>1. ASSUME NEW a \in Payees, a # who
            PROVE  world'.credit[a] = world.credit[a] /\ credited'[a] = credited[a]
        BY <1>0, <2>1, <2>2, <2>5, <3>1
      <3>2. /\ world'.credit[who] = world.credit[who] + amount
            /\ credited'[who] = credited[who] + amount
        BY <1>0, <2>1, <2>2, <2>5
      <3>3. \A a \in Payees : /\ world.credit[a] \in Nat /\ world.paid[a] \in Nat
                                 /\ world.credit[a] + world.paid[a] = credited[a]
        BY <1>0, <2>1 DEF Settles
      <3> QED  BY <2>2, <2>3, <3>1, <3>2, <3>3
    <2>9. world'.balance = world'.notes + SumFunction(world'.credit)
      <3>1. SumFunction(world.credit) \in Nat
        BY <2>1, ClaimsAssumption, TotalType
      <3> QED  BY <1>0, <2>1, <2>2, <2>3, <2>7, <3>1 DEF Settles
    <2>10. Settles(world', credited')
      BY <2>8, <2>9 DEF Settles
    <2> QED  BY <2>4, <2>5, <2>6, <2>10 DEF ClaimIInv, ClaimTypeOK, WholePayments
  <1>2. ASSUME NEW who \in Payees, NEW value \in 1..Funds, Deposit(who, value)
        PROVE  ClaimIInv'
    <2>1. /\ world.credit \in [Payees -> Nat] /\ world.paid \in [Payees -> Nat]
          /\ world.wealth \in [Payees -> Nat]
          /\ world.balance \in Nat /\ world.notes \in Nat
      BY <1>0, WorldFields
    <2>2. /\ world'.credit = world.credit /\ world'.paid = world.paid
          /\ world'.wealth = [world.wealth EXCEPT ![who] = @ - value]
          /\ world'.balance = world.balance + value /\ world'.notes = world.notes + value
          /\ world' = [credit |-> world'.credit, balance |-> world'.balance,
                       notes |-> world'.notes, wealth |-> world'.wealth,
                       paid |-> world'.paid]
      BY <1>0, <1>2 DEF Deposit, Worlds
    <2>3. value \in Nat /\ value <= world.wealth[who]
      BY <1>2, <2>1 DEF Deposit
    <2>4. world' \in Worlds
      BY <2>1, <2>2, <2>3 DEF Worlds
    <2>5. SumFunction(world.credit) \in Nat
      BY <2>1, ClaimsAssumption, TotalType
    <2>6. Settles(world', credited)
      BY <1>0, <2>1, <2>2, <2>3, <2>5 DEF Settles
    <2>7. stack # <<>> => PaidSince(stack[1].before, world')
      BY <1>0, <2>2 DEF PaidSince
    <2>8. UNCHANGED <<stack, credited>>
      BY <1>2 DEF Deposit
    <2> QED  BY <2>4, <2>6, <2>7, <2>8, SameStackKeepsIInv
  <1>3. ASSUME NEW who \in Payees, Claimable(who), world' = Paid(world, who)
        PROVE  /\ world' \in Worlds /\ Settles(world', credited)
               /\ stack # <<>> => PaidSince(stack[1].before, world')
    BY <1>0, <1>3, PaidMovesCredit DEF Claimable
  <1>4. ASSUME NEW who \in Payees, ClaimToAccount(who) PROVE ClaimIInv'
    BY <1>3, <1>4, SameStackKeepsIInv DEF ClaimToAccount
  <1>5. ASSUME NEW who \in Payees, ClaimToContract(who) PROVE ClaimIInv'
    <2> DEFINE f == [who |-> who, before |-> world]
    <2>1. /\ Claimable(who) /\ world' = Paid(world, who)
          /\ stack' = Append(stack, f) /\ credited' = credited
      BY <1>5 DEF ClaimToContract
    <2>2. world' \in Worlds /\ Settles(world', credited)
          /\ (stack # <<>> => PaidSince(stack[1].before, world'))
      BY <1>3, <2>1
    <2>3. f \in Frames /\ f.before = world
      BY <1>0 DEF Frames
    <2> HIDE DEF f
    <2>4. /\ stack' \in Seq(Frames) /\ stack' # <<>>
          /\ Len(stack') = Len(stack) + 1 /\ stack'[Len(stack) + 1] = f
          /\ \A i \in 1..Len(stack) : stack'[i] = stack[i]
      BY <1>0, <2>1, <2>3
    <2>5. \A i \in 1..Len(stack') : stack'[i] = f \/ (i \in 1..Len(stack) /\ stack'[i] = stack[i])
      BY <1>0, <2>4
    <2>6. \A i \in 1..Len(stack') : Settles(stack'[i].before, credited')
      BY <1>0, <2>1, <2>3, <2>5 DEF ClaimIInv
    <2>7. WholePayments'
      <3>1. CASE stack = <<>>
        <4>1. Len(stack) = 0
          BY <3>1
        <4>2. stack'[1].before = world /\ \A i \in 1..Len(stack') : stack'[i].before = world
          BY <2>3, <2>4, <2>5, <4>1
        <4>3. PaidSince(world, world) /\ PaidSince(world, Paid(world, who))
          <5>1. PaidSince(world, world)
            BY DEF PaidSince
          <5> QED  BY <1>0, <2>1, <5>1, PaidMovesCredit DEF Claimable
        <4> QED  BY <2>1, <4>2, <4>3 DEF WholePayments
      <3>2. CASE stack # <<>>
        <4>1. 1 \in 1..Len(stack)
          BY <1>0, <3>2
        <4>2. stack'[1] = stack[1]
          BY <2>4, <4>1
        <4>3. \A i \in 1..Len(stack') : PaidSince(stack[1].before, stack'[i].before)
          BY <1>0, <2>3, <2>5, <3>2 DEF ClaimIInv, WholePayments
        <4> QED  BY <2>2, <3>2, <4>2, <4>3 DEF WholePayments
      <3> QED  BY <3>1, <3>2
    <2> QED  BY <1>0, <2>1, <2>2, <2>4, <2>6, <2>7 DEF ClaimIInv, ClaimTypeOK
  <1>6. CASE PayeeReturns
    BY <1>6, OuterKeepsIInv DEF PayeeReturns
  <1>7. CASE PayeeFails
    BY <1>7, OuterKeepsIInv DEF PayeeFails, Undone
  <1>8. CASE UNCHANGED claimVars
    BY <1>0, <1>8, SameStackKeepsIInv DEF claimVars
  <1> QED  BY <1>1, <1>2, <1>4, <1>5, <1>6, <1>7, <1>8 DEF ClaimsNext

(***************************************************************************)
(* claimWithdrawal zeroes the credit before it calls, so no recipient is   *)
(* paid a credit twice or loses one, however deep it calls back.           *)
(***************************************************************************)
THEOREM PaidOnceHolds == ClaimsSpec => []PaidOnce
  <1>1. ClaimIInv => PaidOnce
    BY DEF ClaimIInv, Settles, PaidOnce
  <1> QED  BY <1>1, ClaimInit, ClaimStep, PTL DEF ClaimsSpec

(***************************************************************************)
(* At every moment of every nest of payouts the pool holds just the value  *)
(* of the notes and the credits: nobody is paid from what backs another.   *)
(***************************************************************************)
THEOREM BackedHolds == ClaimsSpec => []Backed
  <1>1. ClaimIInv => Backed
    BY DEF ClaimIInv, Settles, Backed
  <1> QED  BY <1>1, ClaimInit, ClaimStep, PTL DEF ClaimsSpec

-----------------------------------------------------------------------------
\* What PaidSince allows is one payout of the accounts that were paid.
LEMMA PaidSinceIsPayOut ==
    ASSUME NEW v \in Worlds, NEW w \in Worlds, PaidSince(v, w)
    PROVE  \E payees \in SUBSET Payees :
               /\ w.credit = [who \in Payees |-> IF who \in payees THEN 0 ELSE v.credit[who]]
               /\ w.paid = [who \in Payees |->
                               v.paid[who] + (IF who \in payees THEN v.credit[who] ELSE 0)]
  <1> DEFINE P == {who \in Payees : w.credit[who] = 0 /\ w.paid[who] = v.paid[who] + v.credit[who]}
  <1>1. /\ v.credit \in [Payees -> Nat] /\ v.paid \in [Payees -> Nat]
        /\ w.credit \in [Payees -> Nat] /\ w.paid \in [Payees -> Nat]
    BY WorldFields
  <1>2. ASSUME NEW who \in Payees
        PROVE  /\ w.credit[who] = IF who \in P THEN 0 ELSE v.credit[who]
               /\ w.paid[who] = v.paid[who] + (IF who \in P THEN v.credit[who] ELSE 0)
    BY <1>1 DEF PaidSince
  <1> HIDE DEF P
  <1>3. w.credit = [who \in Payees |-> IF who \in P THEN 0 ELSE v.credit[who]]
    BY <1>1, <1>2
  <1>4. w.paid = [who \in Payees |-> v.paid[who] + (IF who \in P THEN v.credit[who] ELSE 0)]
    BY <1>1, <1>2
  <1> QED  BY <1>3, <1>4 DEF P

LEMMA OneOrMore ==
    ASSUME NEW n \in Nat \ {0}
    PROVE  n > 1 \/ n = 1
  OBVIOUS

\* A step of a claim is a step of the pull payments, or none.
LEMMA ClaimStepRefines ==
    ClaimIInv /\ [ClaimsNext]_claimVars => [Pulls!PullNext]_(Pulls!pullVars)
  <1> SUFFICES ASSUME ClaimIInv, [ClaimsNext]_claimVars
               PROVE  Pulls!PullNext \/ UNCHANGED Pulls!pullVars
    OBVIOUS
  <1>0. world \in Worlds /\ stack \in Seq(Frames)
    BY DEF ClaimIInv, ClaimTypeOK
  <1>1. ASSUME stack = <<>>, stack' = <<>>, PaidSince(world, world'), world' \in Worlds
        PROVE  Pulls!PullNext
    <2>1. Durable = world /\ Durable' = world'
      BY <1>1 DEF Durable
    <2>2. PICK payees \in SUBSET Payees :
              /\ world'.credit = [who \in Payees |->
                                     IF who \in payees THEN 0 ELSE world.credit[who]]
              /\ world'.paid = [who \in Payees |->
                    world.paid[who] + (IF who \in payees THEN world.credit[who] ELSE 0)]
      BY <1>0, <1>1, PaidSinceIsPayOut
    <2>3. Pulls!PayOut(payees)
      BY <2>1, <2>2 DEF Pulls!PayOut
    <2> QED  BY <2>3 DEF Pulls!PullNext
  <1>2. ASSUME Durable'.credit = Durable.credit, Durable'.paid = Durable.paid
        PROVE  UNCHANGED Pulls!pullVars
    BY <1>2 DEF Pulls!pullVars
  <1>3. ASSUME stack # <<>>, stack' # <<>>, stack'[1] = stack[1]
        PROVE  UNCHANGED Pulls!pullVars
    BY <1>2, <1>3 DEF Durable
  <1>4. ASSUME NEW who \in Payees, NEW amount \in 1..Funds, Credit(who, amount)
        PROVE  Pulls!PullNext
    <2>1. /\ world.credit \in [Payees -> Nat]
          /\ world'.credit = [world.credit EXCEPT ![who] = @ + amount]
          /\ world'.paid = world.paid
          /\ Durable = world /\ Durable' = world'
      BY <1>0, <1>4 DEF Credit, Worlds, Durable
    <2>2. Durable'.credit[who] > Durable.credit[who]
      BY <2>1
    <2>3. Durable'.credit = [Durable.credit EXCEPT ![who] = Durable'.credit[who]]
      BY <2>1
    <2>4. Pulls!Owe(who)
      BY <2>1, <2>2, <2>3 DEF Pulls!Owe
    <2> QED  BY <2>4 DEF Pulls!PullNext
  <1>5. ASSUME NEW who \in Payees, NEW value \in 1..Funds, Deposit(who, value)
        PROVE  UNCHANGED Pulls!pullVars
    <2>1. world'.credit = world.credit /\ world'.paid = world.paid /\ stack' = stack
      BY <1>0, <1>5 DEF Deposit, Worlds
    <2> QED  BY <1>2, <2>1 DEF Durable
  <1>6. ASSUME NEW who \in Payees, ClaimToAccount(who)
        PROVE  Pulls!PullNext \/ UNCHANGED Pulls!pullVars
    <2>1. CASE stack = <<>>
      <3>1. PaidSince(world, world)
        BY DEF PaidSince
      <3>2. PaidSince(world, world') /\ world' \in Worlds
        BY <1>0, <1>6, <3>1, PaidMovesCredit DEF ClaimToAccount, Claimable
      <3> QED  BY <1>1, <1>6, <2>1, <3>2 DEF ClaimToAccount
    <2>2. CASE stack # <<>>
      BY <1>3, <1>6, <2>2 DEF ClaimToAccount
    <2> QED  BY <2>1, <2>2
  <1>7. ASSUME NEW who \in Payees, ClaimToContract(who)
        PROVE  UNCHANGED Pulls!pullVars
    <2>1. CASE stack = <<>>
      <3>1. stack' = <<[who |-> who, before |-> world]>>
        BY <1>7, <2>1 DEF ClaimToContract
      <3>2. Durable = world /\ Durable' = world
        BY <2>1, <3>1 DEF Durable
      <3> QED  BY <1>2, <3>2
    <2>2. CASE stack # <<>>
      <3> DEFINE f == [who |-> who, before |-> world]
      <3>1. f \in Frames
        BY <1>0 DEF Frames
      <3>2. stack' = Append(stack, f)
        BY <1>7 DEF ClaimToContract
      <3> HIDE DEF f
      <3>3. stack' # <<>> /\ stack'[1] = stack[1]
        BY <1>0, <2>2, <3>1, <3>2
      <3> QED  BY <1>3, <2>2, <3>3
    <2> QED  BY <2>1, <2>2
  <1>8. ASSUME stack # <<>>, stack' = Outer,
               \/ world' = world
               \/ world' = stack[Len(stack)].before
        PROVE  Pulls!PullNext \/ UNCHANGED Pulls!pullVars
    <2>1. Len(stack) \in Nat \ {0} /\ Len(stack) \in 1..Len(stack) /\ 1 \in 1..Len(stack)
      BY <1>0, <1>8
    <2>2. CASE Len(stack) > 1
      <3>1. Len(stack') = Len(stack) - 1 /\ stack'[1] = stack[1]
        BY <1>0, <1>8, <2>1, <2>2 DEF Outer
      <3>2. stack' # <<>>
        BY <2>1, <2>2, <3>1
      <3> QED  BY <1>3, <1>8, <3>1, <3>2
    <2>3. CASE Len(stack) = 1
      <3>1. stack' = <<>> /\ stack[1] \in Frames
        BY <1>0, <1>8, <2>1, <2>3 DEF Outer
      <3>2. Durable = stack[1].before /\ Durable' = world' /\ Durable \in Worlds
        BY <1>8, <3>1 DEF Durable, Frames
      <3>3. CASE world' = world
        <4>1. PaidSince(Durable, world) /\ world \in Worlds
          BY <1>0, <1>8, <3>2 DEF ClaimIInv, WholePayments
        <4>2. PICK payees \in SUBSET Payees :
                  /\ world.credit = [who \in Payees |->
                                        IF who \in payees THEN 0 ELSE Durable.credit[who]]
                  /\ world.paid = [who \in Payees |->
                        Durable.paid[who] + (IF who \in payees THEN Durable.credit[who] ELSE 0)]
          BY <3>2, <4>1, PaidSinceIsPayOut
        <4>3. Pulls!PayOut(payees)
          BY <3>2, <3>3, <4>2 DEF Pulls!PayOut
        <4> QED  BY <4>3 DEF Pulls!PullNext
      <3>4. CASE world' = stack[Len(stack)].before
        BY <1>2, <2>3, <3>2, <3>4
      <3> QED  BY <1>8, <3>3, <3>4
    <2>4. Len(stack) > 1 \/ Len(stack) = 1
      BY <2>1, OneOrMore
    <2> QED  BY <2>2, <2>3, <2>4
  <1>9. CASE PayeeReturns
    BY <1>8, <1>9 DEF PayeeReturns
  <1>10. CASE PayeeFails
    BY <1>8, <1>10 DEF PayeeFails, Undone
  <1>11. CASE UNCHANGED claimVars
    BY <1>2, <1>11 DEF claimVars, Durable
  <1> QED  BY <1>4, <1>5, <1>6, <1>7, <1>9, <1>10, <1>11 DEF ClaimsNext

(***************************************************************************)
(* Between transactions nobody can tell a claim whose payee runs code from *)
(* a payout in one step: this is what lets ShieldedPoolLogic model         *)
(* claimWithdrawal as one action.                                          *)
(***************************************************************************)
THEOREM ClaimsAreStepsHolds == ClaimsSpec => ClaimsAreSteps
  <1>1. ClaimsInit => Pulls!PullInit
    BY DEF ClaimsInit, Pulls!PullInit, Durable, Nothing
  <1> QED
    BY <1>1, ClaimInit, ClaimStep, ClaimStepRefines, PTL
       DEF ClaimsSpec, ClaimsAreSteps, Pulls!PullSpec
=============================================================================
