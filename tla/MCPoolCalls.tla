---------------------------- MODULE MCPoolCalls ----------------------------
(***************************************************************************)
(* Model values and bounds for checking ShieldedPoolCalls and GasProfile.  *)
(***************************************************************************)
EXTENDS GasProfile, TLC

CONSTANTS
    a,              \* the canonical inner that is shielded
    Fresh,          \* others, numbered: the notes that settlements create
    TooLarge,       \* a word that is not below the field order
    Stranger, Alice \* a caller that is not the pool, a recipient

MCInners == {a, TooLarge}
MCNonCanonical == {TooLarge}
MCValues == {0, 1, MAX_VALUE}
MCSenders == {Pool, Stranger}
MCAccounts == {Alice}
MCSources == 0..MaxEpoch

Note(inner) == Commit(inner, 1)

\* Two created notes, the same one twice included, in one of their orders.
MCFreshPairs == {pair \in Fresh \X Fresh : pair[1] <= pair[2]}

Template ==
    [root |-> Zero, rootSlot |-> 0, epoch |-> 0, domain |-> PoolDomain,
     nf1 |-> [of |-> 1], nf2 |-> [of |-> 2], outCm1 |-> SINK_0, outCm2 |-> SINK_1,
     publicAmount |-> 0, fee |-> 0, recipient |-> NoAddress, authorizer |-> Stranger]

\* Transfers, exits and mixes of both, and one defect of each kind.
MCSpends ==
    {[Template EXCEPT !.outCm1 = x, !.outCm2 = y] :
        x \in {Note(a), SINK_0, SINK_1}, y \in {Note(a), SINK_0, SINK_1}}
    \cup {[Template EXCEPT !.outCm1 = Note(inner), !.outCm2 = y] :
        inner \in Fresh, y \in {Note(a), SINK_0, SINK_1}}
    \cup {[Template EXCEPT !.outCm1 = x, !.outCm2 = Note(inner)] :
        inner \in Fresh, x \in {Note(a), SINK_0, SINK_1}}
    \cup {[Template EXCEPT !.outCm1 = Note(pair[1]), !.outCm2 = Note(pair[2])] :
        pair \in MCFreshPairs}
    \cup {[Template EXCEPT !.outCm1 = Note(pair[1]), !.outCm2 = Note(pair[2]),
                           !.publicAmount = 1, !.recipient = Alice] : pair \in MCFreshPairs}
    \cup {[Template EXCEPT !.publicAmount = 1, !.recipient = who] : who \in {Alice, NoAddress}}
    \cup {[Template EXCEPT !.outCm1 = Note(a), !.epoch = 1, !.publicAmount = 1, !.recipient = Alice],
          [Template EXCEPT !.outCm1 = TooLarge],
          [Template EXCEPT !.nf1 = Zero],
          [Template EXCEPT !.publicAmount = MAX_VALUE, !.recipient = Alice],
          [Template EXCEPT !.domain = TooLarge]}

\* Bound of the model: each account is owed little.
BoundedCredit == \A who \in Accounts : withdrawalCredit[who] <= 1

\* Bound of the model: three epochs and three slots, but not the last of both.
EpochsOrSlots == currentEpoch + slot <= 3

\* Nothing tells the created notes apart, so they are used by their numbers.
InOrder ==
    \A inner \in Fresh : Note(inner) \in isLeaf => \A less \in 1..inner : Note(less) \in isLeaf
=============================================================================
