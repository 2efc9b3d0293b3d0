---------------------------- MODULE ZeroHeightExport ----------------------------
(***************************************************************************)
(* ExportAppStateAndValidators for height zero, of examples/wasmd/app and  *)
(* examples/simd/app: after a history of delegations, fees and slashes the *)
(* export withdraws every reward, throws the reward periods away, sets     *)
(* validators and delegations up again and resets heights.  An export for  *)
(* the height of the chain leaves all as it is.                            *)
(*                                                                         *)
(* What x/distribution and x/staking do (external) is modelled as far as   *)
(* the export relies on it: reference counted reward periods, amounts with *)
(* fractions that are cut when coins are paid, the bonded set.  A slash is *)
(* of a fraction that is lost in rounding.  Each delegation is one token.  *)
(***************************************************************************)
EXTENDS Integers, FiniteSets, FiniteSetsExt

CONSTANTS
    Validators,    \* numbers, in the order of their addresses; operators are accounts
    Delegators,    \* further accounts
    Unit,          \* fractions in a coin
    Fee,           \* coins of fees in a block that has some
    MaxBlocks      \* of the history before the export

ASSUME ExportAssumption ==
    /\ Validators \subseteq Nat /\ IsFiniteSet(Validators) /\ IsFiniteSet(Delegators)
    /\ Unit \in Nat \ {0} /\ Fee \in Nat /\ MaxBlocks \in Nat

VARIABLES
    pc,            \* the next step of the export, "chain" before it
    height, maxBonded,
    delegations,   \* <<account, validator>>
    bonded, jailed,
    unbondingHeight, startHeight,   \* of validators and their signing infos
    entries,       \* unbonding delegations and redelegations
    s,             \* the store of x/distribution and what accounts were paid
    args,          \* of the export: the app, whether for zero height, the allowed
                   \* validators, blocked accounts
    due            \* history: what was to be paid and refused when the export began

vars == <<pc, height, maxBonded, delegations, bonded, jailed, unbondingHeight,
          startHeight, entries, s, args, due>>
staking == <<height, maxBonded, delegations, bonded, jailed, unbondingHeight,
             startHeight, entries>>

Accounts == Validators \cup Delegators
Pairs == Accounts \X Validators
Tokens(dels, v) == Cardinality({d \in dels : d[2] = v})
CoinsIn(amount) == amount - (amount % Unit)

-----------------------------------------------------------------------------
(* x/distribution (external) *)

NewValidator == [outstanding |-> 0, commission |-> 0, rewards |-> 0, period |-> 1,
                 history |-> [p \in {0} |-> [ratio |-> 0, refs |-> 1]]]

Refs(t, v, p) ==
    IF p \in DOMAIN t.val[v].history THEN t.val[v].history[p].refs ELSE 0
Ratio(t, v, p) ==
    IF p \in DOMAIN t.val[v].history THEN t.val[v].history[p].ratio ELSE 0
Panic(t) == [t EXCEPT !.panicked = TRUE]
TotalOutstanding(t) == SumFunction([v \in Validators |-> t.val[v].outstanding])

SetHistory(t, v, p, ratio, refs) ==
    [t EXCEPT !.val[v].history =
        [q \in DOMAIN @ \cup {p} |-> IF q = p THEN [ratio |-> ratio, refs |-> refs] ELSE @[q]]]

incrementReferenceCount(t, v, p) ==
    IF Refs(t, v, p) > 2 THEN Panic(t)
    ELSE SetHistory(t, v, p, Ratio(t, v, p), Refs(t, v, p) + 1)

decrementReferenceCount(t, v, p) ==
    CASE Refs(t, v, p) = 0 -> Panic(t)
      [] Refs(t, v, p) = 1 ->
            [t EXCEPT !.val[v].history = [q \in DOMAIN @ \ {p} |-> @[q]]]
      [] OTHER -> SetHistory(t, v, p, Ratio(t, v, p), Refs(t, v, p) - 1)

\* Ends the current period of v: its rewards go into the ratio per token.
IncrementValidatorPeriod(t, v, tokens) ==
    LET p == t.val[v].period
        ratio == Ratio(t, v, p - 1) + t.val[v].rewards \div tokens
    IN [SetHistory(decrementReferenceCount(t, v, p - 1), v, p, ratio, 1)
            EXCEPT !.val[v].rewards = 0, !.val[v].period = p + 1]

initializeDelegation(t, d, h) ==
    LET p == t.val[d[2]].period - 1 IN
    [incrementReferenceCount(t, d[2], p)
        EXCEPT !.starting = [e \in DOMAIN @ \cup {d} |->
                                IF e = d THEN [period |-> p, height |-> h] ELSE @[e]]]

\* What d has earned, with the rewards of the current period; nothing in the
\* block in which it started.
Earned(t, d, tokens, h) ==
    IF t.starting[d].height = h THEN 0
    ELSE Ratio(t, d[2], t.val[d[2]].period - 1) + t.val[d[2]].rewards \div tokens
            - Ratio(t, d[2], t.starting[d].period)

Payable(t, d, tokens, h) == Min({Earned(t, d, tokens, h), t.val[d[2]].outstanding})

Pay(t, a, coins) == [t EXCEPT !.balance = @ - coins, !.paid[a] = @ + coins]

\* Pays d and forgets its start.
withdrawDelegationRewards(t, d, tokens, h) ==
    LET amount == Payable(t, d, tokens, h)
        t1 == IncrementValidatorPeriod(t, d[2], tokens)
        t2 == [Pay(t1, d[1], CoinsIn(amount)) EXCEPT
                  !.val[d[2]].outstanding = @ - amount,
                  !.pool = @ + (amount % Unit),
                  !.starting = [e \in DOMAIN @ \ {d} |-> @[e]]]
    IN IF d \notin DOMAIN t.starting \/ Earned(t, d, tokens, h) < 0 THEN Panic(t)
       ELSE decrementReferenceCount(t2, d[2], t.starting[d].period)

Refused(t, d, tokens, h, blocked) ==
    d[1] \in blocked /\ CoinsIn(Payable(t, d, tokens, h)) > 0

\* A refused payment leaves the period incremented, and nothing else.
WithdrawDelegationRewards(t, d, tokens, h, blocked) ==
    IF Refused(t, d, tokens, h, blocked) THEN IncrementValidatorPeriod(t, d[2], tokens)
    ELSE initializeDelegation(withdrawDelegationRewards(t, d, tokens, h), d, h)

\* A refused payment leaves the commission withdrawn from the books.
WithdrawValidatorCommission(t, v, blocked) ==
    LET coins == CoinsIn(t.val[v].commission)
        t1 == [t EXCEPT !.val[v].commission = @ - coins, !.val[v].outstanding = @ - coins]
    IN IF v \in blocked THEN t1 ELSE Pay(t1, v, coins)

-----------------------------------------------------------------------------
(* The chain before the export (external) *)

\* The first maxBonded validators by tokens, then by address.
TopValidators(dels, out) ==
    LET index == Validators \ out
        Before(w, v) == \/ Tokens(dels, w) > Tokens(dels, v)
                        \/ Tokens(dels, w) = Tokens(dels, v) /\ w < v
    IN {v \in index : Cardinality({w \in index : Before(w, v)}) < maxBonded}

NoArgs == [app |-> "wasmd", zero |-> FALSE, allowed |-> {}, blocked |-> {}]

\* A validator whose operator has delegated to it: the delegation ended a period.
OwnDelegation ==
    [NewValidator EXCEPT !.period = 2, !.history = [p \in {1} |-> [ratio |-> 0, refs |-> 2]]]

NothingDue == [paid |-> [a \in Accounts |-> 0], refused |-> 0]

Init ==
    /\ pc = "chain"
    /\ height = 1
    /\ maxBonded \in 1..Cardinality(Validators)
    /\ delegations = {<<v, v>> : v \in Validators}
    /\ jailed = {}
    /\ bonded = TopValidators(delegations, {})
    /\ unbondingHeight = [v \in Validators |-> 0]
    /\ startHeight = [v \in Validators |-> 0]
    /\ entries = {}
    /\ s = [val |-> [v \in Validators |-> OwnDelegation],
            starting |-> [d \in delegations |-> [period |-> 1, height |-> 0]],
            slashes |-> {}, pool |-> 0, balance |-> 0,
            paid |-> [a \in Accounts |-> 0], panicked |-> FALSE]
    /\ args = NoArgs
    /\ due = NothingDue

\* The end of a block: the bonded set follows the power index.  A chain that is
\* left without validators halts.
EndBlock(dels, out) ==
    LET top == TopValidators(dels, out) IN
    /\ pc = "chain" /\ height <= MaxBlocks
    /\ top # {}
    /\ height' = height + 1
    /\ delegations' = dels
    /\ jailed' = out
    /\ bonded' = top
    /\ unbondingHeight' = [v \in Validators |->
                              IF v \in bonded \ top THEN height + 1 ELSE unbondingHeight[v]]
    /\ startHeight' = [v \in Validators |->
                          IF v \in top \ bonded THEN height + 1 ELSE startHeight[v]]
    /\ UNCHANGED <<pc, maxBonded, args, due>>

\* Fees are shared by tokens, half of a share is commission.
Fees ==
    LET total == Cardinality({d \in delegations : d[2] \in bonded})
        Share(v) == (Fee * Unit * Tokens(delegations, v)) \div total
        t == FoldSet(LAMBDA v, u : [u EXCEPT !.val[v].outstanding = @ + Share(v),
                                        !.val[v].commission = @ + Share(v) \div 2,
                                        !.val[v].rewards = @ + Share(v) - Share(v) \div 2],
                     s, bonded)
    IN /\ s' = [t EXCEPT !.balance = @ + Fee * Unit,
                         !.pool = @ + Fee * Unit - SumFunction([v \in bonded |-> Share(v)])]
       /\ EndBlock(delegations, jailed)
       /\ UNCHANGED entries

Started(t, d) ==
    initializeDelegation(IncrementValidatorPeriod(t, d[2], Tokens(delegations, d[2])), d,
                         height + 1)
Ended(t, d) == withdrawDelegationRewards(t, d, Tokens(delegations, d[2]), height + 1)

Delegate(d) ==
    /\ d \notin delegations
    /\ s' = Started(s, d)
    /\ EndBlock(delegations \cup {d}, jailed)
    /\ UNCHANGED entries

\* Operators keep their own delegation.
Undelegate(d) ==
    /\ d \in delegations /\ d[1] # d[2]
    /\ s' = Ended(s, d)
    /\ EndBlock(delegations \ {d}, jailed)
    /\ entries' = entries \cup {[from |-> d, to |-> 0, height |-> height + 1]}

Redelegate(d, v) ==
    /\ d \in delegations /\ d[1] # d[2] /\ <<d[1], v>> \notin delegations
    /\ s' = Started(Ended(s, d), <<d[1], v>>)
    /\ EndBlock((delegations \ {d}) \cup {<<d[1], v>>}, jailed)
    /\ entries' = entries \cup {[from |-> d, to |-> v, height |-> height + 1]}

\* A slash ends a period, which its event refers to, and jails.
Slash(v) ==
    LET t == IncrementValidatorPeriod(s, v, Tokens(delegations, v)) IN
    /\ v \in bonded
    /\ s' = [incrementReferenceCount(t, v, t.val[v].period - 1) EXCEPT
                !.slashes = @ \cup {[val |-> v, height |-> height + 1,
                                     period |-> t.val[v].period - 1]}]
    /\ EndBlock(delegations, jailed \cup {v})
    /\ UNCHANGED entries

Unjail(v) ==
    /\ v \in jailed
    /\ EndBlock(delegations, jailed \ {v})
    /\ UNCHANGED <<entries, s>>

Chain ==
    \/ Fees
    \/ \E d \in Pairs : Delegate(d) \/ Undelegate(d) \/ \E v \in Validators : Redelegate(d, v)
    \/ \E v \in Validators : Slash(v) \/ Unjail(v)

-----------------------------------------------------------------------------
(* ExportAppStateAndValidators *)

\* What every account is to be paid by an export now, and the commissions that
\* cannot be paid.
Due(blocked) ==
    LET Commission(v) == CoinsIn(s.val[v].commission)
        Reward(d) == CoinsIn(Payable(s, d, Tokens(delegations, d[2]), height))
        Of(a) == SumFunction([d \in {e \in delegations : e[1] = a} |-> Reward(d)])
                    + (IF a \in Validators \ blocked THEN Commission(a) ELSE 0)
    IN [paid |-> [a \in Accounts |-> s.paid[a] + Of(a)],
        refused |-> SumFunction([v \in Validators \cap blocked |-> Commission(v)])]

\* Mutant: nothing is asserted.
AssertInvariantsNot(blocked) == TRUE

\* CanWithdrawInvariant panics if a delegation cannot be withdrawn; commissions
\* it ignores.  The other invariants are among the properties below.
AssertInvariants(blocked) ==
    \A d \in delegations : ~Refused(s, d, Tokens(delegations, d[2]), height, blocked)

\* At most one account is blocked.
Blockable == {b \in SUBSET Accounts : Cardinality(b) <= 1}

\* The allowed validators and the blocked accounts: one of the lists is empty.
Lists == ((SUBSET Validators) \X {{}}) \cup ({{}} \X Blockable)

\* A jail list that is empty is none.  Without zero the lists are not looked at.
Export(app, zero, allowed, blocked) ==
    /\ pc = "chain"
    /\ args' = [app |-> app, zero |-> zero, allowed |-> allowed, blocked |-> blocked]
    /\ due' = IF zero THEN Due(blocked) ELSE NothingDue
    /\ pc' = CASE ~zero -> "done"
               [] zero /\ AssertInvariants(blocked) -> "commissions"
               [] OTHER -> "failed"
    /\ UNCHANGED <<staking, s>>

\* The height before the first block of the new chain.
ExportedHeight == IF args.zero THEN 0 ELSE height

\* One part of prepForZeroHeightGenesis that leaves staking alone.
Part(from, to, t) ==
    /\ pc = from
    /\ s' = t
    /\ pc' = IF t.panicked THEN "failed" ELSE to
    /\ UNCHANGED <<staking, args, due>>

\* Errors are ignored.
AllCommissions ==
    FoldSet(LAMBDA v, t : WithdrawValidatorCommission(t, v, args.blocked), s, Validators)

\* An error is a panic in wasmd, and ignored in simd.
WasmdWithdraws(t, d, tokens) ==
    IF Refused(t, d, tokens, height, args.blocked) THEN Panic(t)
    ELSE WithdrawDelegationRewards(t, d, tokens, height, args.blocked)

SimdWithdraws(t, d, tokens) == WithdrawDelegationRewards(t, d, tokens, height, args.blocked)

AllRewards ==
    FoldSet(LAMBDA d, t : IF args.app = "wasmd"
                          THEN WasmdWithdraws(t, d, Tokens(delegations, d[2]))
                          ELSE SimdWithdraws(t, d, Tokens(delegations, d[2])),
            s, delegations)

\* Mutant: slash events are left.
ClearedNotSlashes ==
    [s EXCEPT !.val = [v \in Validators |-> [s.val[v] EXCEPT !.history = <<>>]]]

Cleared ==
    [s EXCEPT !.slashes = {},
              !.val = [v \in Validators |-> [s.val[v] EXCEPT !.history = <<>>]]]

\* Mutant: the scraps are read after the validator was set up.
ResetValidatorsFirst == [s EXCEPT !.val = [v \in Validators |-> NewValidator]]

\* Scraps are donated before AfterValidatorCreated sets the rewards to zero.
ResetValidators ==
    [s EXCEPT !.pool = @ + TotalOutstanding(s),
              !.val = [v \in Validators |-> NewValidator]]

\* Mutants: the context keeps its height; a height that is not set is minus one.
ResetHeightKept == height
ResetHeightUnset == -1

\* The height of the context while validators and delegations are set up.
ResetHeight == 0

ResetDelegations ==
    FoldSet(LAMBDA d, t :
                initializeDelegation(
                    IncrementValidatorPeriod(t, d[2], Tokens(delegations, d[2])), d, ResetHeight),
            s, delegations)

ResetEntries ==
    /\ pc = "entries"
    /\ entries' = {[e EXCEPT !.height = 0] : e \in entries}
    /\ pc' = "validators"
    /\ UNCHANGED <<height, maxBonded, delegations, bonded, jailed, unbondingHeight,
                   startHeight, s, args, due>>

\* Mutant: without the test for an empty list.
NowJailedAlways == Validators \ args.allowed

NowJailed == IF args.allowed # {} THEN Validators \ args.allowed ELSE {}

\* ApplyAndReturnValidatorSetUpdates walks the power index, which still has those
\* that were just jailed, as far as the bonded set reaches, and panics on one
\* that is jailed.  Powers are what they were, so nothing else changes.
ResetBondedValidators ==
    /\ pc = "validators"
    /\ unbondingHeight' = [v \in Validators |-> 0]
    /\ jailed' = jailed \cup NowJailed
    /\ pc' = IF bonded \cap jailed' = {} THEN "signing" ELSE "failed"
    /\ UNCHANGED <<height, maxBonded, delegations, bonded, startHeight, entries, s, args, due>>

ResetSigningInfos ==
    /\ pc = "signing"
    /\ startHeight' = [v \in Validators |-> 0]
    /\ pc' = "done"
    /\ UNCHANGED <<height, maxBonded, delegations, bonded, jailed, unbondingHeight, entries,
                   s, args, due>>

Exported == pc \in {"failed", "done"} /\ UNCHANGED vars

prepForZeroHeightGenesis ==
    \/ Part("commissions", "rewards", AllCommissions)
    \/ Part("rewards", "clear", AllRewards)
    \/ Part("clear", "reset", Cleared)
    \/ Part("reset", "delegations", ResetValidators)
    \/ Part("delegations", "entries", ResetDelegations)
    \/ ResetEntries \/ ResetBondedValidators \/ ResetSigningInfos

ExportAppStateAndValidators ==
    \/ \E app \in {"wasmd", "simd"}, lists \in Lists : Export(app, TRUE, lists[1], lists[2])
    \/ \E blocked \in Blockable : Export("simd", FALSE, {}, blocked)
    \/ prepForZeroHeightGenesis

Next == Chain \/ ExportAppStateAndValidators \/ Exported

Spec == Init /\ [][Next]_vars

-----------------------------------------------------------------------------
(* Properties *)

Records == [period: Nat, height: Nat]

TypeOK ==
    /\ pc \in {"chain", "commissions", "rewards", "clear", "reset", "delegations",
               "entries", "validators", "signing", "done", "failed", "refused"}
    /\ height \in Nat /\ maxBonded \in Nat
    /\ delegations \subseteq Pairs
    /\ bonded \subseteq Validators /\ jailed \subseteq Validators
    /\ unbondingHeight \in [Validators -> Nat] /\ startHeight \in [Validators -> Nat]
    /\ \A e \in entries : e.height \in Nat
    /\ \A v \in Validators :
          LET val == s.val[v] IN
          /\ {val.outstanding, val.commission, val.rewards, val.period} \subseteq Nat
          /\ \A p \in DOMAIN val.history : val.history[p] \in [ratio: Nat, refs: 1..2]
    /\ \A d \in DOMAIN s.starting : d \in delegations /\ s.starting[d] \in Records
    /\ s.pool \in Nat /\ s.balance \in Nat /\ s.paid \in [Accounts -> Nat]

\* The account of the module holds what the books say: rewards that are not
\* withdrawn and the community pool.  What the export pays, donates and resets
\* stays in balance but for commissions that it could not pay: these errors are
\* ignored after the commission has left the books.
BooksBalance ==
    LET refused == IF pc = "commissions" THEN 0 ELSE due.refused
    IN pc # "failed" => s.balance = TotalOutstanding(s) + s.pool + refused

\* Whoever could be paid has been paid all they had earned when the export began,
\* in both apps, although simd ignores the errors of withdrawals that wasmd panics
\* on: no part of the export loses what another should have paid.
PaidInFull ==
    /\ pc \in {"clear", "reset", "delegations", "entries", "validators", "signing"} =>
          s.paid = due.paid
    /\ pc = "done" /\ args.zero => s.paid = due.paid

\* Every reward period is kept as often as something refers to it: as the last
\* one, the start of a delegation or a slash.  The export throws all of them away
\* and sets up new ones; from the new ones the rewards of all can be computed.
PeriodsReferred ==
    pc \in {"chain", "commissions", "rewards", "clear", "entries", "validators", "signing",
            "done"} =>
        /\ DOMAIN s.starting = delegations
        /\ \A v \in Validators : \A p \in 0..s.val[v].period :
              Refs(s, v, p) =
                  (IF p = s.val[v].period - 1 THEN 1 ELSE 0)
                  + Cardinality({d \in delegations : d[2] = v /\ s.starting[d].period = p})
                  + Cardinality({e \in s.slashes : e.val = v /\ e.period = p})

\* No record of a chain is from a height it has not reached, nor from one ahead
\* of the height its export starts the new chain at: what is ahead would count as
\* not there, or not over, until the new chain gets so far.
NothingFromTheFuture ==
    pc \in {"chain", "done"} =>
        LET last == IF pc = "chain" THEN height ELSE ExportedHeight IN
        /\ \A e \in s.slashes : e.height <= last
        /\ \A d \in DOMAIN s.starting : s.starting[d].height <= last
        /\ \A e \in entries : e.height <= last
        /\ \A v \in Validators : unbondingHeight[v] <= last /\ startHeight[v] <= last

\* The export fails only for an account that cannot be paid or because a jail
\* list leaves out a bonded validator, which is still in the power index; when it
\* is done, every validator of the new chain is one that the list allows.
OnlyJailingFails ==
    /\ pc = "failed" =>
          \/ \E d \in delegations : d[1] \in args.blocked
          \/ args.allowed # {} /\ ~(bonded \subseteq args.allowed)
    /\ pc = "done" /\ args.zero => args.allowed = {} \/ bonded \subseteq args.allowed
=============================================================================
