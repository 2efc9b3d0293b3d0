-------------------------------- MODULE Genesis --------------------------------
(***************************************************************************)
(* A new chain from the exported one: InitChainer of both example apps     *)
(* gives the exported state to the modules in their genesis order, and the *)
(* chain that starts goes on from there, and may be exported again.        *)
(* What the modules do with their state is external, as far as they depend *)
(* on each other.                                                          *)
(***************************************************************************)
EXTENDS ZeroHeightExport, Sequences, SequencesExt

VARIABLE origin    \* blocks of the chains before this one

varsG == <<vars, origin>>

-----------------------------------------------------------------------------
(* The genesis order *)

\* Mutant: staking, whose pools are balances, before the balances.
simdGenesisOrderStakingFirst ==
    <<"capability", "auth", "staking", "bank", "distribution", "slashing", "gov", "mint",
      "crisis", "genutil", "evidence", "authz", "feegrant", "nft", "group", "params",
      "upgrade", "vesting", "consensus">>

simdGenesisOrder ==
    <<"capability", "auth", "bank", "distribution", "staking", "slashing", "gov", "mint",
      "crisis", "genutil", "evidence", "authz", "feegrant", "nft", "group", "params",
      "upgrade", "vesting", "consensus">>

wasmdGenesisOrder ==
    simdGenesisOrder \o <<"transfer", "ibc", "interchainaccounts", "feeibc", "wasm">>

genesisModuleOrder == IF args.app = "wasmd" THEN wasmdGenesisOrder ELSE simdGenesisOrder

\* What the genesis of a module finds in others; some of it is checked.
Needs(m) ==
    CASE m \in {"distribution", "staking", "gov"} -> {"auth", "bank"}
      [] m = "slashing" -> {"staking"}
      [] m = "mint" -> {"auth"}
      [] m = "genutil" -> {"auth", "bank", "distribution", "staking", "slashing"}
      [] m \in {"transfer", "interchainaccounts"} -> {"capability", "auth"}
      [] m = "wasm" -> Range(wasmdGenesisOrder) \ {"wasm"}
      [] OTHER -> {}

\* x/distribution compares its books with the account of the module.
DistributionBalances ==
    CoinsIn(s.balance) = CoinsIn(TotalOutstanding(s) + s.pool)

\* The invariants that can be broken in an exported state are that of x/distribution
\* that rewards can be withdrawn.  The others are among the properties.
GenesisPanics(m, before, skipInvariants) ==
    \/ ~(Needs(m) \subseteq before)
    \/ m = "distribution" /\ ~DistributionBalances
    \/ m = "crisis" /\ ~skipInvariants /\ ~AssertInvariants(args.blocked)

\* Validators come from x/staking, and from nobody else as nothing is left for
\* x/genutil; a chain must have some.
InitGenesisPanics(skipInvariants) ==
    LET order == genesisModuleOrder IN
    \/ \E i \in DOMAIN order :
          GenesisPanics(order[i], {order[j] : j \in 1..(i - 1)}, skipInvariants)
    \/ bonded = {}

\* An exported staking state calls no hooks, so the state of the others is what
\* was exported.  Accounts begin to count again what they are paid.
InitChainer(skipInvariants) ==
    /\ pc = "done"
    /\ IF InitGenesisPanics(skipInvariants)
       THEN pc' = "refused" /\ UNCHANGED <<height, s, args, due, origin>>
       ELSE /\ pc' = "chain"
            /\ height' = ExportedHeight
            /\ origin' = origin + height - ExportedHeight
            /\ s' = [s EXCEPT !.paid = NothingDue.paid]
            /\ args' = NoArgs
            /\ due' = NothingDue
    /\ UNCHANGED <<maxBonded, delegations, bonded, jailed, unbondingHeight, startHeight,
                   entries>>

-----------------------------------------------------------------------------
InitG == Init /\ origin = 0

Stopped == pc \in {"failed", "refused"} /\ UNCHANGED varsG

NextG ==
    \/ Chain /\ origin + height <= MaxBlocks /\ UNCHANGED origin
    \/ ExportAppStateAndValidators /\ UNCHANGED origin
    \/ \E skipInvariants \in BOOLEAN : InitChainer(skipInvariants)
    \/ Stopped

SpecG == InitG /\ [][NextG]_varsG

-----------------------------------------------------------------------------
(* Properties *)

\* A new chain starts from every export, of either app and for zero height or
\* not, and goes on without a panic, also after several exports; unless there is
\* an account that cannot be paid: a commission that was refused is missing in the
\* books, a reward that is refused breaks an invariant.
ChainRestarts ==
    /\ pc = "refused" =>
          \/ due.refused > 0
          \/ ~args.zero /\ ~AssertInvariants(args.blocked)
    /\ pc = "chain" => ~s.panicked /\ bonded # {}
=============================================================================
