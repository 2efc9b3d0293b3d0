---------------------------- MODULE MCBlockTracing ----------------------------
EXTENDS BlockTracing

MCModule == {"upgrade", "gov", "staking"}
MCBeginOrder == <<"upgrade", "gov", "staking">>
MCEndOrder == <<"gov", "upgrade", "staking">>
MCBeginBlockers == {"upgrade", "staking"}
MCEndBlockers == {"gov", "staking"}
MCPrograms == {<<>>, <<"emit">>, <<"emit", "migrate">>, <<"emit", "panic">>}
=============================================================================
