------------------------------- MODULE AppProofs -------------------------------
(***************************************************************************)
(* What the wasmd app does around its blocks: its upgrades, and the        *)
(* packets that it receives.                                               *)
(*                                                                         *)
(* MigratedWithStores holds for every length of the chain and any number   *)
(* of stops.  The invariant that makes it inductive says what the store    *)
(* loader relies on: upgrade info for the next height is found on disk     *)
(* only while the plan is due, so stores that were added while loading are *)
(* those of a node whose next block applies the upgrade.                   *)
(*                                                                         *)
(* Core decides on every packet as the application said, for any set of    *)
(* packets.  DecidedByApp is inductive together with the type invariant:   *)
(* a packet is decided when it is received, and an acknowledgement that    *)
(* comes later is for one whose application returned none.                 *)
(***************************************************************************)
EXTENDS Upgrade, IBCReceive, TLAPS

-----------------------------------------------------------------------------
(* Upgrades *)

\* Upgrade info is never ahead of the chain, and due when it is for the next
\* height; nothing is planned once the upgrade was applied.
InfoIsDue ==
    /\ info <= db.version + 1
    /\ info = db.version + 1 => db.plan # 0 /\ db.plan <= db.version + 1
    /\ db.plan # 0 => ~db.done

\* A node adds stores only to apply the upgrade in its next block.
AddsToApply ==
    node.adding # {} =>
        /\ node.adding = Added /\ node.up /\ node.binary = "new"
        /\ info = db.version + 1 /\ info \notin node.skip

\* The block in progress has applied the upgrade exactly if stores were added.
BlockApplies ==
    block # NoBlock =>
        /\ node.up
        /\ block.version = db.version + 1 /\ block.stores = db.stores
        /\ block.plan # 0 => ~block.done
        /\ db.done => block.done
        /\ block.done /\ ~db.done => node.adding = Added /\ block.migrations = 1
        /\ block.done = db.done => node.adding = {} /\ block.migrations = db.migrations

UpgradeInv ==
    TypeOK /\ MigratedWithStores /\ InfoIsDue /\ AddsToApply /\ BlockApplies

-----------------------------------------------------------------------------

LEMMA UpgradeInvInit == Init => UpgradeInv
  BY UpgradeAssumption
     DEF Init, UpgradeInv, TypeOK, Nodes, MigratedWithStores, InfoIsDue, AddsToApply, BlockApplies,
         States, Mounted, StoresBefore, Added, Stopped, NoBlock, Binaries, Heights

\* A node that starts has its stores, and adds some only for an upgrade that is due.
LEMMA StartKeepsInv ==
  ASSUME UpgradeInv, NEW binary \in Binaries, NEW skip \in SUBSET Heights,
         NewApp(binary, skip), stops' \in 0..MaxStops
  PROVE  UpgradeInv'
  <1>1. TypeOK'
    BY DEF UpgradeInv, TypeOK, Nodes, NewApp, Loaded, NoBlock, UpgradeStoreLoader, Added,
           Mounted
  <1>2. MigratedWithStores' /\ InfoIsDue'
    BY DEF UpgradeInv, MigratedWithStores, InfoIsDue, NewApp
  <1>3. AddsToApply'
    BY DEF NewApp, AddsToApply, UpgradeStoreLoader, StoreLoaderSet, HasHandler, Binaries
  <1>4. BlockApplies'
    BY DEF UpgradeInv, BlockApplies, NewApp, NoBlock
  <1> QED
    BY <1>1, <1>2, <1>3, <1>4 DEF UpgradeInv

LEMMA StopKeepsInv ==
  ASSUME UpgradeInv, Stop
  PROVE  UpgradeInv'
  <1>1. TypeOK'
    BY UpgradeAssumption
       DEF UpgradeInv, TypeOK, Nodes, Stop, Stopped, NoBlock, Binaries, Heights
  <1>2. MigratedWithStores' /\ InfoIsDue' /\ AddsToApply' /\ BlockApplies'
    BY DEF UpgradeInv, MigratedWithStores, InfoIsDue, AddsToApply, BlockApplies, Stop,
           Stopped, NoBlock
  <1> QED
    BY <1>1, <1>2 DEF UpgradeInv

\* The binary from before leaves upgrade info for the height it stopped at, at
\* which the plan is due.
LEMMA PanicKeepsInv ==
  ASSUME UpgradeInv, BeginBlockPanics
  PROVE  UpgradeInv'
  <1>1. TypeOK'
    BY UpgradeAssumption
       DEF UpgradeInv, TypeOK, Nodes, BeginBlockPanics, Stopped, NoBlock, Binaries, Heights, States,
           NextHeight
  <1>2. MigratedWithStores' /\ AddsToApply' /\ BlockApplies'
    BY DEF UpgradeInv, MigratedWithStores, AddsToApply, BlockApplies, BeginBlockPanics,
           Stopped, NoBlock
  <1>3. InfoIsDue'
    BY DEF UpgradeInv, InfoIsDue, BeginBlockPanics, UpgradeNeeded, ShouldExecute, NextHeight
  <1> QED
    BY <1>1, <1>2, <1>3 DEF UpgradeInv

\* A block applies the upgrade when the plan is due and not skipped, on a node
\* with the handler: if it was not applied before, the new stores were added.
LEMMA BeginBlockKeepsInv ==
  ASSUME UpgradeInv, BeginBlock
  PROVE  UpgradeInv'
  <1> USE DEF UpgradeInv, NextHeight
  <1>1. db \in States /\ db.version < MaxHeight /\ node.up /\ UNCHANGED <<db, info, stops>>
    BY DEF BeginBlock, TypeOK
  <1>2. PICK st : st = [db EXCEPT !.version = db.version + 1]
    OBVIOUS
  <1>3. st \in States /\ st.version = db.version + 1 /\ st.stores = db.stores
        /\ st.plan = db.plan /\ st.done = db.done /\ st.migrations = db.migrations
    BY <1>1, <1>2, UpgradeAssumption DEF States
  <1>4. \/ ~ShouldExecute /\ block' = st
        \/ ShouldExecute /\ Skipped /\ block' = [st EXCEPT !.plan = 0]
        \/ ShouldExecute /\ ~Skipped /\ node.binary = "new" /\ block' = ApplyUpgrade(st)
    BY <1>2 DEF BeginBlock, UpgradeNeeded, HasHandler, TypeOK, Binaries
  <1>5. node'.up = node.up /\ node'.binary = node.binary /\ node'.skip = node.skip
        /\ node'.adding = node.adding /\ node' \in Nodes
    BY DEF BeginBlock, TypeOK, Nodes
  <1>6. node.adding # {} => ShouldExecute /\ ~Skipped /\ ~db.done
    BY DEF AddsToApply, InfoIsDue, ShouldExecute, Skipped
  <1>7. node.binary = "new" /\ ~db.done => node.adding = Added
    BY <1>1 DEF TypeOK, MigratedWithStores, AddsToApply, Mounted, StoresBefore, Added
  <1>8. ASSUME ShouldExecute, ~Skipped, node.binary = "new", block' = ApplyUpgrade(st)
        PROVE  block' = [version |-> db.version + 1, stores |-> db.stores, plan |-> 0,
                         done |-> TRUE, migrations |-> db.migrations + 1]
    BY <1>3, <1>8 DEF States, ApplyUpgrade, UpgradeHandler
  <1>9. ASSUME ShouldExecute, Skipped, block' = [st EXCEPT !.plan = 0]
        PROVE  block' = [version |-> db.version + 1, stores |-> db.stores, plan |-> 0,
                         done |-> db.done, migrations |-> db.migrations]
    BY <1>3, <1>9 DEF States
  <1>10. block' \in States
    <2>1. /\ db.version + 1 \in 0..MaxHeight /\ db.stores \in SUBSET Mounted("new")
          /\ 0 \in 0..MaxHeight /\ db.done \in BOOLEAN
          /\ db.migrations \in Nat /\ db.migrations + 1 \in Nat
      BY <1>1, UpgradeAssumption DEF States
    <2>2. CASE ~ShouldExecute /\ block' = st
      BY <1>3, <2>2
    <2>3. CASE ShouldExecute /\ Skipped /\ block' = [st EXCEPT !.plan = 0]
      <3>1. [version |-> db.version + 1, stores |-> db.stores, plan |-> 0,
             done |-> db.done, migrations |-> db.migrations] \in States
        BY <2>1, Zenon DEF States
      <3> QED
        BY <1>9, <2>3, <3>1
    <2>4. CASE ShouldExecute /\ ~Skipped /\ node.binary = "new" /\ block' = ApplyUpgrade(st)
      <3>1. [version |-> db.version + 1, stores |-> db.stores, plan |-> 0,
             done |-> TRUE, migrations |-> db.migrations + 1] \in States
        BY <2>1, Zenon DEF States
      <3> QED
        BY <1>8, <2>4, <3>1
    <2> QED
      BY <1>4, <2>2, <2>3, <2>4
  <1>11. TypeOK'
    BY <1>1, <1>5, <1>10 DEF TypeOK
  <1>12. MigratedWithStores' /\ InfoIsDue' /\ AddsToApply'
    BY <1>1, <1>5 DEF MigratedWithStores, InfoIsDue, AddsToApply
  <1>13. BlockApplies'
    <2>1. db.plan # 0 => ~db.done
      BY DEF InfoIsDue
    <2>2. ~db.done => db.migrations = 0
      BY DEF MigratedWithStores
    <2>3. db.done => node.adding = {}
      BY <1>6
    <2>4. CASE ~ShouldExecute /\ block' = st
      BY <1>1, <1>3, <1>5, <1>6, <2>1, <2>4 DEF BlockApplies
    <2>5. CASE ShouldExecute /\ Skipped /\ block' = [st EXCEPT !.plan = 0]
      BY <1>1, <1>5, <1>6, <1>9, <2>5 DEF BlockApplies
    <2>6. CASE ShouldExecute /\ ~Skipped /\ node.binary = "new" /\ block' = ApplyUpgrade(st)
      <3>1. ~db.done
        BY <2>1, <2>6 DEF ShouldExecute
      <3> QED
        BY <1>1, <1>5, <1>7, <1>8, <2>2, <2>6, <3>1 DEF BlockApplies
    <2> QED
      BY <1>4, <2>4, <2>5, <2>6
  <1> QED
    BY <1>11, <1>12, <1>13

\* Proposals change the plan of the block only.
LEMMA ProposalKeepsInv ==
  ASSUME UpgradeInv,
         Cancel \/ \E h \in Heights : Schedule(h)
  PROVE  UpgradeInv'
  <1> USE DEF UpgradeInv
  <1>1. block \in States /\ UNCHANGED <<db, info, node, stops>> /\ block # NoBlock
    BY DEF TypeOK, Cancel, Schedule
  <1>2. PICK h \in 0..MaxHeight :
          block' = [block EXCEPT !.plan = h] /\ (h # 0 => ~block.done)
    BY UpgradeAssumption DEF Cancel, Schedule, Heights
  <1>3. block' \in States /\ block'.version = block.version /\ block'.stores = block.stores
        /\ block'.plan = h /\ block'.done = block.done
        /\ block'.migrations = block.migrations
    BY <1>1, <1>2 DEF States
  <1>4. TypeOK' /\ MigratedWithStores' /\ InfoIsDue' /\ AddsToApply'
    BY <1>1, <1>3 DEF TypeOK, MigratedWithStores, InfoIsDue, AddsToApply
  <1>5. BlockApplies'
    BY <1>1, <1>2, <1>3 DEF BlockApplies
  <1> QED
    BY <1>4, <1>5

\* What is committed has the new stores if the block applied the upgrade.
LEMMA CommitKeepsInv ==
  ASSUME UpgradeInv, Commit
  PROVE  UpgradeInv'
  <1> USE DEF UpgradeInv
  <1>1. block \in States /\ db \in States /\ UNCHANGED <<info, stops>>
        /\ block' = NoBlock /\ block # NoBlock
    BY DEF TypeOK, Commit
  <1>2. db'.version = db.version + 1 /\ db'.stores = db.stores \cup node.adding
        /\ db'.plan = block.plan /\ db'.done = block.done
        /\ db'.migrations = block.migrations
    BY <1>1 DEF Commit, BlockApplies, States
  <1>3. node.adding \subseteq Mounted("new")
    BY DEF AddsToApply, Added, Mounted
  <1>4. db' \in States
    BY <1>1, <1>3 DEF Commit, States
  <1>5. node'.up = node.up /\ node'.binary = node.binary /\ node'.skip = node.skip
        /\ node'.adding = {} /\ node' \in Nodes
    BY DEF Commit, TypeOK, Nodes
  <1>6. TypeOK'
    BY <1>1, <1>2, <1>4, <1>5 DEF TypeOK
  <1>7. MigratedWithStores'
    <2>1. db.done \in BOOLEAN /\ block.done \in BOOLEAN
      BY <1>1 DEF States
    <2>2. CASE block.done = db.done
      BY <1>1, <1>2, <2>2 DEF MigratedWithStores, BlockApplies
    <2>3. CASE block.done # db.done
      BY <1>1, <1>2, <2>1, <2>3 DEF MigratedWithStores, BlockApplies
    <2> QED
      BY <2>2, <2>3
  <1>8. InfoIsDue'
    BY <1>1, <1>2, UpgradeAssumption DEF InfoIsDue, BlockApplies, TypeOK, States
  <1>9. AddsToApply' /\ BlockApplies'
    BY <1>1, <1>5 DEF AddsToApply, BlockApplies
  <1> QED
    BY <1>6, <1>7, <1>8, <1>9

LEMMA UpgradeInvStep == UpgradeInv /\ [Next]_vars => UpgradeInv'
  <1> SUFFICES ASSUME UpgradeInv, [Next]_vars PROVE UpgradeInv'
    OBVIOUS
  <1>1. CASE StartAdvised
    <2>1. Advised \in Binaries /\ {} \in SUBSET Heights
      BY DEF Advised, Binaries
    <2> QED
      BY <1>1, <2>1, StartKeepsInv DEF StartAdvised, UpgradeInv, TypeOK
  <1>2. CASE \E binary \in Binaries, skip \in SUBSET Heights : StartOther(binary, skip)
    <2>1. PICK binary \in Binaries, skip \in SUBSET Heights : StartOther(binary, skip)
      BY <1>2
    <2>2. stops' \in 0..MaxStops
      BY <2>1, UpgradeAssumption DEF StartOther, UpgradeInv, TypeOK
    <2> QED
      BY <2>1, <2>2, StartKeepsInv DEF StartOther
  <1>3. CASE UNCHANGED vars
    BY <1>3 DEF vars, UpgradeInv, TypeOK, MigratedWithStores, InfoIsDue, AddsToApply,
                BlockApplies
  <1> QED
    BY <1>1, <1>2, <1>3, StopKeepsInv, PanicKeepsInv, BeginBlockKeepsInv, ProposalKeepsInv,
       CommitKeepsInv
       DEF Next, AtEnd

\* The new stores are committed exactly with the migrations that fill them, once
\* (the store loader of upgrades.go and the handler it belongs to), on any chain
\* and however often the node is stopped and started with whatever binary.
THEOREM StoresComeWithMigrations == Spec => []MigratedWithStores
  <1>1. UpgradeInv => MigratedWithStores
    BY DEF UpgradeInv
  <1> QED
    BY <1>1, UpgradeInvInit, UpgradeInvStep, PTL DEF Spec

\* A running node has every store that its binary mounts, among the rest of the
\* type invariant.
THEOREM UpgradeTypeCorrect == Spec => []TypeOK
  <1>1. UpgradeInv => TypeOK
    BY DEF UpgradeInv
  <1> QED
    BY <1>1, UpgradeInvInit, UpgradeInvStep, PTL DEF Spec

-----------------------------------------------------------------------------
(* Packets *)

ReceiveInv == ReceiveTypeOK /\ DecidedByApp

\* What the decorator returns, if it does, says the same as what the application
\* returned.
LEMMA OnRecvPacketFaithful ==
  ASSUME NEW orig \in AppAcks, ~Panics(orig)
  PROVE  /\ orig = Nil => OnRecvPacket(orig) = Nil
         /\ orig # Nil => /\ OnRecvPacket(orig) # Nil
                          /\ OnRecvPacket(orig).success = orig.success
                          /\ OnRecvPacket(orig).bytes = orig.bytes
                          /\ orig.bytes \in {"result", "error"}
  <1>1. CASE orig = Nil
    BY <1>1 DEF Panics, AckUsed, OnRecvPacket
  <1>2. CASE orig # Nil
    <2>1. PICK success \in BOOLEAN, bytes \in {"result", "error"} :
            orig = [kind |-> "original", success |-> success, bytes |-> bytes]
      BY <1>2 DEF AppAcks
    <2>2. newCapturedAck(orig) = [kind |-> "captured", success |-> success, bytes |-> bytes]
      BY <2>1 DEF newCapturedAck
    <2>3. OnRecvPacket(orig).kind \in {"original", "captured"} /\ Nil.kind = "nil"
      BY <2>1, <2>2 DEF OnRecvPacket, Nil
    <2> QED
      BY <1>2, <2>1, <2>2, <2>3 DEF OnRecvPacket
  <1> QED
    BY <1>1, <1>2

LEMMA ReceiveInvInit == ReceiveInit => ReceiveInv
  BY DEF ReceiveInit, ReceiveInv, ReceiveTypeOK, DecidedByApp

LEMMA RecvPacketKeepsInv ==
  ASSUME ReceiveInv, NEW p \in Packet, RecvPacket(p)
  PROVE  ReceiveInv'
  <1> DEFINE result == OnRecvPacket(app[p])
  <1>1. app[p] \in AppAcks /\ UNCHANGED <<flags, app, panicked>>
        /\ received' = received \cup {p} /\ p \notin received /\ ~Panics(app[p])
    BY DEF ReceiveInv, ReceiveTypeOK, RecvPacket
  <1>2. CASE app[p] = Nil
    <2>1. applied' = applied \cup {p} /\ acks' = acks
      BY <1>1, <1>2, OnRecvPacketFaithful DEF RecvPacket
    <2> QED
      BY <1>1, <1>2, <2>1 DEF ReceiveInv, ReceiveTypeOK, DecidedByApp, Acked
  <1>3. CASE app[p] # Nil
    <2>1. /\ applied' = IF app[p].success THEN applied \cup {p} ELSE applied
          /\ acks' = WithAck(p, app[p].bytes)
          /\ app[p].bytes \in {"result", "error"}
      BY <1>1, <1>3, OnRecvPacketFaithful DEF RecvPacket
    <2>2. DOMAIN acks' = DOMAIN acks \cup {p} /\ acks'[p] = app[p].bytes
          /\ \A q \in DOMAIN acks \ {p} : acks'[q] = acks[q]
      BY <2>1 DEF WithAck
    <2>3. ReceiveTypeOK'
      BY <1>1, <2>1, <2>2 DEF ReceiveInv, ReceiveTypeOK
    <2>4. DecidedByApp'
      <3>1. p \in applied' <=> app[p].success
        BY <1>1, <2>1 DEF ReceiveInv, ReceiveTypeOK
      <3>2. \A q \in received : q # p /\ (q \in applied' <=> q \in applied)
        BY <1>1, <2>1
      <3> QED
        BY <1>1, <1>3, <2>2, <3>1, <3>2 DEF ReceiveInv, DecidedByApp, Acked
    <2> QED
      BY <2>3, <2>4 DEF ReceiveInv
  <1> QED
    BY <1>2, <1>3

LEMMA WriteAcknowledgementKeepsInv ==
  ASSUME ReceiveInv, NEW p \in Packet, WriteAcknowledgement(p)
  PROVE  ReceiveInv'
  <1>1. PICK bytes \in {"result", "error"} : acks' = WithAck(p, bytes)
    BY DEF WriteAcknowledgement
  <1>2. DOMAIN acks' = DOMAIN acks \cup {p} /\ acks'[p] = bytes
        /\ \A q \in DOMAIN acks \ {p} : acks'[q] = acks[q]
    BY <1>1 DEF WithAck
  <1>3. p \in received /\ app[p] = Nil /\ UNCHANGED <<flags, app, received, applied, panicked>>
    BY DEF WriteAcknowledgement
  <1> QED
    BY <1>2, <1>3 DEF ReceiveInv, ReceiveTypeOK, DecidedByApp, Acked

LEMMA ReceiveInvStep == ReceiveInv /\ [ReceiveNext]_receiveVars => ReceiveInv'
  <1> SUFFICES ASSUME ReceiveInv, [ReceiveNext]_receiveVars PROVE ReceiveInv'
    OBVIOUS
  <1>1. ASSUME NEW p \in Packet, RecvPacketPanics(p) PROVE ReceiveInv'
    BY <1>1 DEF RecvPacketPanics, ReceiveInv, ReceiveTypeOK, DecidedByApp, Acked
  <1>2. CASE UNCHANGED receiveVars
    BY <1>2 DEF receiveVars, ReceiveInv, ReceiveTypeOK, DecidedByApp, Acked
  <1> QED
    BY <1>1, <1>2, RecvPacketKeepsInv, WriteAcknowledgementKeepsInv DEF ReceiveNext, RecvPacketAgain

\* Whatever is copied and logged on the way, core keeps or discards the effects
\* of a packet and acknowledges it as the application decided (OnRecvPacket of
\* TraceIBCHandler and newCapturedAck).
THEOREM AppDecides == ReceiveSpec => []DecidedByApp
  <1>1. ReceiveInv => DecidedByApp
    BY DEF ReceiveInv
  <1> QED
    BY <1>1, ReceiveInvInit, ReceiveInvStep, PTL DEF ReceiveSpec
=============================================================================
