-------------------------- MODULE CfgBarrierProofs --------------------------
(***************************************************************************)
(* The promises of CfgBarrier for any number of clients, chassis, changes  *)
(* and faults: every step of ovn-northd and of the clients keeps the       *)
(* inductive invariant.                                                    *)
(***************************************************************************)
EXTENDS CfgBarrierInvariant, TLAPS

\* The provers, in the order in which they try a leaf that names none.
USE Zenon, SMT, ZenonT(60), SMTT(60)

-----------------------------------------------------------------------------
(* ovn-northd and its transactions keep the invariant *)

\* The fields of the records have their types.
LEMMA TypesGive == TypeOK => Typed
BY DEF TypeOK, Typed, NbGlobal, SbGlobal, Rows, Client, NbTxn, SbTxn

\* A new copy of the northbound database is later in every respect.
LEMMA DeliverNbStep ==
    ASSUME IInv, DeliverNb
    PROVE  IInv'
<1>. USE BoundsAssumption DEF Cfgs, Absent
<1>0. /\ TypeOK /\ NumbersKnown /\ ContentsThere /\ SbTransaction
      /\ WaitersKnown /\ WaitSbIsDone /\ WaitHvIsDone
    BY DEF IInv
<1>1. Typed
    BY <1>0, TypesGive
<1>2. TypeOK'
  <2>1. nbView' \in NbGlobal
    BY <1>0, <1>1 DEF TypeOK, Typed, NbGlobal, DeliverNb, NbChanged
  <2>2. dirty' \in BOOLEAN /\ force' \in BOOLEAN
    BY <1>0, <1>1 DEF TypeOK, Typed, DeliverNb, NbChanged
  <2>. QED  BY <1>0, <2>1, <2>2 DEF TypeOK, DeliverNb, NbChanged, dbVars, northdVars
<1>3. Typed'
    BY <1>2, TypesGive, PTL
<1>4. /\ nbView' = nb
    BY <1>0, <1>1 DEF TypeOK, Typed, NbGlobal, SbGlobal, Client, DeliverNb, NbChanged
<1>5. UNCHANGED <<nb, sb, chassis, running, client, sbView, nbTxn, sbTxn, cur_cfg, next_cfg, need>>
    BY DEF DeliverNb, NbChanged, dbVars, northdVars
<1>6. NumbersKnown'
    BY <1>0, <1>1, <1>4, <1>5, SMT, SMTT(60) DEF Typed, NumbersKnown, Bounded
<1>7. ContentsThere'
    BY <1>0, <1>1, <1>4, <1>5, SMT, SMTT(60) DEF Typed, ContentsThere
<1>8. SbTransaction'
    BY <1>0, <1>1, <1>4, <1>5, SMT, SMTT(60) DEF Typed, SbTransaction, ContentsThere
<1>9. WaitersKnown'
    BY <1>0, <1>4, <1>5, SMT, SMTT(60) DEF WaitersKnown, Waits
<1>10. WaitSbIsDone'
    BY <1>0, <1>4, <1>5 DEF WaitSbIsDone
<1>11. WaitHvIsDone'
    BY <1>0, <1>4, <1>5 DEF WaitHvIsDone
<1>. QED  BY <1>2, <1>6, <1>7, <1>8, <1>9, <1>10, <1>11 DEF IInv

\* A new copy of the southbound database has every chassis that is waited for.
LEMMA DeliverSbStep ==
    ASSUME IInv, DeliverSb
    PROVE  IInv'
<1>. USE BoundsAssumption DEF Cfgs, Absent
<1>0. /\ TypeOK /\ NumbersKnown /\ ContentsThere /\ SbTransaction
      /\ WaitersKnown /\ WaitSbIsDone /\ WaitHvIsDone
    BY DEF IInv
<1>1. Typed
    BY <1>0, TypesGive
<1>2. TypeOK'
  <2>1. sbView' \in [content : Cfgs, nb_cfg : Cfgs, chassis : Rows]
    BY <1>0, <1>1 DEF TypeOK, Typed, SbGlobal, Rows, DeliverSb, View
  <2>. QED  BY <1>0, <2>1 DEF TypeOK, DeliverSb, View, dbVars, northdVars
<1>3. Typed'
    BY <1>2, TypesGive, PTL
<1>4. /\ sbView'.content = sb.content /\ sbView'.nb_cfg = sb.nb_cfg /\ sbView'.chassis = chassis
    BY <1>0, <1>1 DEF TypeOK, Typed, NbGlobal, SbGlobal, Client, DeliverSb, View
<1>5. UNCHANGED <<nb, sb, chassis, running, client, nbView, nbTxn, sbTxn, cur_cfg, next_cfg, need>>
    BY DEF DeliverSb, View, dbVars, northdVars
<1>6. NumbersKnown'
    BY <1>0, <1>4, <1>5 DEF NumbersKnown, Bounded
<1>7. ContentsThere'
    BY <1>0, <1>4, <1>5 DEF ContentsThere
<1>8. SbTransaction'
    BY <1>0, <1>4, <1>5 DEF SbTransaction
<1>9. WaitersKnown'
  <2>. SUFFICES ASSUME NEW k \in Clients, client'[k].pc = "waiting"
                PROVE  /\ client'[k].next_cfg > 0
                       /\ \A h \in client'[k].watch : Waits(client[k].next_cfg, h)'
    BY DEF WaitersKnown
  <2>1. /\ client[k].pc = "waiting" /\ client'[k].next_cfg = client[k].next_cfg
        /\ client'[k].watch \subseteq client[k].watch
    BY <1>4, <1>5
  <2>. DEFINE n == client[k].next_cfg
  <2>2. n > 0 /\ n \in Cfgs /\ Bounded(n) /\ \A h \in client[k].watch : h \in Chassis /\ Waits(n, h)
    BY <1>0, <1>1, <2>1 DEF WaitersKnown, Typed, NumbersKnown
  <2>3. ASSUME NEW h \in client'[k].watch
        PROVE  Waits(n, h)'
    <3>1. h \in Chassis /\ Waits(n, h)
      BY <2>1, <2>2, <2>3
    <3>2. chassis[h] >= n => need[n] <= running[h].content
      BY <1>0, <1>1, <2>2, <3>1, SMT, SMTT(60) DEF Waits, Typed, Bounded, NumbersKnown, ContentsThere
    <3>. QED  BY <1>4, <1>5, <2>1, <3>1, <3>2 DEF Waits
  <2>. QED  BY <2>1, <2>2, <2>3
<1>10. WaitSbIsDone'
    BY <1>0, <1>4, <1>5 DEF WaitSbIsDone
<1>11. WaitHvIsDone'
    BY <1>0, <1>4, <1>5 DEF WaitHvIsDone
<1>. QED  BY <1>2, <1>6, <1>7, <1>8, <1>9, <1>10, <1>11 DEF IInv

\* The main loop of ovn-northd: a number is sent with its contents, or was committed
\* before; and an hv_cfg that is sent with an sb_cfg counts every chassis that was
\* registered when that number was made.
LEMMA IterateStep ==
    ASSUME IInv, Iterate
    PROVE  IInv'
<1>. USE BoundsAssumption DEF Cfgs, Absent
<1>0. /\ TypeOK /\ NumbersKnown /\ ContentsThere /\ SbTransaction
      /\ WaitersKnown /\ WaitSbIsDone /\ WaitHvIsDone
    BY DEF IInv
<1>1. Typed
    BY <1>0, TypesGive
<1>2. TypeOK'
  <2>1. nbTxn' \in SUBSET NbTxn /\ \A v, w \in nbTxn' : v = w
    <3>1. PICK hv_cfg \in Reported :
            nbTxn' \in {{}, {[sb_cfg |-> IF cur_cfg # 0 THEN cur_cfg ELSE nbView.sb_cfg, hv_cfg |-> hv_cfg,
                            applied |-> FALSE]}}
      BY DEF Iterate
    <3>2. hv_cfg \in Cfgs
      BY <1>1 DEF Reported, Present, Typed
    <3>3. [sb_cfg |-> IF cur_cfg # 0 THEN cur_cfg ELSE nbView.sb_cfg, hv_cfg |-> hv_cfg, applied |-> FALSE] \in NbTxn
      BY <1>1, <3>2 DEF NbTxn, Typed
    <3>. QED  BY <3>1, <3>3
  <2>2. sbTxn' \in SUBSET SbTxn /\ \A v, w \in sbTxn' : v = w
    <3>1. PICK content \in {nbView.content, sbView.content} :
            sbTxn' \in {{}, {[content |-> content, nb_cfg |-> nbView.nb_cfg, applied |-> FALSE]}}
      BY DEF Iterate, CommitSb
    <3>2. [content |-> content, nb_cfg |-> nbView.nb_cfg, applied |-> FALSE] \in SbTxn
      BY <1>1 DEF SbTxn, Typed
    <3>. QED  BY <3>1, <3>2
  <2>3. cur_cfg' \in Cfgs /\ next_cfg' \in Cfgs
    BY <1>0, <1>1 DEF TypeOK, Typed, NbGlobal, Iterate, CommitSb, Aborts, Reported, Present
  <2>4. dirty' \in BOOLEAN /\ force' \in BOOLEAN
    BY <1>0, <1>1 DEF TypeOK, Typed, Iterate, CommitSb, Aborts, Reported, Present
  <2>. QED  BY <1>0, <2>1, <2>2, <2>3, <2>4
            DEF TypeOK, Iterate, CommitSb, Aborts, Reported, Present, dbVars, northdVars
<1>3. Typed'
    BY <1>2, TypesGive, PTL
<1>4. /\ nbTxn = {} /\ sbTxn = {} /\ next_cfg' = nbView.nb_cfg
      /\ \A w \in nbTxn' : w.sb_cfg \in {cur_cfg, nbView.sb_cfg} /\ w.hv_cfg <= nbView.nb_cfg
      /\ \A w \in nbTxn' : \A h \in Chassis : sbView.chassis[h] # Absent => w.hv_cfg <= sbView.chassis[h]
      /\ \A w \in sbTxn' : w.nb_cfg = nbView.nb_cfg /\ ~ w.applied
      /\ \A w \in sbTxn' : w.content = nbView.content \/ (w.content = sbView.content /\ cur_cfg = nbView.nb_cfg)
      /\ cur_cfg' = cur_cfg \/ (cur_cfg' = nbView.nb_cfg /\ sbView.nb_cfg = nbView.nb_cfg)
  <2>1. nbTxn = {} /\ sbTxn = {} /\ next_cfg' = nbView.nb_cfg
    BY DEF Iterate
  <2>2. /\ \A w \in nbTxn' : w.sb_cfg \in {cur_cfg, nbView.sb_cfg} /\ w.hv_cfg <= nbView.nb_cfg
        /\ \A w \in nbTxn' : \A h \in Chassis : sbView.chassis[h] # Absent => w.hv_cfg <= sbView.chassis[h]
    <3>1. PICK hv_cfg \in Reported :
            /\ \A n \in Reported : hv_cfg <= n
            /\ nbTxn' \in {{}, {[sb_cfg |-> IF cur_cfg # 0 THEN cur_cfg ELSE nbView.sb_cfg, hv_cfg |-> hv_cfg,
                               applied |-> FALSE]}}
      BY DEF Iterate
    <3>2. nbView.nb_cfg \in Reported /\ \A h \in Chassis : sbView.chassis[h] # Absent => sbView.chassis[h] \in Reported
      BY DEF Reported, Present
    <3>. QED  BY <3>1, <3>2, SMT, SMTT(60)
  <2>3. PICK activity \in BOOLEAN :
          CommitSb(activity, IF activity THEN nbView.content ELSE sbView.content, nbView.nb_cfg, nbView.nb_cfg)
    BY <1>0 DEF Iterate, TypeOK, sb_cfg_is_in_sync
  <2>4. /\ \A w \in sbTxn' : w.nb_cfg = nbView.nb_cfg /\ ~ w.applied
        /\ \A w \in sbTxn' : w.content = nbView.content \/ (w.content = sbView.content /\ cur_cfg = nbView.nb_cfg)
        /\ cur_cfg' = cur_cfg \/ (cur_cfg' = nbView.nb_cfg /\ sbView.nb_cfg = nbView.nb_cfg)
    <3>1. CASE activity
      BY <2>1, <2>3, <3>1, SMT, SMTT(60) DEF CommitSb, Aborts
    <3>2. CASE ~ activity
      BY <2>1, <2>3, <3>2, SMT, SMTT(60) DEF CommitSb, Aborts
    <3>. QED  BY <3>1, <3>2
  <2>. QED  BY <2>1, <2>2, <2>4
<1>5. UNCHANGED <<nb, sb, chassis, running, client, nbView, sbView, need>>
    BY DEF Iterate, CommitSb, Aborts, Reported, Present, dbVars, northdVars
<1>6. NumbersKnown'
    BY <1>0, <1>1, <1>3, <1>4, <1>5, SMT, SMTT(60) DEF Typed, NumbersKnown, Bounded
<1>7. ContentsThere'
    BY <1>0, <1>4, <1>5 DEF ContentsThere, SbTransaction
<1>8. SbTransaction'
    BY <1>0, <1>1, <1>4, <1>5, SMT, SMTT(60) DEF Typed, SbTransaction, ContentsThere
<1>9. WaitersKnown'
  <2>. SUFFICES ASSUME NEW k \in Clients, client'[k].pc = "waiting"
                PROVE  /\ client'[k].next_cfg > 0
                       /\ \A h \in client'[k].watch : Waits(client[k].next_cfg, h)'
    BY DEF WaitersKnown
  <2>1. /\ client[k].pc = "waiting" /\ client'[k].next_cfg = client[k].next_cfg
        /\ client'[k].watch \subseteq client[k].watch
    BY <1>4, <1>5
  <2>. DEFINE n == client[k].next_cfg
  <2>2. n > 0 /\ n \in Cfgs /\ Bounded(n) /\ \A h \in client[k].watch : h \in Chassis /\ Waits(n, h)
    BY <1>0, <1>1, <2>1 DEF WaitersKnown, Typed, NumbersKnown
  <2>3. ASSUME NEW h \in client'[k].watch
        PROVE  Waits(n, h)'
    BY <1>0, <1>1, <1>3, <1>4, <1>5, <2>1, <2>2, <2>3, SMT, SMTT(60) DEF Waits, Typed, Bounded
  <2>. QED  BY <2>1, <2>2, <2>3
<1>10. WaitSbIsDone'
    BY <1>0, <1>4, <1>5 DEF WaitSbIsDone
<1>11. WaitHvIsDone'
    BY <1>0, <1>4, <1>5 DEF WaitHvIsDone
<1>. QED  BY <1>2, <1>6, <1>7, <1>8, <1>9, <1>10, <1>11 DEF IInv

\* An iteration without the engine sends nothing and moves no number.
LEMMA IterateIdleStep ==
    ASSUME IInv, IterateIdle
    PROVE  IInv'
<1>. USE BoundsAssumption DEF Cfgs, Absent
<1>0. /\ TypeOK /\ NumbersKnown /\ ContentsThere /\ SbTransaction
      /\ WaitersKnown /\ WaitSbIsDone /\ WaitHvIsDone
    BY DEF IInv
<1>1. Typed
    BY <1>0, TypesGive
<1>2. TypeOK'
  <2>1. sbTxn' \in SUBSET SbTxn /\ \A v, w \in sbTxn' : v = w
    BY <1>0, <1>1 DEF TypeOK, Typed, SbTxn, NbGlobal, IterateIdle, CommitSb, Aborts
  <2>2. cur_cfg' \in Cfgs /\ next_cfg' \in Cfgs
    BY <1>0, <1>1 DEF TypeOK, Typed, NbGlobal, IterateIdle, CommitSb, Aborts
  <2>3. dirty' \in BOOLEAN /\ force' \in BOOLEAN
    BY <1>0, <1>1 DEF TypeOK, Typed, IterateIdle, CommitSb, Aborts
  <2>. QED  BY <1>0, <2>1, <2>2, <2>3
            DEF TypeOK, IterateIdle, CommitSb, Aborts, dbVars, northdVars
<1>3. Typed'
    BY <1>2, TypesGive, PTL
<1>4. /\ cur_cfg' = cur_cfg /\ sbTxn' = sbTxn
    BY <1>0, <1>1 DEF TypeOK, Typed, NbGlobal, SbGlobal, Client, IterateIdle, CommitSb, Aborts
<1>5. UNCHANGED <<nb, sb, chassis, running, client, nbView, sbView, nbTxn, next_cfg, need>>
    BY DEF IterateIdle, CommitSb, Aborts, dbVars, northdVars
<1>6. NumbersKnown'
    BY <1>0, <1>4, <1>5 DEF NumbersKnown, Bounded
<1>7. ContentsThere'
    BY <1>0, <1>4, <1>5 DEF ContentsThere
<1>8. SbTransaction'
    BY <1>0, <1>4, <1>5 DEF SbTransaction
<1>9. WaitersKnown'
    BY <1>0, <1>4, <1>5, SMT, SMTT(60) DEF WaitersKnown, Waits
<1>10. WaitSbIsDone'
    BY <1>0, <1>4, <1>5 DEF WaitSbIsDone
<1>11. WaitHvIsDone'
    BY <1>0, <1>4, <1>5 DEF WaitHvIsDone
<1>. QED  BY <1>2, <1>6, <1>7, <1>8, <1>9, <1>10, <1>11 DEF IInv

\* The northbound database takes sb_cfg and hv_cfg together.
LEMMA NbApplyStep ==
    ASSUME IInv, NbApply
    PROVE  IInv'
<1>. USE BoundsAssumption DEF Cfgs, Absent
<1>0. /\ TypeOK /\ NumbersKnown /\ ContentsThere /\ SbTransaction
      /\ WaitersKnown /\ WaitSbIsDone /\ WaitHvIsDone
    BY DEF IInv
<1>1. Typed
    BY <1>0, TypesGive
<1>2. TypeOK'
  <2>1. nb' \in NbGlobal
    BY <1>0, <1>1 DEF TypeOK, Typed, NbGlobal, NbApply
  <2>2. nbTxn' \in SUBSET NbTxn /\ \A v, w \in nbTxn' : v = w
    BY <1>0, <1>1 DEF TypeOK, Typed, NbTxn, NbGlobal, Rows, SbGlobal, NbApply
  <2>. QED  BY <1>0, <2>1, <2>2 DEF TypeOK, NbApply, dbVars, northdVars
<1>3. Typed'
    BY <1>2, TypesGive, PTL
<1>4. /\ nb'.content = nb.content /\ nb'.nb_cfg = nb.nb_cfg
      /\ \E w \in nbTxn : nb'.sb_cfg = w.sb_cfg /\ nb'.hv_cfg = w.hv_cfg
      /\ \A v \in nbTxn' : \E w \in nbTxn : v.sb_cfg = w.sb_cfg /\ v.hv_cfg = w.hv_cfg
    BY <1>0, <1>1, SMT, SMTT(60) DEF TypeOK, Typed, NbGlobal, SbGlobal, Client, NbApply
<1>5. UNCHANGED <<sb, chassis, running, client, nbView, sbView, sbTxn, cur_cfg, next_cfg, need>>
    BY DEF NbApply, dbVars, northdVars
<1>6. NumbersKnown'
    BY <1>0, <1>4, <1>5 DEF NumbersKnown, Bounded
<1>7. ContentsThere'
    BY <1>0, <1>4, <1>5 DEF ContentsThere
<1>8. SbTransaction'
    BY <1>0, <1>4, <1>5 DEF SbTransaction
<1>9. WaitersKnown'
  <2>. SUFFICES ASSUME NEW k \in Clients, client'[k].pc = "waiting"
                PROVE  /\ client'[k].next_cfg > 0
                       /\ \A h \in client'[k].watch : Waits(client[k].next_cfg, h)'
    BY DEF WaitersKnown
  <2>1. /\ client[k].pc = "waiting" /\ client'[k].next_cfg = client[k].next_cfg
        /\ client'[k].watch \subseteq client[k].watch
    BY <1>4, <1>5
  <2>. DEFINE n == client[k].next_cfg
  <2>2. n > 0 /\ n \in Cfgs /\ Bounded(n) /\ \A h \in client[k].watch : h \in Chassis /\ Waits(n, h)
    BY <1>0, <1>1, <2>1 DEF WaitersKnown, Typed, NumbersKnown
  <2>3. ASSUME NEW h \in client'[k].watch
        PROVE  Waits(n, h)'
    <3>1. Waits(n, h)
      BY <2>1, <2>2, <2>3
    <3>. QED  BY <1>1, <1>4, <1>5, <2>1, <3>1 DEF Waits, Typed
  <2>. QED  BY <2>1, <2>2, <2>3
<1>10. WaitSbIsDone'
    BY <1>0, <1>4, <1>5 DEF WaitSbIsDone
<1>11. WaitHvIsDone'
    BY <1>0, <1>4, <1>5 DEF WaitHvIsDone
<1>. QED  BY <1>2, <1>6, <1>7, <1>8, <1>9, <1>10, <1>11 DEF IInv

\* The southbound database takes contents that are later than its own.
LEMMA SbApplyStep ==
    ASSUME IInv, SbApply
    PROVE  IInv'
<1>. USE BoundsAssumption DEF Cfgs, Absent
<1>0. /\ TypeOK /\ NumbersKnown /\ ContentsThere /\ SbTransaction
      /\ WaitersKnown /\ WaitSbIsDone /\ WaitHvIsDone
    BY DEF IInv
<1>1. Typed
    BY <1>0, TypesGive
<1>2. TypeOK'
  <2>1. sb' \in SbGlobal
    BY <1>0, <1>1, SMT, SMTT(60) DEF TypeOK, Typed, SbGlobal, SbApply
  <2>2. sbTxn' \in SUBSET SbTxn /\ \A v, w \in sbTxn' : v = w
    BY <1>0, <1>1 DEF TypeOK, Typed, SbTxn, NbGlobal, SbApply
  <2>. QED  BY <1>0, <2>1, <2>2 DEF TypeOK, SbApply, dbVars, northdVars
<1>3. Typed'
    BY <1>2, TypesGive, PTL
<1>4. /\ \A w \in sbTxn : sb'.content = w.content /\ sb'.nb_cfg = w.nb_cfg
      /\ sbTxn # {}
      /\ \A v \in sbTxn' : v.applied /\ \E w \in sbTxn : v.content = w.content /\ v.nb_cfg = w.nb_cfg
      /\ sbTxn' # {}
  <2>1. PICK u \in sbTxn : /\ sb' = [content |-> u.content, nb_cfg |-> u.nb_cfg]
                          /\ sbTxn' = {[u EXCEPT !.applied = TRUE]}
    BY DEF SbApply
  <2>2. u \in SbTxn /\ \A w \in sbTxn : w = u
    BY <1>0 DEF TypeOK
  <2>3. LET v == [u EXCEPT !.applied = TRUE]
        IN  v.applied /\ v.content = u.content /\ v.nb_cfg = u.nb_cfg
    BY <2>2 DEF SbTxn
  <2>. QED  BY <2>1, <2>2, <2>3
<1>5. UNCHANGED <<nb, chassis, running, client, nbView, sbView, nbTxn, cur_cfg, next_cfg, need>>
    BY DEF SbApply, dbVars, northdVars
<1>6. NumbersKnown'
    BY <1>0, <1>4, <1>5, SMT, SMTT(60) DEF NumbersKnown, Bounded
<1>7. ContentsThere'
    BY <1>0, <1>1, <1>4, <1>5, SMT, SMTT(60) DEF Typed, ContentsThere, SbTransaction
<1>8. SbTransaction'
    BY <1>0, <1>1, <1>4, <1>5, SMT, SMTT(60) DEF Typed, SbTransaction
<1>9. WaitersKnown'
    BY <1>0, <1>4, <1>5, SMT, SMTT(60) DEF WaitersKnown, Waits
<1>10. WaitSbIsDone'
    BY <1>0, <1>1, <1>4, <1>5, SMT, SMTT(60) DEF Typed, WaitSbIsDone, SbTransaction
<1>11. WaitHvIsDone'
    BY <1>0, <1>4, <1>5 DEF WaitHvIsDone
<1>. QED  BY <1>2, <1>6, <1>7, <1>8, <1>9, <1>10, <1>11 DEF IInv

\* The northbound commit ends.
LEMMA NbCommittedStep ==
    ASSUME IInv, NEW ok \in BOOLEAN, NbCommitted(ok)
    PROVE  IInv'
<1>. USE BoundsAssumption DEF Cfgs, Absent
<1>0. /\ TypeOK /\ NumbersKnown /\ ContentsThere /\ SbTransaction
      /\ WaitersKnown /\ WaitSbIsDone /\ WaitHvIsDone
    BY DEF IInv
<1>1. Typed
    BY <1>0, TypesGive
<1>2. TypeOK'
  <2>1. nbView' \in NbGlobal
    BY <1>0, <1>1 DEF TypeOK, Typed, NbGlobal, NbCommitted, NbChanged
  <2>2. nbTxn' \in SUBSET NbTxn /\ \A v, w \in nbTxn' : v = w
    BY <1>0, <1>1 DEF TypeOK, Typed, NbTxn, NbGlobal, Rows, SbGlobal, NbCommitted, NbChanged
  <2>3. dirty' \in BOOLEAN /\ force' \in BOOLEAN
    BY <1>0, <1>1 DEF TypeOK, Typed, NbCommitted, NbChanged
  <2>4. faults' \in 0..MaxFaults
    BY <1>0, <1>1, SMT, SMTT(60) DEF TypeOK, Typed, NbCommitted, NbChanged
  <2>. QED  BY <1>0, <2>1, <2>2, <2>3, <2>4
            DEF TypeOK, NbCommitted, NbChanged, dbVars, northdVars
<1>3. Typed'
    BY <1>2, TypesGive, PTL
<1>4. /\ nbTxn' = {}
      /\ nbView' \in {nb, nbView}
    BY <1>0, <1>1 DEF TypeOK, Typed, NbGlobal, SbGlobal, Client, NbCommitted, NbChanged
<1>5. UNCHANGED <<nb, sb, chassis, running, client, sbView, sbTxn, cur_cfg, next_cfg, need>>
    BY DEF NbCommitted, NbChanged, dbVars, northdVars
<1>6. NumbersKnown'
  <2>1. Bounded(nbView'.nb_cfg) /\ Bounded(nbView'.sb_cfg)
    BY <1>0, <1>1, <1>4, SMT, SMTT(60) DEF NumbersKnown, Bounded, Typed
  <2>. QED  BY <1>0, <1>4, <1>5, <2>1 DEF NumbersKnown, Bounded
<1>7. ContentsThere'
    BY <1>0, <1>1, <1>4, <1>5, SMT, SMTT(60) DEF Typed, ContentsThere
<1>8. SbTransaction'
    BY <1>0, <1>1, <1>4, <1>5, SMT, SMTT(60) DEF Typed, SbTransaction, ContentsThere
<1>9. WaitersKnown'
    BY <1>0, <1>4, <1>5 DEF WaitersKnown, Waits
<1>10. WaitSbIsDone'
    BY <1>0, <1>4, <1>5 DEF WaitSbIsDone
<1>11. WaitHvIsDone'
    BY <1>0, <1>4, <1>5 DEF WaitHvIsDone
<1>. QED  BY <1>2, <1>6, <1>7, <1>8, <1>9, <1>10, <1>11 DEF IInv

\* The southbound commit ends: cur_cfg moves only if the contents are there.
LEMMA SbCommittedStep ==
    ASSUME IInv, NEW ok \in BOOLEAN, SbCommitted(ok)
    PROVE  IInv'
<1>. USE BoundsAssumption DEF Cfgs, Absent
<1>0. /\ TypeOK /\ NumbersKnown /\ ContentsThere /\ SbTransaction
      /\ WaitersKnown /\ WaitSbIsDone /\ WaitHvIsDone
    BY DEF IInv
<1>1. Typed
    BY <1>0, TypesGive
<1>2. TypeOK'
  <2>1. sbView' \in [content : Cfgs, nb_cfg : Cfgs, chassis : Rows]
    <3>1. sbView' \in {View, sbView}
      BY DEF SbCommitted
    <3>2. View \in [content : Cfgs, nb_cfg : Cfgs, chassis : Rows]
      BY <1>0, <1>1 DEF View, TypeOK, Typed
    <3>. QED  BY <1>0, <3>1, <3>2 DEF TypeOK
  <2>2. sbTxn' \in SUBSET SbTxn /\ \A v, w \in sbTxn' : v = w
    BY <1>0, <1>1 DEF TypeOK, Typed, SbTxn, NbGlobal, SbCommitted, View
  <2>3. cur_cfg' \in Cfgs /\ next_cfg' \in Cfgs
    BY <1>0, <1>1 DEF TypeOK, Typed, NbGlobal, SbCommitted, View
  <2>4. dirty' \in BOOLEAN /\ force' \in BOOLEAN
    BY <1>0, <1>1 DEF TypeOK, Typed, SbCommitted, View
  <2>5. faults' \in 0..MaxFaults
    BY <1>0, <1>1, SMT, SMTT(60) DEF TypeOK, Typed, SbCommitted, View
  <2>. QED  BY <1>0, <2>1, <2>2, <2>3, <2>4, <2>5
            DEF TypeOK, SbCommitted, View, dbVars, northdVars
<1>3. Typed'
    BY <1>2, TypesGive, PTL
<1>4. /\ sbTxn' = {} /\ sbTxn # {}
      /\ \/ /\ sbView'.content = sb.content /\ sbView'.nb_cfg = sb.nb_cfg /\ sbView'.chassis = chassis
            /\ cur_cfg' = cur_cfg \/ (cur_cfg' = next_cfg /\ \E w \in sbTxn : w.applied)
         \/ sbView' = sbView /\ cur_cfg' = cur_cfg /\ \A w \in sbTxn : ~ w.applied
  <2>1. PICK u \in sbTxn : (ok => u.applied) /\ sbView' = IF u.applied THEN View ELSE sbView
    BY DEF SbCommitted
  <2>2. sbTxn' = {} /\ cur_cfg' = (IF ok THEN next_cfg ELSE cur_cfg) /\ \A w \in sbTxn : w = u
    BY <1>0 DEF TypeOK, SbCommitted
  <2>3. CASE u.applied
    BY <2>1, <2>2, <2>3 DEF View
  <2>4. CASE ~ u.applied
    BY <2>1, <2>2, <2>4
  <2>. QED  BY <2>3, <2>4
<1>5. UNCHANGED <<nb, sb, chassis, running, client, nbView, nbTxn, next_cfg, need>>
    BY DEF SbCommitted, View, dbVars, northdVars
<1>6. NumbersKnown'
    BY <1>0, <1>4, <1>5 DEF NumbersKnown, Bounded
<1>7. ContentsThere'
    BY <1>0, <1>4, <1>5 DEF ContentsThere, SbTransaction
<1>8. SbTransaction'
    BY <1>0, <1>4, <1>5 DEF SbTransaction
<1>9. WaitersKnown'
  <2>. SUFFICES ASSUME NEW k \in Clients, client'[k].pc = "waiting"
                PROVE  /\ client'[k].next_cfg > 0
                       /\ \A h \in client'[k].watch : Waits(client[k].next_cfg, h)'
    BY DEF WaitersKnown
  <2>1. /\ client[k].pc = "waiting" /\ client'[k].next_cfg = client[k].next_cfg
        /\ client'[k].watch \subseteq client[k].watch
    BY <1>4, <1>5
  <2>. DEFINE n == client[k].next_cfg
  <2>2. n > 0 /\ n \in Cfgs /\ Bounded(n) /\ \A h \in client[k].watch : h \in Chassis /\ Waits(n, h)
    BY <1>0, <1>1, <2>1 DEF WaitersKnown, Typed, NumbersKnown
  <2>3. ASSUME NEW h \in client'[k].watch
        PROVE  Waits(n, h)'
    <3>1. CASE sbView'.chassis = chassis
      <4>1. h \in Chassis /\ Waits(n, h)
        BY <2>1, <2>2, <2>3
      <4>2. /\ chassis[h] # Absent /\ (nb.sb_cfg >= n /\ nb.hv_cfg >= n => need[n] <= running[h].content)
            /\ \A w \in nbTxn : w.sb_cfg >= n /\ w.hv_cfg >= n => need[n] <= running[h].content
        BY <4>1 DEF Waits
      <4>3. /\ chassis[h] \in Cfgs \cup {Absent} /\ chassis[h] <= nb.nb_cfg /\ need[chassis[h]] <= running[h].content
            /\ \A k1 \in Cfgs : need[k1] \in Cfgs
            /\ \A k1, k2 \in Cfgs : k1 <= k2 /\ k2 <= nb.nb_cfg => need[k1] <= need[k2]
        BY <1>0, <1>1, <4>1, <4>2 DEF Typed, Bounded, NumbersKnown, ContentsThere
      <4>4. chassis[h] >= n => need[n] <= running[h].content
        <5>1. running[h].content \in Cfgs
          BY <1>1, <4>1 DEF Typed
        <5>. QED  BY <2>2, <4>2, <4>3, <5>1, SMT, SMTT(60)
      <4>5. sbView'.chassis[h] = chassis[h] /\ UNCHANGED <<nb, chassis, running, need, nbTxn>>
        BY <1>5, <3>1
      <4>. QED  BY <2>1, <4>2, <4>4, <4>5 DEF Waits
    <3>2. CASE sbView' = sbView /\ cur_cfg' = cur_cfg
      BY <1>5, <2>1, <2>2, <2>3, <3>2 DEF Waits
    <3>. QED  BY <1>4, <3>1, <3>2
  <2>. QED  BY <2>1, <2>2, <2>3
<1>10. WaitSbIsDone'
    BY <1>0, <1>4, <1>5 DEF WaitSbIsDone
<1>11. WaitHvIsDone'
    BY <1>0, <1>4, <1>5 DEF WaitHvIsDone
<1>. QED  BY <1>2, <1>6, <1>7, <1>8, <1>9, <1>10, <1>11 DEF IInv

\* A new ovn-northd knows what the databases have, and no cur_cfg.
LEMMA RestartStep ==
    ASSUME IInv, Restart
    PROVE  IInv'
<1>. USE BoundsAssumption DEF Cfgs, Absent
<1>0. /\ TypeOK /\ NumbersKnown /\ ContentsThere /\ SbTransaction
      /\ WaitersKnown /\ WaitSbIsDone /\ WaitHvIsDone
    BY DEF IInv
<1>1. Typed
    BY <1>0, TypesGive
<1>2. TypeOK'
  <2>1. nbView' \in NbGlobal
    BY <1>0 DEF TypeOK, Restart
  <2>2. sbView' \in [content : Cfgs, nb_cfg : Cfgs, chassis : Rows]
    BY <1>0, <1>1 DEF TypeOK, Typed, SbGlobal, Rows, Restart, View
  <2>3. nbTxn' \in SUBSET NbTxn /\ \A v, w \in nbTxn' : v = w
    BY <1>0, <1>1 DEF TypeOK, Typed, NbTxn, NbGlobal, Rows, SbGlobal, Restart, View
  <2>4. sbTxn' \in SUBSET SbTxn /\ \A v, w \in sbTxn' : v = w
    BY <1>0, <1>1 DEF TypeOK, Typed, SbTxn, NbGlobal, Restart, View
  <2>5. cur_cfg' \in Cfgs /\ next_cfg' \in Cfgs
    BY <1>0, <1>1, SMT, SMTT(60) DEF TypeOK, Typed, NbGlobal, Restart, View
  <2>6. dirty' \in BOOLEAN /\ force' \in BOOLEAN
    BY <1>0, <1>1 DEF TypeOK, Typed, Restart, View
  <2>7. faults' \in 0..MaxFaults
    BY <1>0, <1>1, SMT, SMTT(60) DEF TypeOK, Typed, Restart, View
  <2>. QED  BY <1>0, <2>1, <2>2, <2>3, <2>4, <2>5, <2>6, <2>7
            DEF TypeOK, Restart, View, dbVars, northdVars
<1>3. Typed'
    BY <1>2, TypesGive, PTL
<1>4. /\ nbView' = nb /\ sbView'.content = sb.content /\ sbView'.nb_cfg = sb.nb_cfg /\ sbView'.chassis = chassis
      /\ nbTxn' = {} /\ sbTxn' = {} /\ cur_cfg' = 0 /\ next_cfg' = 0
    BY <1>0, <1>1 DEF TypeOK, Typed, NbGlobal, SbGlobal, Client, Restart, View
<1>5. UNCHANGED <<nb, sb, chassis, running, client, need>>
    BY DEF Restart, View, dbVars, northdVars
<1>6. NumbersKnown'
  <2>1. Bounded(nbView'.nb_cfg) /\ Bounded(nbView'.sb_cfg)
    BY <1>0, <1>1, <1>4, SMT, SMTT(60) DEF NumbersKnown, Bounded, Typed
  <2>2. Bounded(sbView'.nb_cfg) /\ (\A h \in Chassis : Bounded(sbView'.chassis[h])) /\ Bounded(0)
    BY <1>0, <1>1, <1>4, SMT, SMTT(60) DEF NumbersKnown, Bounded, Typed
  <2>. QED  BY <1>0, <1>4, <1>5, <2>1, <2>2 DEF NumbersKnown, Bounded
<1>7. ContentsThere'
    BY <1>0, <1>1, <1>4, <1>5, SMT, SMTT(60) DEF Typed, ContentsThere, NumbersKnown, Bounded
<1>8. SbTransaction'
    BY <1>0, <1>4, <1>5 DEF SbTransaction
<1>9. WaitersKnown'
  <2>. SUFFICES ASSUME NEW k \in Clients, client'[k].pc = "waiting"
                PROVE  /\ client'[k].next_cfg > 0
                       /\ \A h \in client'[k].watch : Waits(client[k].next_cfg, h)'
    BY DEF WaitersKnown
  <2>1. /\ client[k].pc = "waiting" /\ client'[k].next_cfg = client[k].next_cfg
        /\ client'[k].watch \subseteq client[k].watch
    BY <1>4, <1>5
  <2>. DEFINE n == client[k].next_cfg
  <2>2. n > 0 /\ n \in Cfgs /\ Bounded(n) /\ \A h \in client[k].watch : h \in Chassis /\ Waits(n, h)
    BY <1>0, <1>1, <2>1 DEF WaitersKnown, Typed, NumbersKnown
  <2>3. ASSUME NEW h \in client'[k].watch
        PROVE  Waits(n, h)'
    <3>1. h \in Chassis /\ Waits(n, h)
      BY <2>1, <2>2, <2>3
    <3>2. chassis[h] >= n => need[n] <= running[h].content
      BY <1>0, <1>1, <2>2, <3>1 DEF Waits, Typed, Bounded, NumbersKnown, ContentsThere
    <3>. QED  BY <1>4, <1>5, <2>1, <3>1, <3>2 DEF Waits
  <2>. QED  BY <2>1, <2>2, <2>3
<1>10. WaitSbIsDone'
    BY <1>0, <1>4, <1>5 DEF WaitSbIsDone
<1>11. WaitHvIsDone'
    BY <1>0, <1>4, <1>5 DEF WaitHvIsDone
<1>. QED  BY <1>2, <1>6, <1>7, <1>8, <1>9, <1>10, <1>11 DEF IInv

-----------------------------------------------------------------------------
(* The clients keep the invariant *)

\* A new number is ahead of every number there is, and stands for the contents it
\* comes with (nbctl_pre_execute).
LEMMA ExecuteStep ==
    ASSUME IInv, NEW c \in Clients, NEW wait \in {"sb", "hv"}, NEW changes \in 0..1, Execute(c, wait, changes)
    PROVE  IInv'
<1>. USE BoundsAssumption DEF Cfgs, Absent
<1>0. /\ TypeOK /\ NumbersKnown /\ ContentsThere /\ SbTransaction
      /\ WaitersKnown /\ WaitSbIsDone /\ WaitHvIsDone
    BY DEF IInv
<1>1. Typed
    BY <1>0, TypesGive
<1>2. TypeOK'
  <2>1. nb' \in NbGlobal
    <3>1. nb \in NbGlobal
      BY <1>0 DEF TypeOK
    <3>2. /\ nb.nb_cfg + 1 \in Cfgs /\ nb.content + changes \in Cfgs
          /\ nb' = [nb EXCEPT !.content = @ + changes, !.nb_cfg = @ + 1]
      BY <1>1, SMT, SMTT(60) DEF Execute, Typed
    <3>. QED  BY <3>1, <3>2 DEF NbGlobal
  <2>2. client' \in [Clients -> Client]
    <3>1. [pc |-> "waiting", wait |-> wait, next_cfg |-> nb'.nb_cfg, watch |-> Present(chassis)] \in Client
      BY <2>1 DEF Client, NbGlobal, Present
    <3>. QED  BY <1>0, <3>1 DEF TypeOK, Execute
  <2>3. need' \in [Cfgs -> Cfgs]
    <3>1. need \in [Cfgs -> Cfgs] /\ need' = [need EXCEPT ![nb'.nb_cfg] = nb'.content]
      BY <1>0 DEF TypeOK, Execute
    <3>. QED  BY <2>1, <3>1 DEF NbGlobal
  <2>. QED  BY <1>0, <2>1, <2>2, <2>3 DEF TypeOK, Execute, Present, dbVars, northdVars
<1>3. Typed'
    BY <1>2, TypesGive, PTL
<1>4. /\ nb'.nb_cfg = nb.nb_cfg + 1 /\ nb'.nb_cfg \in Cfgs /\ nb.content <= nb'.content
      /\ nb'.sb_cfg = nb.sb_cfg /\ nb'.hv_cfg = nb.hv_cfg
      /\ need'[nb'.nb_cfg] = nb'.content /\ \A n \in Cfgs : n # nb'.nb_cfg => need'[n] = need[n]
      /\ \A k \in Clients : k # c => client'[k] = client[k]
      /\ client'[c].pc = "waiting" /\ client'[c].next_cfg = nb'.nb_cfg
      /\ \A h \in client'[c].watch : chassis[h] # Absent
  <2>1. nb \in NbGlobal /\ nb' = [nb EXCEPT !.content = @ + changes, !.nb_cfg = @ + 1]
    BY <1>0 DEF TypeOK, Execute
  <2>2. /\ nb'.nb_cfg = nb.nb_cfg + 1 /\ nb'.content = nb.content + changes
        /\ nb'.sb_cfg = nb.sb_cfg /\ nb'.hv_cfg = nb.hv_cfg
    BY <2>1 DEF NbGlobal
  <2>3. nb'.nb_cfg \in Cfgs /\ nb.content <= nb'.content
    BY <1>1, <1>3, <2>2, SMT, SMTT(60) DEF Typed
  <2>4. need \in [Cfgs -> Cfgs] /\ need' = [need EXCEPT ![nb'.nb_cfg] = nb'.content]
    BY <1>0 DEF TypeOK, Execute
  <2>5. /\ client \in [Clients -> Client]
        /\ client' = [client EXCEPT ![c] = [pc |-> "waiting", wait |-> wait,
                                           next_cfg |-> nb'.nb_cfg, watch |-> Present(chassis)]]
    BY <1>0 DEF TypeOK, Execute
  <2>. QED  BY <2>2, <2>3, <2>4, <2>5 DEF Present
<1>5. UNCHANGED <<sb, chassis, running, nbView, sbView, nbTxn, sbTxn, cur_cfg, next_cfg>>
    BY DEF Execute, Present, dbVars, northdVars
<1>6. NumbersKnown'
  <2>1. \A n : Bounded(n) /\ n \in Int => Bounded(n)'
    BY <1>1, <1>4, SMT, SMTT(60) DEF Bounded, Typed
  <2>2. \A m, n \in Cfgs : m <= n /\ n <= nb'.nb_cfg => need'[m] <= need'[n]
    <3>. SUFFICES ASSUME NEW m \in Cfgs, NEW n \in Cfgs, m <= n, n <= nb.nb_cfg + 1
                  PROVE  need'[m] <= need'[n]
      BY <1>4
    <3>1. CASE n <= nb.nb_cfg
      BY <1>0, <1>1, <1>4, <3>1, SMT, SMTT(60) DEF NumbersKnown, Typed
    <3>2. CASE n = nb.nb_cfg + 1 /\ m <= nb.nb_cfg
      <4>1. need'[m] = need[m] /\ need'[n] = nb'.content
        BY <1>1, <1>4, <3>2, SMT, SMTT(60) DEF Typed
      <4>2. need[m] <= need[nb.nb_cfg] /\ need[nb.nb_cfg] <= nb.content
        BY <1>0, <1>1, <3>2, SMT, SMTT(60) DEF NumbersKnown, ContentsThere, Typed
      <4>. QED  BY <1>1, <1>3, <1>4, <4>1, <4>2, SMT, SMTT(60) DEF Typed
    <3>3. CASE n = nb.nb_cfg + 1 /\ m = nb.nb_cfg + 1
      BY <1>3, <1>4, <3>3, SMT, SMTT(60) DEF Typed
    <3>. QED  BY <1>1, <3>1, <3>2, <3>3, SMT, SMTT(60) DEF Typed
  <2>3. need'[0] = 0
    BY <1>0, <1>1, <1>4, SMT, SMTT(60) DEF NumbersKnown, Typed
  <2>4. \A k \in Clients : client'[k].next_cfg <= nb'.nb_cfg
    BY <1>0, <1>1, <1>4, SMT, SMTT(60) DEF NumbersKnown, Bounded, Typed
  <2>. QED  BY <1>0, <1>1, <1>4, <1>5, <2>1, <2>2, <2>3, <2>4, SMT, SMTT(60) DEF NumbersKnown, Bounded, Typed
<1>7. ContentsThere'
  <2>1. \A n \in Cfgs : Bounded(n) => need'[n] = need[n]
    BY <1>1, <1>4, SMT, SMTT(60) DEF Bounded, Typed
  <2>2. /\ need'[nbView.nb_cfg] = need[nbView.nb_cfg] /\ need'[sb.nb_cfg] = need[sb.nb_cfg]
        /\ need'[cur_cfg] = need[cur_cfg] /\ need'[nb.sb_cfg] = need[nb.sb_cfg]
        /\ need'[nbView.sb_cfg] = need[nbView.sb_cfg] /\ \A w \in nbTxn : need'[w.sb_cfg] = need[w.sb_cfg]
        /\ \A h \in Chassis : /\ need'[running[h].nb_cfg] = need[running[h].nb_cfg]
                              /\ chassis[h] # Absent => need'[chassis[h]] = need[chassis[h]]
    BY <1>0, <1>1, <2>1 DEF NumbersKnown, Typed
  <2>3. nb.content \in Cfgs /\ nb'.content \in Cfgs /\ nbView.content \in Cfgs
    BY <1>1, <1>3 DEF Typed
  <2>4. need'[nb'.nb_cfg] <= nb'.content
    BY <1>4, <2>3, SMT, SMTT(60)
  <2>5. nbView.content <= nb.content
    BY <1>0 DEF ContentsThere
  <2>6. nbView.content <= nb'.content
    BY <1>4, <2>3, <2>5, SMT, SMTT(60)
  <2>. QED  BY <1>0, <1>4, <1>5, <2>2, <2>4, <2>6 DEF ContentsThere
<1>8. SbTransaction'
    BY <1>0, <1>1, <1>4, <1>5, SMT, SMTT(60) DEF Typed, SbTransaction, NumbersKnown, Bounded
<1>9. WaitersKnown'
  <2>. SUFFICES ASSUME NEW k \in Clients, client'[k].pc = "waiting"
                PROVE  /\ client'[k].next_cfg > 0
                       /\ \A h \in client'[k].watch : Waits(client[k].next_cfg, h)'
    BY DEF WaitersKnown
  <2>1. CASE k # c
    <3>1. client'[k] = client[k]
      BY <1>4, <2>1
    <3>2. client[k].next_cfg > 0 /\ \A h \in client[k].watch : Waits(client[k].next_cfg, h)
      BY <1>0, <3>1 DEF WaitersKnown
    <3>3. client[k].next_cfg \in Cfgs /\ client[k].next_cfg <= nb.nb_cfg /\ nb.nb_cfg \in Cfgs
      BY <1>0, <1>1 DEF Typed, NumbersKnown, Bounded
    <3>4. need'[client[k].next_cfg] = need[client[k].next_cfg]
      BY <1>4, <3>3, SMT, SMTT(60)
    <3>. QED  BY <1>4, <1>5, <3>1, <3>2, <3>4 DEF Waits
  <2>2. CASE k = c
    <3>1. PICK n \in Cfgs : n = nb'.nb_cfg /\ n = nb.nb_cfg + 1 /\ client'[c].next_cfg = n
      BY <1>4
    <3>2. \A m \in Cfgs \cup {Absent} : m <= nb.nb_cfg => m < n /\ ~ (m >= n)
      BY <1>1, <3>1, SMT, SMTT(60) DEF Typed
    <3>3. n > 0
      BY <1>1, <3>1, SMT, SMTT(60) DEF Typed
    <3>4. /\ sbView.nb_cfg < n /\ cur_cfg < n /\ nb.sb_cfg < n /\ nbView.sb_cfg < n /\ ~ (nb.sb_cfg >= n)
          /\ \A w \in nbTxn : w.sb_cfg < n /\ ~ (w.sb_cfg >= n)
      BY <1>0, <1>1, <3>2 DEF Typed, NumbersKnown, Bounded
    <3>5. ASSUME NEW h \in client'[c].watch PROVE h \in Chassis /\ chassis[h] # Absent /\ ~ (sbView.chassis[h] >= n)
      <4>1. h \in Chassis /\ chassis[h] # Absent
        BY <1>3, <1>4 DEF Typed
      <4>. QED  BY <1>0, <1>1, <3>2, <4>1 DEF Typed, NumbersKnown, Bounded
    <3>. QED  BY <1>4, <1>5, <2>2, <3>1, <3>3, <3>4, <3>5 DEF Waits
  <2>. QED  BY <2>1, <2>2
<1>10. WaitSbIsDone' /\ WaitHvIsDone'
  <2>. SUFFICES ASSUME NEW k \in Clients, client'[k].pc = "done"
                PROVE  client'[k] = client[k] /\ need'[client'[k].next_cfg] = need[client[k].next_cfg]
    BY <1>0, <1>5 DEF WaitSbIsDone, WaitHvIsDone
  <2>1. client'[k] = client[k]
    BY <1>4
  <2>2. client[k].next_cfg \in Cfgs /\ client[k].next_cfg <= nb.nb_cfg /\ nb.nb_cfg \in Cfgs
    BY <1>0, <1>1 DEF Typed, NumbersKnown, Bounded
  <2>3. need'[client[k].next_cfg] = need[client[k].next_cfg]
    BY <1>4, <2>2, SMT, SMTT(60)
  <2>. QED  BY <2>1, <2>3
<1>. QED  BY <1>2, <1>6, <1>7, <1>8, <1>9, <1>10 DEF IInv

\* A change without a number only makes the contents later.
LEMMA ExecuteNoWaitStep ==
    ASSUME IInv, ExecuteNoWait
    PROVE  IInv'
<1>. USE BoundsAssumption DEF Cfgs, Absent
<1>0. /\ TypeOK /\ NumbersKnown /\ ContentsThere /\ SbTransaction
      /\ WaitersKnown /\ WaitSbIsDone /\ WaitHvIsDone
    BY DEF IInv
<1>1. Typed
    BY <1>0, TypesGive
<1>2. TypeOK'
  <2>1. nb' \in NbGlobal
    <3>1. nb \in NbGlobal /\ nb.content < MaxWrites /\ nb' = [nb EXCEPT !.content = @ + 1]
      BY <1>0 DEF TypeOK, ExecuteNoWait
    <3>2. nb.content + 1 \in Cfgs
      BY <1>1, <3>1, SMT, SMTT(60) DEF Typed
    <3>. QED  BY <3>1, <3>2 DEF NbGlobal
  <2>. QED  BY <1>0, <2>1 DEF TypeOK, ExecuteNoWait, dbVars, northdVars
<1>3. Typed'
    BY <1>2, TypesGive, PTL
<1>4. /\ nb'.nb_cfg = nb.nb_cfg /\ nb'.sb_cfg = nb.sb_cfg /\ nb'.hv_cfg = nb.hv_cfg
      /\ nb.content <= nb'.content
    BY <1>0, <1>1, SMT, SMTT(60) DEF TypeOK, Typed, NbGlobal, SbGlobal, Client, ExecuteNoWait
<1>5. UNCHANGED <<sb, chassis, running, client, nbView, sbView, nbTxn, sbTxn, cur_cfg, next_cfg, need>>
    BY DEF ExecuteNoWait, dbVars, northdVars
<1>6. NumbersKnown'
    BY <1>0, <1>4, <1>5 DEF NumbersKnown, Bounded
<1>7. ContentsThere'
  <2>1. nb.content \in Cfgs /\ nb'.content \in Cfgs /\ nbView.content \in Cfgs /\ need[nb.nb_cfg] \in Cfgs
    BY <1>1, <1>3 DEF Typed
  <2>2. nbView.content <= nb.content /\ need[nb.nb_cfg] <= nb.content
    BY <1>0 DEF ContentsThere
  <2>3. nbView.content <= nb'.content /\ need[nb.nb_cfg] <= nb'.content
    BY <1>4, <2>1, <2>2, SMT, SMTT(60)
  <2>. QED  BY <1>0, <1>4, <1>5, <2>3 DEF ContentsThere
<1>8. SbTransaction'
    BY <1>0, <1>4, <1>5 DEF SbTransaction
<1>9. WaitersKnown'
    BY <1>0, <1>4, <1>5, SMT, SMTT(60) DEF WaitersKnown, Waits
<1>10. WaitSbIsDone'
    BY <1>0, <1>4, <1>5 DEF WaitSbIsDone
<1>11. WaitHvIsDone'
    BY <1>0, <1>4, <1>5 DEF WaitHvIsDone
<1>. QED  BY <1>2, <1>6, <1>7, <1>8, <1>9, <1>10, <1>11 DEF IInv

\* A client returns when sb_cfg, or the lesser of sb_cfg and hv_cfg, has reached its
\* number: what the numbers stand for is there (nbctl_post_execute).
LEMMA ReturnStep ==
    ASSUME IInv, NEW c \in Clients, Return(c)
    PROVE  IInv'
<1>. USE BoundsAssumption DEF Cfgs, Absent
<1>0. /\ TypeOK /\ NumbersKnown /\ ContentsThere /\ SbTransaction
      /\ WaitersKnown /\ WaitSbIsDone /\ WaitHvIsDone
    BY DEF IInv
<1>1. Typed
    BY <1>0, TypesGive
<1>2. TypeOK'
  <2>1. client' \in [Clients -> Client]
    <3>1. client[c] \in Client
      BY <1>0 DEF TypeOK
    <3>2. [client[c] EXCEPT !.pc = "done"] \in Client
      BY <3>1 DEF Client
    <3>. QED  BY <1>0, <3>1, <3>2 DEF TypeOK, Return
  <2>. QED  BY <1>0, <2>1 DEF TypeOK, Return, Reached, Lesser, dbVars, northdVars
<1>3. Typed'
    BY <1>2, TypesGive, PTL
<1>4. /\ \A k \in Clients : client'[k].wait = client[k].wait /\ client'[k].next_cfg = client[k].next_cfg
                             /\ client'[k].watch = client[k].watch
      /\ \A k \in Clients : k # c => client'[k].pc = client[k].pc
      /\ client[c].pc = "waiting" /\ client'[c].pc = "done" /\ client[c].next_cfg <= nb.sb_cfg
      /\ client[c].wait = "hv" => client[c].next_cfg <= nb.hv_cfg
  <2>1. client \in [Clients -> Client] /\ client' = [client EXCEPT ![c].pc = "done"]
    BY <1>0 DEF TypeOK, Return
  <2>2. client[c] \in Client /\ client'[c] = [client[c] EXCEPT !.pc = "done"]
    BY <2>1
  <2>3. /\ client'[c].wait = client[c].wait /\ client'[c].next_cfg = client[c].next_cfg
        /\ client'[c].watch = client[c].watch /\ client'[c].pc = "done"
    BY <2>2 DEF Client
  <2>4. client[c].wait \in {"none", "sb", "hv"}
    BY <2>2 DEF Client
  <2>5. /\ client[c].pc = "waiting" /\ client[c].next_cfg <= nb.sb_cfg
        /\ client[c].wait = "hv" => client[c].next_cfg <= nb.hv_cfg
    BY <1>1, <2>4, SMT, SMTT(60) DEF Return, Reached, Lesser, Typed
  <2>. QED  BY <2>1, <2>3, <2>5
<1>5. UNCHANGED <<nb, sb, chassis, running, nbView, sbView, nbTxn, sbTxn, cur_cfg, next_cfg, need>>
    BY DEF Return, Reached, Lesser, dbVars, northdVars
<1>6. NumbersKnown'
    BY <1>0, <1>4, <1>5 DEF NumbersKnown, Bounded
<1>7. ContentsThere'
    BY <1>0, <1>4, <1>5 DEF ContentsThere
<1>8. SbTransaction'
    BY <1>0, <1>4, <1>5 DEF SbTransaction
<1>9. WaitersKnown'
    BY <1>0, <1>4, <1>5, SMT, SMTT(60) DEF WaitersKnown, Waits
<1>10. WaitSbIsDone'
    BY <1>0, <1>1, <1>4, <1>5, SMT, SMTT(60) DEF Typed, WaitSbIsDone, ContentsThere, NumbersKnown, Bounded
<1>11. WaitHvIsDone'
    BY <1>0, <1>4, <1>5 DEF WaitHvIsDone, WaitersKnown, Waits
<1>. QED  BY <1>2, <1>6, <1>7, <1>8, <1>9, <1>10, <1>11 DEF IInv

\* A client that gives up claims nothing.
LEMMA TimeoutExpiredStep ==
    ASSUME IInv, NEW c \in Clients, TimeoutExpired(c)
    PROVE  IInv'
<1>. USE BoundsAssumption DEF Cfgs, Absent
<1>0. /\ TypeOK /\ NumbersKnown /\ ContentsThere /\ SbTransaction
      /\ WaitersKnown /\ WaitSbIsDone /\ WaitHvIsDone
    BY DEF IInv
<1>1. Typed
    BY <1>0, TypesGive
<1>2. TypeOK'
  <2>1. client' \in [Clients -> Client]
    <3>1. client[c] \in Client
      BY <1>0 DEF TypeOK
    <3>2. [client[c] EXCEPT !.pc = "failed"] \in Client
      BY <3>1 DEF Client
    <3>. QED  BY <1>0, <3>1, <3>2 DEF TypeOK, TimeoutExpired
  <2>. QED  BY <1>0, <2>1 DEF TypeOK, TimeoutExpired, dbVars, northdVars
<1>3. Typed'
    BY <1>2, TypesGive, PTL
<1>4. /\ \A k \in Clients : client'[k].wait = client[k].wait /\ client'[k].next_cfg = client[k].next_cfg
                             /\ client'[k].watch = client[k].watch
      /\ \A k \in Clients : k # c => client'[k].pc = client[k].pc
      /\ client'[c].pc = "failed"
  <2>1. client \in [Clients -> Client] /\ client' = [client EXCEPT ![c].pc = "failed"]
    BY <1>0 DEF TypeOK, TimeoutExpired
  <2>2. client[c] \in Client /\ client'[c] = [client[c] EXCEPT !.pc = "failed"]
    BY <2>1
  <2>3. /\ client'[c].wait = client[c].wait /\ client'[c].next_cfg = client[c].next_cfg
        /\ client'[c].watch = client[c].watch /\ client'[c].pc = "failed"
    BY <2>2 DEF Client
  <2>. QED  BY <2>1, <2>3
<1>5. UNCHANGED <<nb, sb, chassis, running, nbView, sbView, nbTxn, sbTxn, cur_cfg, next_cfg, need>>
    BY DEF TimeoutExpired, dbVars, northdVars
<1>6. NumbersKnown'
    BY <1>0, <1>4, <1>5 DEF NumbersKnown, Bounded
<1>7. ContentsThere'
    BY <1>0, <1>4, <1>5 DEF ContentsThere
<1>8. SbTransaction'
    BY <1>0, <1>4, <1>5 DEF SbTransaction
<1>9. WaitersKnown'
    BY <1>0, <1>4, <1>5, SMT, SMTT(60) DEF WaitersKnown, Waits
<1>10. WaitSbIsDone'
    BY <1>0, <1>4, <1>5 DEF WaitSbIsDone
<1>11. WaitHvIsDone'
    BY <1>0, <1>4, <1>5 DEF WaitHvIsDone
<1>. QED  BY <1>2, <1>6, <1>7, <1>8, <1>9, <1>10, <1>11 DEF IInv

-----------------------------------------------------------------------------
(* The chassis keep the invariant *)

\* A chassis installs what the southbound database has, which is never less than what
\* it had.
LEMMA ChassisInstallStep ==
    ASSUME IInv, NEW g \in Chassis, ChassisInstall(g)
    PROVE  IInv'
<1>. USE BoundsAssumption DEF Cfgs, Absent
<1>0. /\ TypeOK /\ NumbersKnown /\ ContentsThere /\ SbTransaction
      /\ WaitersKnown /\ WaitSbIsDone /\ WaitHvIsDone
    BY DEF IInv
<1>1. Typed
    BY <1>0, TypesGive
<1>2. TypeOK'
  <2>1. running' \in [Chassis -> SbGlobal]
    BY <1>0, <1>1 DEF TypeOK, Typed, SbGlobal, ChassisInstall
  <2>. QED  BY <1>0, <2>1 DEF TypeOK, ChassisInstall, dbVars, northdVars
<1>3. Typed'
    BY <1>2, TypesGive, PTL
<1>4. /\ running'[g] = sb /\ \A h \in Chassis : h # g => running'[h] = running[h]
    BY <1>0, <1>1, SMT, SMTT(60) DEF TypeOK, Typed, NbGlobal, SbGlobal, Client, ChassisInstall
<1>5. UNCHANGED <<nb, sb, chassis, client, nbView, sbView, nbTxn, sbTxn, cur_cfg, next_cfg, need>>
    BY DEF ChassisInstall, dbVars, northdVars
<1>6. NumbersKnown'
    BY <1>0, <1>4, <1>5 DEF NumbersKnown, Bounded
<1>7. ContentsThere'
    BY <1>0, <1>1, <1>4, <1>5, SMT, SMTT(60) DEF Typed, ContentsThere
<1>8. SbTransaction'
    BY <1>0, <1>4, <1>5 DEF SbTransaction
<1>9. WaitersKnown'
  <2>. SUFFICES ASSUME NEW k \in Clients, client'[k].pc = "waiting"
                PROVE  /\ client'[k].next_cfg > 0
                       /\ \A h \in client'[k].watch : Waits(client[k].next_cfg, h)'
    BY DEF WaitersKnown
  <2>1. /\ client[k].pc = "waiting" /\ client'[k].next_cfg = client[k].next_cfg
        /\ client'[k].watch \subseteq client[k].watch
    BY <1>4, <1>5
  <2>. DEFINE n == client[k].next_cfg
  <2>2. n > 0 /\ n \in Cfgs /\ Bounded(n) /\ \A h \in client[k].watch : h \in Chassis /\ Waits(n, h)
    BY <1>0, <1>1, <2>1 DEF WaitersKnown, Typed, NumbersKnown
  <2>3. ASSUME NEW h \in client'[k].watch
        PROVE  Waits(n, h)'
    BY <1>0, <1>1, <1>4, <1>5, <2>1, <2>2, <2>3, SMT, SMTT(60) DEF Waits, Typed, Bounded, ContentsThere
  <2>. QED  BY <2>1, <2>2, <2>3
<1>10. WaitSbIsDone'
    BY <1>0, <1>4, <1>5 DEF WaitSbIsDone
<1>11. WaitHvIsDone'
    BY <1>0, <1>1, <1>4, <1>5, SMT, SMTT(60) DEF Typed, WaitHvIsDone, ContentsThere
<1>. QED  BY <1>2, <1>6, <1>7, <1>8, <1>9, <1>10, <1>11 DEF IInv

\* A chassis reports the number of what it has installed (store_nb_cfg).
LEMMA ChassisReportStep ==
    ASSUME IInv, NEW g \in Chassis, ChassisReport(g)
    PROVE  IInv'
<1>. USE BoundsAssumption DEF Cfgs, Absent
<1>0. /\ TypeOK /\ NumbersKnown /\ ContentsThere /\ SbTransaction
      /\ WaitersKnown /\ WaitSbIsDone /\ WaitHvIsDone
    BY DEF IInv
<1>1. Typed
    BY <1>0, TypesGive
<1>2. TypeOK'
  <2>1. chassis' \in Rows
    BY <1>0, <1>1 DEF TypeOK, Typed, Rows, ChassisReport
  <2>. QED  BY <1>0, <2>1 DEF TypeOK, ChassisReport, dbVars, northdVars
<1>3. Typed'
    BY <1>2, TypesGive, PTL
<1>4. /\ chassis'[g] = running[g].nb_cfg /\ \A h \in Chassis : h # g => chassis'[h] = chassis[h]
    BY <1>0 DEF TypeOK, Rows, ChassisReport
<1>5. UNCHANGED <<nb, sb, running, client, nbView, sbView, nbTxn, sbTxn, cur_cfg, next_cfg, need>>
    BY DEF ChassisReport, dbVars, northdVars
<1>6. NumbersKnown'
    BY <1>0, <1>4, <1>5 DEF NumbersKnown, Bounded
<1>7. ContentsThere'
    BY <1>0, <1>4, <1>5 DEF ContentsThere
<1>8. SbTransaction'
    BY <1>0, <1>4, <1>5 DEF SbTransaction
<1>9. WaitersKnown'
  <2>. SUFFICES ASSUME NEW k \in Clients, client'[k].pc = "waiting"
                PROVE  /\ client'[k].next_cfg > 0
                       /\ \A h \in client'[k].watch : Waits(client[k].next_cfg, h)'
    BY DEF WaitersKnown
  <2>1. /\ client[k].pc = "waiting" /\ client'[k].next_cfg = client[k].next_cfg
        /\ client'[k].watch \subseteq client[k].watch
    BY <1>4, <1>5
  <2>. DEFINE n == client[k].next_cfg
  <2>2. n > 0 /\ n \in Cfgs /\ Bounded(n) /\ \A h \in client[k].watch : h \in Chassis /\ Waits(n, h)
    BY <1>0, <1>1, <2>1 DEF WaitersKnown, Typed, NumbersKnown
  <2>3. ASSUME NEW h \in client'[k].watch
        PROVE  Waits(n, h)'
    BY <1>0, <1>1, <1>4, <1>5, <2>1, <2>2, <2>3, SMT, SMTT(60) DEF Waits, Typed, Bounded
  <2>. QED  BY <2>1, <2>2, <2>3
<1>10. WaitSbIsDone'
    BY <1>0, <1>4, <1>5 DEF WaitSbIsDone
<1>11. WaitHvIsDone'
    BY <1>0, <1>4, <1>5 DEF WaitHvIsDone
<1>. QED  BY <1>2, <1>6, <1>7, <1>8, <1>9, <1>10, <1>11 DEF IInv

\* A chassis that comes or goes is not waited for any more.
LEMMA ChassisChangeStep ==
    ASSUME IInv, NEW g \in Chassis, ChassisChange(g)
    PROVE  IInv'
<1>. USE BoundsAssumption DEF Cfgs, Absent
<1>0. /\ TypeOK /\ NumbersKnown /\ ContentsThere /\ SbTransaction
      /\ WaitersKnown /\ WaitSbIsDone /\ WaitHvIsDone
    BY DEF IInv
<1>1. Typed
    BY <1>0, TypesGive
<1>2. TypeOK'
  <2>1. chassis' \in Rows
    BY <1>0, <1>1, SMT, SMTT(60) DEF TypeOK, Typed, Rows, ChassisChange
  <2>2. running' \in [Chassis -> SbGlobal]
    BY <1>0, <1>1, SMT, SMTT(60) DEF TypeOK, Typed, SbGlobal, ChassisChange
  <2>3. client' \in [Clients -> Client]
    <3>1. ASSUME NEW k \in Clients
          PROVE  [client[k] EXCEPT !.watch = @ \ {g}] \in Client
      <4>1. client[k] \in Client
        BY <1>0 DEF TypeOK
      <4>. QED  BY <4>1 DEF Client
    <3>. QED  BY <3>1 DEF ChassisChange
  <2>4. faults' \in 0..MaxFaults
    BY <1>0, SMT, SMTT(60) DEF TypeOK, ChassisChange
  <2>. QED  BY <1>0, <2>1, <2>2, <2>3, <2>4 DEF TypeOK, ChassisChange, dbVars, northdVars
<1>3. Typed'
    BY <1>2, TypesGive, PTL
<1>4. /\ chassis'[g] \in {0, Absent} /\ \A h \in Chassis : h # g => chassis'[h] = chassis[h]
      /\ running'[g].content = 0 /\ running'[g].nb_cfg = 0 /\ \A h \in Chassis : h # g => running'[h] = running[h]
      /\ \A k \in Clients : client'[k].wait = client[k].wait /\ client'[k].next_cfg = client[k].next_cfg
      /\ \A k \in Clients : client'[k].pc = client[k].pc /\ client'[k].watch = client[k].watch \ {g}
  <2>1. /\ chassis \in Rows /\ running \in [Chassis -> SbGlobal] /\ client \in [Clients -> Client]
        /\ chassis' = [chassis EXCEPT ![g] = IF @ = Absent THEN 0 ELSE Absent]
        /\ running' = [running EXCEPT ![g] = [content |-> 0, nb_cfg |-> 0]]
        /\ client' = [k \in Clients |-> [client[k] EXCEPT !.watch = @ \ {g}]]
    BY <1>0 DEF TypeOK, ChassisChange
  <2>2. chassis'[g] \in {0, Absent} /\ \A h \in Chassis : h # g => chassis'[h] = chassis[h]
    BY <2>1 DEF Rows
  <2>3. /\ running'[g].content = 0 /\ running'[g].nb_cfg = 0
        /\ \A h \in Chassis : h # g => running'[h] = running[h]
    BY <2>1
  <2>4. ASSUME NEW k \in Clients
        PROVE  /\ client'[k].wait = client[k].wait /\ client'[k].next_cfg = client[k].next_cfg
               /\ client'[k].pc = client[k].pc /\ client'[k].watch = client[k].watch \ {g}
    <3>1. client[k] \in Client /\ client'[k] = [client[k] EXCEPT !.watch = @ \ {g}]
      BY <2>1
    <3>. QED  BY <3>1 DEF Client
  <2>. QED  BY <2>2, <2>3, <2>4
<1>5. UNCHANGED <<nb, sb, nbView, sbView, nbTxn, sbTxn, cur_cfg, next_cfg, need>>
    BY DEF ChassisChange, dbVars, northdVars
<1>6. NumbersKnown'
    BY <1>0, <1>1, <1>4, <1>5, SMT, SMTT(60) DEF Typed, NumbersKnown, Bounded
<1>7. ContentsThere'
    BY <1>0, <1>1, <1>4, <1>5, SMT, SMTT(60) DEF Typed, ContentsThere, NumbersKnown, Bounded
<1>8. SbTransaction'
    BY <1>0, <1>4, <1>5 DEF SbTransaction
<1>9. WaitersKnown'
  <2>. SUFFICES ASSUME NEW k \in Clients, client'[k].pc = "waiting"
                PROVE  /\ client'[k].next_cfg > 0
                       /\ \A h \in client'[k].watch : Waits(client[k].next_cfg, h)'
    BY DEF WaitersKnown
  <2>1. /\ client[k].pc = "waiting" /\ client'[k].next_cfg = client[k].next_cfg
        /\ client'[k].watch \subseteq client[k].watch
    BY <1>4
  <2>. DEFINE n == client[k].next_cfg
  <2>2. n > 0 /\ n \in Cfgs /\ Bounded(n) /\ \A h \in client[k].watch : h \in Chassis /\ Waits(n, h)
    BY <1>0, <1>1, <2>1 DEF WaitersKnown, Typed, NumbersKnown
  <2>3. ASSUME NEW h \in client'[k].watch
        PROVE  Waits(n, h)'
    <3>1. h \in client[k].watch /\ h # g
      BY <1>4, <2>3
    <3>2. chassis'[h] = chassis[h] /\ running'[h] = running[h]
      BY <1>4, <2>2, <3>1
    <3>. QED  BY <1>5, <2>1, <2>2, <3>1, <3>2 DEF Waits
  <2>. QED  BY <2>1, <2>2, <2>3
<1>10. WaitSbIsDone'
    BY <1>0, <1>4, <1>5 DEF WaitSbIsDone
<1>11. WaitHvIsDone'
    BY <1>0, <1>1, <1>4, <1>5, SMT, SMTT(60) DEF Typed, WaitHvIsDone
<1>. QED  BY <1>2, <1>6, <1>7, <1>8, <1>9, <1>10, <1>11 DEF IInv

-----------------------------------------------------------------------------
(* The invariant and what follows from it *)

\* The invariant holds of databases and an ovn-northd that have just been started.
LEMMA InitHolds == Init => IInv
<1>. SUFFICES ASSUME Init PROVE IInv
  OBVIOUS
<1>. USE BoundsAssumption DEF Cfgs, Absent
<1>0. 0 \in Cfgs /\ chassis \in Rows
  BY SMT, SMTT(60) DEF Init, Rows
<1>1. TypeOK
  <2>1. nb \in NbGlobal /\ nbView \in NbGlobal /\ sb \in SbGlobal
    BY <1>0 DEF Init, NbGlobal, SbGlobal
  <2>2. sbView \in [content : Cfgs, nb_cfg : Cfgs, chassis : Rows]
    BY <1>0 DEF Init, View
  <2>3. running \in [Chassis -> SbGlobal] /\ client \in [Clients -> Client]
    BY <1>0 DEF Init, SbGlobal, Client, NoClient
  <2>4. need \in [Cfgs -> Cfgs] /\ faults \in 0..MaxFaults
    BY <1>0, SMT, SMTT(60) DEF Init
  <2>5. dirty \in BOOLEAN /\ force \in BOOLEAN
    BY DEF Init
  <2>. QED  BY <1>0, <2>1, <2>2, <2>3, <2>4, <2>5 DEF Init, TypeOK
<1>2. NumbersKnown
  BY <1>0, SMT, SMTT(60) DEF Init, NumbersKnown, Bounded, NoClient, View, Rows
<1>3. ContentsThere /\ SbTransaction
  BY <1>0, SMT, SMTT(60) DEF Init, ContentsThere, SbTransaction, View
<1>4. WaitersKnown /\ WaitSbIsDone /\ WaitHvIsDone
  BY DEF Init, WaitersKnown, WaitSbIsDone, WaitHvIsDone, NoClient
<1>. QED  BY <1>1, <1>2, <1>3, <1>4 DEF IInv

\* Every step keeps the invariant.
LEMMA NextHolds == IInv /\ [Next]_vars => IInv'
<1>. SUFFICES ASSUME IInv, [Next]_vars PROVE IInv'
  OBVIOUS
<1>1. CASE \E c \in Clients : Return(c) \/ TimeoutExpired(c)
  BY <1>1, ReturnStep, TimeoutExpiredStep
<1>2. CASE \E c \in Clients, wait \in {"sb", "hv"}, changes \in 0..1 : Execute(c, wait, changes)
  BY <1>2, ExecuteStep
<1>3. CASE \E h \in Chassis : ChassisInstall(h) \/ ChassisReport(h) \/ ChassisChange(h)
  BY <1>3, ChassisInstallStep, ChassisReportStep, ChassisChangeStep
<1>4. CASE ExecuteNoWait \/ DeliverNb \/ DeliverSb \/ Iterate \/ IterateIdle
  BY <1>4, ExecuteNoWaitStep, DeliverNbStep, DeliverSbStep, IterateStep, IterateIdleStep
<1>5. CASE NbApply \/ SbApply \/ Restart
  BY <1>5, NbApplyStep, SbApplyStep, RestartStep
<1>6. CASE \E ok \in BOOLEAN : NbCommitted(ok) \/ SbCommitted(ok)
  BY <1>6, NbCommittedStep, SbCommittedStep
<1>7. CASE UNCHANGED vars
  <2>1. TypeOK'
    BY <1>7 DEF vars, dbVars, northdVars, IInv, TypeOK
  <2>2. NumbersKnown'
    BY <1>7 DEF vars, dbVars, northdVars, IInv, NumbersKnown, Bounded
  <2>3. ContentsThere' /\ SbTransaction'
    BY <1>7 DEF vars, dbVars, northdVars, IInv, ContentsThere, SbTransaction
  <2>4. WaitersKnown'
    BY <1>7 DEF vars, dbVars, northdVars, IInv, WaitersKnown, Waits
  <2>5. WaitSbIsDone' /\ WaitHvIsDone'
    BY <1>7 DEF vars, dbVars, northdVars, IInv, WaitSbIsDone, WaitHvIsDone
  <2>. QED  BY <2>1, <2>2, <2>3, <2>4, <2>5 DEF IInv
<1>. QED  BY <1>1, <1>2, <1>3, <1>4, <1>5, <1>6, <1>7 DEF Next

\* The invariant always holds.
LEMMA Invariance == Spec => []IInv
BY InitHolds, NextHolds, PTL DEF Spec

\* SB_Global.nb_cfg is never ahead of the southbound contents, whatever commits of
\* ovn-northd fail, are answered late or not at all, and however often it restarts.
THEOREM NumberNeverAhead == Spec => []NumberNotAhead
<1>1. IInv => NumberNotAhead
  BY DEF IInv, ContentsThere, NumberNotAhead
<1>. QED  BY <1>1, Invariance, PTL

\* "ovn-nbctl --wait" returns only when the southbound database has the change.
THEOREM WaitSbCorrect == Spec => []WaitSbIsDone
<1>1. IInv => WaitSbIsDone
  BY DEF IInv
<1>. QED  BY <1>1, Invariance, PTL

\* "ovn-nbctl --wait=hv" returns only when every chassis that has been registered since
\* the change has installed it, for any set of chassis that come and go.
THEOREM WaitHvCorrect == Spec => []WaitHvIsDone
<1>1. IInv => WaitHvIsDone
  BY DEF IInv
<1>. QED  BY <1>1, Invariance, PTL

\* Every variable keeps its type, hv_cfg and the other numbers among them.
THEOREM BarrierTypes == Spec => []TypeOK
<1>1. IInv => TypeOK
  BY DEF IInv
<1>. QED  BY <1>1, Invariance, PTL

=============================================================================
