------------------------ MODULE CfgBarrierInvariant -------------------------
(***************************************************************************)
(* The inductive invariant of CfgBarrier.                                  *)
(***************************************************************************)
EXTENDS CfgBarrier

-----------------------------------------------------------------------------
(* The inductive invariant *)

Bounded(n) == n <= nb.nb_cfg

\* No number is ahead of nb_cfg, a later number stands for later contents, and 0 for
\* none.
NumbersKnown ==
    /\ need[0] = 0
    /\ Bounded(nb.sb_cfg) /\ Bounded(nb.hv_cfg) /\ Bounded(sb.nb_cfg)
    /\ Bounded(nbView.nb_cfg) /\ Bounded(nbView.sb_cfg) /\ Bounded(sbView.nb_cfg)
    /\ Bounded(cur_cfg) /\ Bounded(next_cfg)
    /\ \A h \in Chassis : Bounded(chassis[h]) /\ Bounded(running[h].nb_cfg) /\ Bounded(sbView.chassis[h])
    /\ \A w \in nbTxn : Bounded(w.sb_cfg) /\ Bounded(w.hv_cfg)
    /\ \A w \in sbTxn : Bounded(w.nb_cfg)
    /\ \A c \in Clients : Bounded(client[c].next_cfg)
    /\ \A m, n \in Cfgs : m <= n /\ n <= nb.nb_cfg => need[m] <= need[n]

\* The contents that a number stands for are where the number is.
ContentsThere ==
    /\ need[nb.nb_cfg] <= nb.content /\ need[nbView.nb_cfg] <= nbView.content
    /\ nbView.content <= nb.content /\ sb.content <= nbView.content
    /\ need[sb.nb_cfg] <= sb.content /\ need[cur_cfg] <= sb.content
    /\ need[nb.sb_cfg] <= sb.content /\ need[nbView.sb_cfg] <= sb.content
    /\ \A w \in nbTxn : need[w.sb_cfg] <= sb.content
    /\ \A h \in Chassis :
        /\ running[h].content <= sb.content
        /\ need[running[h].nb_cfg] <= running[h].content
        /\ chassis[h] # Absent => need[chassis[h]] <= running[h].content

\* The southbound transaction, and the copy of the database it was made from.
SbTransaction ==
    /\ (\A w \in sbTxn : ~ w.applied) => sbView.content = sb.content /\ sbView.nb_cfg = sb.nb_cfg
    /\ \A w \in sbTxn :
        /\ w.nb_cfg = next_cfg /\ need[w.nb_cfg] <= w.content
        /\ sb.content <= w.content /\ w.content <= nbView.content
        /\ w.applied => sb.content = w.content

\* What ovn-northd knows of a chassis h when a client waits for the number n: a number
\* that covers n is true of h; and as long as h is missing in the copy, the copy is
\* older than n, and n has not been reported as sb_cfg.
Waits(n, h) ==
    /\ chassis[h] # Absent
    /\ sbView.chassis[h] >= n => need[n] <= running[h].content
    /\ sbView.chassis[h] = Absent =>
        /\ sbView.nb_cfg < n /\ cur_cfg < n /\ nb.sb_cfg < n /\ nbView.sb_cfg < n
        /\ \A w \in nbTxn : w.sb_cfg < n
    /\ nb.sb_cfg >= n /\ nb.hv_cfg >= n => need[n] <= running[h].content
    /\ \A w \in nbTxn : w.sb_cfg >= n /\ w.hv_cfg >= n => need[n] <= running[h].content

WaitersKnown ==
    \A c \in Clients : client[c].pc = "waiting" =>
        client[c].next_cfg > 0 /\ \A h \in client[c].watch : Waits(client[c].next_cfg, h)

IInv ==
    /\ TypeOK /\ NumbersKnown /\ ContentsThere /\ SbTransaction /\ WaitersKnown
    /\ WaitSbIsDone /\ WaitHvIsDone

-----------------------------------------------------------------------------
(* What the types give, one field at a time *)

Typed ==
    /\ nb.content \in Cfgs /\ nb.nb_cfg \in Cfgs /\ nb.sb_cfg \in Cfgs /\ nb.hv_cfg \in Cfgs
    /\ sb.content \in Cfgs /\ sb.nb_cfg \in Cfgs
    /\ nbView.content \in Cfgs /\ nbView.nb_cfg \in Cfgs /\ nbView.sb_cfg \in Cfgs
    /\ sbView.content \in Cfgs /\ sbView.nb_cfg \in Cfgs
    /\ cur_cfg \in Cfgs /\ next_cfg \in Cfgs
    /\ \A h \in Chassis : /\ chassis[h] \in Cfgs \cup {Absent} /\ sbView.chassis[h] \in Cfgs \cup {Absent}
                          /\ running[h].content \in Cfgs /\ running[h].nb_cfg \in Cfgs
    /\ \A c \in Clients : client[c].next_cfg \in Cfgs /\ client[c].watch \subseteq Chassis
    /\ \A w \in nbTxn : w.sb_cfg \in Cfgs /\ w.hv_cfg \in Cfgs
    /\ \A w \in sbTxn : w.content \in Cfgs /\ w.nb_cfg \in Cfgs
    /\ (\A v, w \in sbTxn : v = w) /\ (\A v, w \in nbTxn : v = w)
    /\ \A n \in Cfgs : need[n] \in Cfgs

=============================================================================
