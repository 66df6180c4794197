----------------------------- MODULE NodeChain -----------------------------
(***************************************************************************)
(* The archive node as src/swaparch/rpc sees it: at every moment it serves *)
(* one canonical chain, and a reorganisation replaces every block from     *)
(* some height on.  A block is a pair (height, fork); the fork label       *)
(* stands for the 32-byte block hash at that height, so that two blocks of *)
(* one height are the same block exactly when their labels are equal.      *)
(*                                                                         *)
(* The node is outside the repository: this module says only what the      *)
(* client's code can observe of it.                                        *)
(***************************************************************************)
EXTENDS Naturals

CONSTANTS Heights,    \* block numbers the client may name
          Forks,      \* labels of the branches the chain can ever take
          Genesis,    \* the branch the node starts on
          Absent        \* absent: no cached value, no pinned block

ASSUME NodeChainAssumption ==
    /\ Heights \subseteq Nat
    /\ \A a, b \in Heights : a .. b \subseteq Heights
    /\ Genesis \in Forks
    /\ Absent \notin Forks

VARIABLES canon,      \* canon[n]: the fork whose block n is canonical now
          abandoned   \* abandoned[n]: forks whose block n was once canonical

chainVars == <<canon, abandoned>>

ChainTypeOK ==
    /\ canon \in [Heights -> Forks]
    /\ abandoned \in [Heights -> SUBSET Forks]

ChainInit ==
    /\ canon = [n \in Heights |-> Genesis]
    /\ abandoned = [n \in Heights |-> {}]

\* Block hashes some node has served for height n.
Seen(n) == abandoned[n] \cup {canon[n]}

\* From height d on, the chain moves to a branch f nobody has seen before: an
\* abandoned branch does not become canonical again.
Reorg(d, f) ==
    /\ \A n \in Heights : f \notin Seen(n)
    /\ canon' = [n \in Heights |-> IF n >= d THEN f ELSE canon[n]]
    /\ abandoned' = [n \in Heights |->
                        IF n >= d THEN abandoned[n] \cup {canon[n]}
                                  ELSE abandoned[n]]

\* What is canonical is not abandoned: true of ChainInit, kept by Reorg.
CanonIsLive == \A n \in Heights : canon[n] \notin abandoned[n]
=============================================================================
