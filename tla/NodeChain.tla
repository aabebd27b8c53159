----------------------------- MODULE NodeChain ------------------------------
(***************************************************************************)
(* The chain of the node the tools talk to (external), for one             *)
(* transaction: a best chain that may be reorganised and a finalized       *)
(* prefix of it that only grows.  A block hash commits to the block and    *)
(* all its ancestors, so a hash is modelled by the chain up to its block.  *)
(***************************************************************************)
EXTENDS Naturals, SequencesExt

CONSTANTS
    Forks,          \* what tells blocks of the same parent apart
    MaxHeight       \* bound: the height of a chain

ASSUME ChainAssumption == MaxHeight \in Nat

VARIABLES
    best,           \* the best chain above the genesis block
    final           \* its finalized prefix

chainVars == <<best, final>>

Header == [fork : Forks, tx : BOOLEAN]

\* The ledger takes the transaction at most once: its nullifier is then spent.
Chains ==
    {c \in SeqOf(Header, MaxHeight) :
        \A i, j \in DOMAIN c : c[i].tx /\ c[j].tx => i = j}

BlockHashes == Chains \ {<<>>}

IsOn(hash, chain)  == IsPrefix(hash, chain)
HoldsTx(chain)     == \E i \in DOMAIN chain : chain[i].tx
BlockHoldsTx(hash) == hash[Len(hash)].tx

\* The block of a chain that holds the transaction.
InclusionBlock(chain) ==
    SubSeq(chain, 1, CHOOSE i \in DOMAIN chain : chain[i].tx)

\* A longer chain that keeps what is final becomes the best one: the next block,
\* or another fork.
Import(chain) ==
    /\ Len(chain) > Len(best)
    /\ IsOn(final, chain)
    /\ best' = chain
    /\ UNCHANGED final

Finalize(height) ==
    /\ height \in (Len(final) + 1)..Len(best)
    /\ final' = SubSeq(best, 1, height)
    /\ UNCHANGED best

=============================================================================
