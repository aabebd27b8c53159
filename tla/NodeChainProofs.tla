--------------------------- MODULE NodeChainProofs ----------------------------
(***************************************************************************)
(* Facts about chains: what lies on one, where the transaction is in it,   *)
(* and what is final stays so.                                             *)
(***************************************************************************)
EXTENDS NodeChain, SequenceTheorems, TLAPS

\* A chain is a sequence of headers of some height.
LEMMA ChainType ==
    ASSUME NEW c \in Chains
    PROVE  /\ c \in Seq(Header) /\ Len(c) \in Nat
           /\ Len(c) <= MaxHeight
           /\ DOMAIN c = 1..Len(c)
           /\ \A i \in 1..Len(c) : c[i] \in Header
<1>1. PICK m \in 0..MaxHeight : c \in [1..m -> Header]
  BY DEF Chains, SeqOf
<1>2. m \in Nat
  BY <1>1, ChainAssumption, SMT
<1>3. c \in Seq(Header) /\ Len(c) = m
  BY <1>1, <1>2, SeqDef, LenProperties
<1>. QED  BY <1>1, <1>2, <1>3, ChainAssumption, SMT

\* What a chain holds up to a height is a chain on it.
LEMMA Cut ==
    ASSUME NEW c \in Chains, NEW n \in Nat, n <= Len(c)
    PROVE  LET h == SubSeq(c, 1, n) IN
           /\ h \in Chains /\ Len(h) = n
           /\ \A i \in 1..n : h[i] = c[i]
<1>. DEFINE h == SubSeq(c, 1, n)
<1>1. c \in Seq(Header) /\ Len(c) \in Nat /\ Len(c) <= MaxHeight /\ DOMAIN c = 1..Len(c)
  BY ChainType
<1>2. h \in Seq(Header) /\ Len(h) = n /\ \A i \in 1..n : h[i] = c[i]
  BY <1>1, SubSeqProperties, SMT
<1>3. h \in [1..n -> Header] /\ DOMAIN h = 1..n
  BY <1>2, LenProperties
<1>4. n \in 0..MaxHeight
  BY <1>1, ChainAssumption, SMT
<1>5. \A i, j \in DOMAIN h : h[i].tx /\ h[j].tx => i = j
  <2>1. \A i \in 1..n : i \in DOMAIN c
    BY <1>1, SMT
  <2>2. \A i, j \in DOMAIN c : c[i].tx /\ c[j].tx => i = j
    BY DEF Chains
  <2>. QED  BY <1>2, <1>3, <2>1, <2>2
<1>. QED  BY <1>2, <1>3, <1>4, <1>5 DEF Chains, SeqOf

\* A block is on a chain that agrees with it up to its height.
LEMMA OnChain ==
    ASSUME NEW h \in Chains, NEW c \in Chains
    PROVE  /\ IsOn(h, c) <=> Len(h) <= Len(c) /\ \A i \in 1..Len(h) : h[i] = c[i]
           /\ IsOn(h, c) => h = SubSeq(c, 1, Len(h))
<1>1. /\ h \in Seq(Header) /\ Len(h) \in Nat
      /\ c \in Seq(Header) /\ Len(c) \in Nat
  BY ChainType
<1>2. SubSeq(h, 1, Len(h)) = h
  BY <1>1, SubSeqFull
<1>3. IsOn(h, c) <=> Len(h) <= Len(c) /\ h = SubSeq(c, 1, Len(h))
  BY <1>2 DEF IsOn, IsPrefix
<1>4. ASSUME Len(h) <= Len(c), \A i \in 1..Len(h) : h[i] = c[i]
      PROVE  h = SubSeq(c, 1, Len(h))
  <2>. DEFINE g == SubSeq(c, 1, Len(h))
  <2>1. g \in Chains /\ Len(g) = Len(h) /\ \A i \in 1..Len(h) : g[i] = c[i]
    BY <1>1, <1>4, Cut
  <2>2. g \in Seq(Header)
    BY <2>1, ChainType
  <2>3. \A i \in 1..Len(h) : h[i] = g[i]
    BY <1>4, <2>1
  <2>. HIDE DEF g
  <2>4. h = g
    BY <1>1, <2>1, <2>2, <2>3, SeqEqual
  <2>. QED  BY <2>4 DEF g
<1>5. ASSUME Len(h) <= Len(c), h = SubSeq(c, 1, Len(h))
      PROVE  \A i \in 1..Len(h) : h[i] = c[i]
  <2>1. \A i \in 1..Len(h) : SubSeq(c, 1, Len(h))[i] = c[i]
    BY <1>1, <1>5, Cut
  <2>. QED  BY <1>5, <2>1
<1>. QED  BY <1>3, <1>4, <1>5

\* What is on a chain is on every chain that goes on from it.
LEMMA OnTransitive ==
    ASSUME NEW a \in Chains, NEW b \in Chains, NEW c \in Chains, IsOn(a, b), IsOn(b, c)
    PROVE  IsOn(a, c)
<1>1. Len(a) \in Nat /\ Len(b) \in Nat /\ Len(c) \in Nat
  BY ChainType
<1>2. /\ Len(a) <= Len(b) /\ \A i \in 1..Len(a) : a[i] = b[i]
      /\ Len(b) <= Len(c) /\ \A i \in 1..Len(b) : b[i] = c[i]
  BY OnChain
<1>3. Len(a) <= Len(c) /\ \A i \in 1..Len(a) : i \in 1..Len(b)
  BY <1>1, <1>2, SMT
<1>. QED  BY <1>2, <1>3, OnChain

\* Of two blocks on one chain the lower is on the chain of the higher.
LEMMA OnSameChain ==
    ASSUME NEW a \in Chains, NEW b \in Chains, NEW c \in Chains,
           IsOn(a, c), IsOn(b, c), Len(a) <= Len(b)
    PROVE  IsOn(a, b)
<1>1. Len(a) \in Nat /\ Len(b) \in Nat
  BY ChainType
<1>2. /\ \A i \in 1..Len(a) : a[i] = c[i]
      /\ \A i \in 1..Len(b) : b[i] = c[i]
  BY OnChain
<1>3. \A i \in 1..Len(a) : i \in 1..Len(b)
  BY <1>1, SMT
<1>. QED  BY <1>2, <1>3, OnChain

LEMMA CutIsOn ==
    ASSUME NEW c \in Chains, NEW n \in Nat, n <= Len(c)
    PROVE  IsOn(SubSeq(c, 1, n), c)
<1>. DEFINE h == SubSeq(c, 1, n)
<1>1. h \in Chains /\ Len(h) = n /\ \A i \in 1..n : h[i] = c[i]
  BY Cut
<1>. HIDE DEF h
<1>2. IsOn(h, c)
  BY <1>1, OnChain
<1>. QED  BY <1>2 DEF h

LEMMA OnItself == \A c \in Chains : IsOn(c, c)
<1>. SUFFICES ASSUME NEW c \in Chains
              PROVE  IsOn(c, c)
  OBVIOUS
<1>1. Len(c) \in Nat /\ Len(c) <= Len(c)
  BY ChainType, SMT
<1>. QED  BY <1>1, OnChain

\* The block that holds the transaction of a chain is on the chain, and on
\* every part of it that reaches as far as some transaction.
LEMMA InclusionBlockHolds ==
    ASSUME NEW c \in Chains, HoldsTx(c)
    PROVE  /\ InclusionBlock(c) \in BlockHashes
           /\ IsOn(InclusionBlock(c), c)
           /\ BlockHoldsTx(InclusionBlock(c))
           /\ \A d \in Chains : IsOn(d, c) /\ HoldsTx(d) => IsOn(InclusionBlock(c), d)
<1>. DEFINE k == CHOOSE i \in DOMAIN c : c[i].tx
            h == SubSeq(c, 1, k)
<1>1. DOMAIN c = 1..Len(c) /\ Len(c) \in Nat
  BY ChainType
<1>2. k \in DOMAIN c /\ c[k].tx
  BY DEF HoldsTx
<1>. HIDE DEF k
<1>3. k \in Nat /\ k <= Len(c) /\ k \in 1..k /\ k # 0
  BY <1>1, <1>2, SMT
<1>4. h \in Chains /\ Len(h) = k /\ \A i \in 1..k : h[i] = c[i]
  BY <1>3, Cut
<1>5. IsOn(h, c)
  BY <1>3, CutIsOn
<1>6. InclusionBlock(c) = h
  BY DEF InclusionBlock, k
<1>. HIDE DEF h
<1>7. h # <<>>
  BY <1>3, <1>4, SMT
<1>8. h[Len(h)].tx
  BY <1>2, <1>3, <1>4
<1>9. ASSUME NEW d \in Chains, IsOn(d, c), HoldsTx(d)
      PROVE  IsOn(h, d)
  <2>1. Len(d) <= Len(c) /\ \A i \in 1..Len(d) : d[i] = c[i]
    BY <1>9, OnChain
  <2>2. DOMAIN d = 1..Len(d) /\ Len(d) \in Nat
    BY ChainType
  <2>3. PICK j \in DOMAIN d : d[j].tx
    BY <1>9 DEF HoldsTx
  <2>4. j \in 1..Len(d) /\ j \in DOMAIN c /\ c[j].tx
    BY <1>1, <2>1, <2>2, <2>3, SMT
  <2>5. j = k
    BY <1>2, <2>4 DEF Chains
  <2>6. Len(h) <= Len(d)
    BY <1>4, <2>2, <2>4, <2>5, SMT
  <2>. QED  BY <1>4, <1>5, <1>9, <2>6, OnSameChain
<1>. QED  BY <1>4, <1>5, <1>6, <1>7, <1>8, <1>9 DEF BlockHashes, BlockHoldsTx

-----------------------------------------------------------------------------
(* Steps of the chain *)

ChainOK == best \in Chains /\ final \in Chains /\ IsOn(final, best)

\* A reorganisation keeps what is final.
LEMMA ImportKeepsChain ==
    ASSUME ChainOK, NEW c \in Chains, Import(c)
    PROVE  ChainOK' /\ final' = final /\ best' = c
BY DEF ChainOK, Import

\* Finality grows along the best chain.
LEMMA FinalizeKeepsChain ==
    ASSUME ChainOK, NEW n \in 1..MaxHeight, Finalize(n)
    PROVE  /\ ChainOK' /\ best' = best
           /\ final' = SubSeq(best, 1, n) /\ Len(final') = n
           /\ IsOn(final, final') /\ Len(final) <= Len(final')
<1>1. n \in (Len(final) + 1)..Len(best) /\ final' = SubSeq(best, 1, n) /\ best' = best
  BY DEF Finalize
<1>2. Len(final) \in Nat /\ Len(best) \in Nat /\ best \in Chains /\ final \in Chains
  BY ChainType DEF ChainOK
<1>3. n \in Nat /\ n <= Len(best) /\ Len(final) <= n
  BY <1>1, <1>2, SMT
<1>4. final' \in Chains /\ Len(final') = n /\ IsOn(final', best)
  BY <1>1, <1>2, <1>3, Cut, CutIsOn
<1>5. IsOn(final, final')
  BY <1>2, <1>3, <1>4, OnSameChain DEF ChainOK
<1>. QED  BY <1>1, <1>2, <1>3, <1>4, <1>5 DEF ChainOK

\* What was final stays final.
LEMMA FinalStays ==
    ASSUME NEW h \in Chains, ChainOK, NEW n \in 1..MaxHeight, Finalize(n), IsOn(h, final)
    PROVE  IsOn(h, final')
<1>1. final \in Chains /\ final' \in Chains /\ IsOn(final, final')
  BY FinalizeKeepsChain DEF ChainOK
<1>. QED  BY <1>1, OnTransitive

\* A final block is on the best chain.
LEMMA FinalIsBest ==
    ASSUME NEW h \in Chains, ChainOK, IsOn(h, final)
    PROVE  IsOn(h, best)
BY OnTransitive DEF ChainOK

=============================================================================
