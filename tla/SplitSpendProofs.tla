-------------------------- MODULE SplitSpendProofs --------------------------
(***************************************************************************)
(* Proofs about SplitSpend for every value of its constants.               *)
(***************************************************************************)
EXTENDS SplitSpend, TLAPS

-----------------------------------------------------------------------------
(* Hashes, circuits and handoffs have their types. *)

\* The hash operators land in the sets named after them.
LEMMA HashTypes ==
    ASSUME NEW sk \in Keys, NEW coin \in Coins, NEW r \in Blindings
    PROVE  /\ PublicKey(sk) \in PublicKeys
           /\ Nullifier(coin, sk) \in Nullifiers
           /\ SkCommitment(sk, r) \in SkCommitments
           /\ \A o \in PublicKeys \cup Addresses : Commitment(coin, o) \in Commitments
           /\ \A pk \in PublicKeys : BindingTag(coin, pk) \in Tags
  BY DEF PublicKeys, Nullifiers, SkCommitments, Commitments, Tags

\* A proof made from witnesses of the right type is one of the circuit's proofs.
LEMMA ProofTypes ==
    ASSUME NEW sk \in Keys, NEW coin \in Coins, NEW r \in Blindings,
           NEW pk \in PublicKeys, NEW n \in Nullifiers \cup {Garbled}
    PROVE  /\ Proof("wallet_attest", WalletAttest(sk, r)) \in Attestations
           /\ Proof("sk_prove", SkProve(sk, pk, r, coin)) \in Derivations
           /\ Proof("spend_split", SpendSplit(coin, pk, n)) \in SpendProofs
  BY DEF Attestations, Derivations, SpendProofs

\* What client_prepare_with_blinding returns is a handoff.
LEMMA PrepareHandoffType ==
    ASSUME NEW sk \in Keys, NEW coin \in Coins, NEW i \in Index,
           NEW a \in Addresses \cup {NoContract}, NEW r \in Blindings
    PROVE  PrepareHandoff(sk, coin, i, a, r) \in ClientHandoff
  <1>1. /\ BindingTag(coin, PublicKey(sk)) \in Tags
        /\ SplitNullifier(coin, sk) \in Nullifiers
        /\ PublicKey(sk) \in PublicKeys
        /\ WalletAttest(sk, r).commitment_sk \in SkCommitments
    BY HashTypes DEF SplitNullifier, WalletAttest, AttestationTranscript
  <1>2. Commitment(coin, IF a = NoContract THEN PublicKey(sk) ELSE a) \in Commitments
    BY HashTypes
  <1> QED
    BY <1>1, <1>2 DEF PrepareHandoff, ClientHandoff, NonProofs

\* Damaged or missing bytes are not a hash.
LEMMA Junk ==
    /\ Garbled # Blank
    /\ \A c, pk : BindingTag(c, pk) \notin {Garbled, InvalidFr}
    /\ \A c, sk : Nullifier(c, sk) # Garbled
    /\ \A c, o : Commitment(c, o) \notin {Garbled, Blank}
    /\ \A x : Proof("sk_prove", x) \notin NonProofs
    /\ \A x : Proof("wallet_attest", x) \notin NonProofs
  <1>1. Garbled # Blank
    BY DEF Garbled, Blank
  <1>2. ASSUME NEW c, NEW o PROVE /\ BindingTag(c, o) \notin {Garbled, InvalidFr}
                                  /\ Nullifier(c, o) # Garbled
                                  /\ Commitment(c, o) \notin {Garbled, Blank}
    <2>1. /\ BindingTag(c, o).hash = "tag"
          /\ Nullifier(c, o).hash = "nullifier"
          /\ Commitment(c, o).hash = "commitment"
      BY DEF BindingTag, Nullifier, Commitment
    <2>2. /\ Garbled.hash = "garbled" /\ InvalidFr.hash = "not an Fr"
          /\ Blank.hash = "blank leaf"
      BY DEF Garbled, InvalidFr, Blank
    <2> QED BY <2>1, <2>2
  <1>3. ASSUME NEW x PROVE /\ Proof("sk_prove", x) \notin NonProofs
                           /\ Proof("wallet_attest", x) \notin NonProofs
    <2>1. /\ Proof("sk_prove", x).circuit = "sk_prove"
          /\ Proof("wallet_attest", x).circuit = "wallet_attest"
      BY DEF Proof
    <2>2. NoProof.circuit = "none" /\ BadHex.circuit = "bad hex"
          /\ EmptyProof.circuit = "empty"
      BY DEF NoProof, BadHex, EmptyProof
    <2> QED BY <2>1, <2>2 DEF NonProofs
  <1> QED
    BY <1>1, <1>2, <1>3

\* A handoff with one field altered is still a handoff.
LEMMA AlteredHandoffType ==
    ASSUME wire \subseteq ClientHandoff, NEW h \in wire, NEW g \in AlteredHandoffs(h)
    PROVE  g \in ClientHandoff
  BY DEF AlteredHandoffs, ClientHandoff, NonProofs

\* Likewise a bundle.
LEMMA AlteredBundleType ==
    ASSUME bundles \subseteq SplitBundle, NEW b \in bundles, NEW a \in AlteredBundles(b)
    PROVE  a \in SplitBundle
  BY DEF AlteredBundles, SplitBundle

-----------------------------------------------------------------------------
(* Type correctness *)

\* One step of any process keeps TypeOK.
LEMMA TypeStep == TypeOK /\ [Next]_vars => TypeOK'
  <1> SUFFICES ASSUME TypeOK, [Next]_vars PROVE TypeOK'
    OBVIOUS
  <1> USE DEF TypeOK, walletVars, ledgerVars
  <1>1. ASSUME NEW w \in Wallets, NEW r \in Blindings, RegisterWallet(w, r)
        PROVE  TypeOK'
    <2>1. /\ WalletAttest(w, r).pk \in PublicKeys
          /\ WalletAttest(w, r).commitment_sk \in SkCommitments
          /\ Proof("wallet_attest", WalletAttest(w, r)) \in Attestations
      BY DEF WalletAttest, AttestationTranscript, PublicKeys, SkCommitments, Attestations, Keys
    <2>2. attestation' \in [Wallets -> WalletAttestation \cup {NotRegistered}]
      BY <1>1, <2>1 DEF RegisterWallet, WalletAttestation
    <2> QED BY <1>1, <2>2 DEF RegisterWallet
  <1>2. ASSUME NEW w \in Wallets, NEW c \in Coins, NEW i \in Index,
               NEW a \in Addresses \cup {NoContract}, ClientPrepare(w, c, i, a)
        PROVE  TypeOK'
    <2>1. PICK r \in Blindings : session' = [session EXCEPT ![w] = PrepareHandoff(w, c, i, a, r)]
      BY <1>2 DEF ClientPrepare
    <2>2. PrepareHandoff(w, c, i, a, r) \in ClientHandoff
      BY PrepareHandoffType DEF Keys
    <2> QED BY <1>2, <2>1, <2>2 DEF ClientPrepare
  <1>3. ASSUME NEW w \in Wallets, NEW v \in Wallets, NEW c \in Coins, NEW i \in Index,
               NEW a \in Addresses \cup {NoContract},
               ClientPrepareWithAttestation(w, v, c, i, a)
        PROVE  TypeOK'
    <2>1. attestation[v] \in WalletAttestation
      BY <1>3 DEF ClientPrepareWithAttestation
    <2>2. PrepareHandoff(w, c, i, a, attestation[v].blinding) \in ClientHandoff
      BY <2>1, PrepareHandoffType DEF Keys, WalletAttestation
    <2> DEFINE h == PrepareHandoff(w, c, i, a, attestation[v].blinding)
               g == [h EXCEPT !.attested_commitment_sk = attestation[v].commitment_sk,
                              !.attestation_proof = attestation[v].attestation_proof]
    <2> HIDE DEF h
    <2>3. g \in ClientHandoff
      BY <2>1, <2>2 DEF ClientHandoff, WalletAttestation, h
    <2>4. session' = [session EXCEPT ![w] = g]
      BY <1>3 DEF ClientPrepareWithAttestation, h
    <2>5. session' \in [Wallets -> ClientHandoff \cup {NoSession}]
      BY <2>3, <2>4
    <2> QED BY <1>3, <2>5 DEF ClientPrepareWithAttestation
  <1>4. ASSUME NEW w \in Wallets, NEW v \in Wallets, ProveDerivation(w, v)
        PROVE  TypeOK'
    <2> DEFINE h == session[w]
               out == SkProve(w, h.pk, attestation[v].blinding, h.coin)
    <2>1. h \in ClientHandoff /\ attestation[v] \in WalletAttestation
      BY <1>4 DEF ProveDerivation
    <2>2. h.nullifier = Nullifier(h.coin, w)
      BY <1>4 DEF ProveDerivation, SkProve, ClientTranscript, HandoffTranscript, SplitNullifier
    <2>3. h.coin_binding_tag = BindingTag(h.coin, h.pk)
      BY <1>4 DEF ProveDerivation, SkProve, ClientTranscript, HandoffTranscript
    <2>4. h.pk \in PublicKeys
      <3>1. h.coin_binding_tag \in Tags
        BY <2>1, <2>3, Junk DEF ClientHandoff
      <3>2. PICK c \in Coins, pk \in PublicKeys : h.coin_binding_tag = BindingTag(c, pk)
        BY <3>1 DEF Tags
      <3>3. BindingTag(c, pk).pk = pk /\ BindingTag(h.coin, h.pk).pk = h.pk
        BY DEF BindingTag
      <3> QED BY <2>3, <3>2, <3>3
    <2>5. Proof("sk_prove", out) \in Derivations
      BY <2>1, <2>4, ProofTypes DEF Keys, WalletAttestation, ClientHandoff
    <2>6. session' \in [Wallets -> ClientHandoff \cup {NoSession}]
      <3> DEFINE g == [h EXCEPT !.client_derivation_proof = Proof("sk_prove", out)]
      <3>1. g \in ClientHandoff
        BY <2>1, <2>5 DEF ClientHandoff
      <3>2. session' = [session EXCEPT ![w] = g]
        BY <1>4 DEF ProveDerivation
      <3> QED BY <3>1, <3>2
    <2>7. authorized' \subseteq Keys \X Coins
      BY <1>4, <2>1 DEF ProveDerivation, ClientHandoff, Keys
    <2> QED BY <1>4, <2>6, <2>7 DEF ProveDerivation
  <1>5. ASSUME NEW w \in Wallets, Send(w) PROVE TypeOK'
    BY <1>5 DEF Send
  <1>6. ASSUME NEW w \in Wallets, Abandon(w) PROVE TypeOK'
    BY <1>6 DEF Abandon
  <1>7. ASSUME NEW sk \in OtherClients, NEW pk \in PublicKeys, NEW r \in Blindings,
               NEW c \in Coins, NEW i \in Index, NEW att \in SeenAttestations(sk, r),
               OtherHandoff(sk, pk, r, c, i, att)
        PROVE  TypeOK'
    <2>1. sk \in Keys BY DEF Keys
    <2>2. att \in Attestations \cup NonProofs
      BY <2>1, ProofTypes DEF SeenAttestations, ClientHandoff, Attestations
    <2>3. /\ BindingTag(c, pk) \in Tags
          /\ SkProve(sk, pk, r, c).nullifier \in Nullifiers
          /\ SkProve(sk, pk, r, c).commitment_sk \in SkCommitments
          /\ Commitment(c, pk) \in Commitments
      BY <2>1, HashTypes DEF SplitNullifier, SkProve, ClientTranscript
    <2>4. Proof("sk_prove", SkProve(sk, pk, r, c)) \in Derivations
      BY <2>1 DEF Derivations
    <2>5. wire' \subseteq ClientHandoff
      BY <1>7, <2>2, <2>3, <2>4 DEF OtherHandoff, ClientHandoff
    <2> QED BY <1>7, <2>1, <2>5 DEF OtherHandoff
  <1>8. CASE AlterHandoff
    BY <1>8, AlteredHandoffType DEF AlterHandoff
  <1>9. CASE AlterBundle
    BY <1>9, AlteredBundleType DEF AlterBundle
  <1>10. ASSUME NEW h \in wire, NEW t \in EarlierTrees, BuildSpendPreimage(h, t)
         PROVE  TypeOK'
    <2>1. /\ h.coin_binding_tag # InvalidFr /\ h.attested_commitment_sk # InvalidFr
          /\ h.client_derivation_proof \in Derivations \cup {EmptyProof}
          /\ h.attestation_proof \in Attestations \cup {EmptyProof}
          /\ h \in ClientHandoff
      BY <1>10 DEF BuildSpendPreimage, BuildAccepts, IsFr, ClientHandoff, NonProofs
    <2>2. h.commitment_hash \in Commitments
      <3>1. t[h.mt_index] \in Commitments \cup {Blank}
        BY <2>1 DEF ClientHandoff, EarlierTrees
      <3>2. h.commitment_hash \in Commitments \cup {Garbled}
        BY <2>1 DEF ClientHandoff
      <3> QED BY <1>10, <3>1, <3>2, Junk DEF BuildSpendPreimage, BuildAccepts
    <2>3. inputs' \subseteq SplitInput
      BY <1>10, <2>1, <2>2 DEF BuildSpendPreimage, SpendInput, SplitInput, ClientHandoff
    <2> QED BY <1>10, <2>3 DEF BuildSpendPreimage
  <1>11. ASSUME NEW in \in inputs, ProveSpend(in) PROVE TypeOK'
    <2> DEFINE out == SpendSplit(in.coin, in.pk, in.nullifier)
    <2>1. in \in SplitInput
      OBVIOUS
    <2>2. out.coin_commitment = in.leaf /\ in.leaf \in Commitments
      BY <1>11, <2>1 DEF ProveSpend, SpendProvable, SpendOutputs, SplitInput
    <2>3. in.pk \in PublicKeys \cup Addresses
      BY <2>2 DEF SpendSplit, Commitments, Commitment
    <2>4. in.pk \in PublicKeys
      BY <2>1, <2>3 DEF SplitInput, Addresses, ContractAddress, Garbled
    <2>5. Proof("spend_split", out) \in SpendProofs
      BY <2>1, <2>4 DEF SpendProofs, SplitInput
    <2>6. bundles' \subseteq SplitBundle
      BY <1>11, <2>1, <2>2, <2>5
      DEF ProveSpend, ProvedBundle, SpendOutputs, SplitBundle, SplitInput
    <2> QED BY <1>11, <2>6 DEF ProveSpend
  <1>12. ASSUME NEW b \in bundles, AdmitSplit(b) PROVE TypeOK'
    <2>1. PICK c \in Coins, pk \in PublicKeys, n \in Nullifiers \cup {Garbled} :
             b.spend_proof = Proof("spend_split", SpendSplit(c, pk, n))
      BY DEF SplitBundle, SpendProofs
    <2>2. b.coin_commitment \in Commitments
      BY <1>12, <2>1, HashTypes
      DEF AdmitSplit, WellFormed, Proof, SpendSplit, Commitments
    <2>3. b.client_derivation_proof \in Derivations
      BY <1>12 DEF AdmitSplit, WellFormed, SplitBundle, EmptyProof, Proof
    <2>4. b.nullifier \in Nullifiers
      <3>1. PICK sk \in Keys, pk2 \in PublicKeys, r \in Blindings, cc \in Coins :
               b.client_derivation_proof = Proof("sk_prove", SkProve(sk, pk2, r, cc))
        BY <2>3 DEF Derivations
      <3>2. b.nullifier = b.client_derivation_proof.public.nullifier
        BY <1>12 DEF AdmitSplit, WellFormed, Proof, ClientTranscript
      <3>3. b.nullifier = Nullifier(cc, sk)
        BY <3>1, <3>2 DEF Proof, SkProve, ClientTranscript, SplitNullifier
      <3> QED BY <3>3 DEF Nullifiers
    <2> QED BY <1>12, <2>2, <2>4 DEF AdmitSplit, ApplySpend
  <1>13. ASSUME NEW sk \in Keys, NEW c \in Coins, AdmitStock(sk, c) PROVE TypeOK'
    <2>1. /\ Nullifier(c, sk) \in Nullifiers
          /\ Commitment(c, PublicKey(sk)) \in Commitments
      BY DEF Nullifiers, Commitments, PublicKeys
    <2> QED BY <1>13, <2>1 DEF AdmitStock, ApplySpend
  <1>14. ASSUME NEW i \in Index, NEW com \in Commitments, Mint(i, com) PROVE TypeOK'
    BY <1>14 DEF Mint
  <1>15. CASE UNCHANGED vars
    BY <1>15 DEF vars
  <1> QED
    BY <1>1, <1>2, <1>3, <1>4, <1>5, <1>6, <1>7, <1>8, <1>9, <1>10, <1>11,
       <1>12, <1>13, <1>14, <1>15
    DEF Next, WalletStep, OtherClientStep, ServerBuild, ServerProve, LedgerAdmit

\* Every variable always has its type; in particular every proof in a handoff,
\* an input or a bundle is one that its circuit can make.
THEOREM TypeCorrect == Spec => []TypeOK
  <1>1. Init => TypeOK
    BY DEF Init, TypeOK
  <1> QED
    BY <1>1, TypeStep, PTL DEF Spec

-----------------------------------------------------------------------------
(* Frames: what a step can do to the parts the invariant speaks of *)

\* The elements of a sequence after Append.
LEMMA AppendElements ==
    ASSUME NEW S, NEW q \in Seq(S), NEW e \in S
    PROVE  /\ DOMAIN Append(q, e) = DOMAIN q \cup {Len(q) + 1}
           /\ \A i \in DOMAIN q : Append(q, e)[i] = q[i]
           /\ Append(q, e)[Len(q) + 1] = e
           /\ Len(q) + 1 \notin DOMAIN q
  OBVIOUS

\* Which actions change which variables.
Frame ==
    /\ authorized \subseteq authorized'
    /\ \/ UNCHANGED ledgerVars
       \/ \E b \in bundles : AdmitSplit(b)
       \/ \E sk \in Keys, c \in Coins : AdmitStock(sk, c)
       \/ \E i \in Index, com \in Commitments : Mint(i, com)
    /\ UNCHANGED inputs \/ \E h \in wire : \E t \in EarlierTrees : BuildSpendPreimage(h, t)
    /\ UNCHANGED bundles \/ AlterBundle \/ \E in \in inputs : ProveSpend(in)
    /\ UNCHANGED attestation
          \/ \E w \in Wallets, r \in Blindings : RegisterWallet(w, r)
    /\ \/ UNCHANGED session
       \/ \E w \in Wallets, c \in Coins, i \in Index, a \in Addresses \cup {NoContract} :
             \/ ClientPrepare(w, c, i, a)
             \/ \E v \in Wallets : ClientPrepareWithAttestation(w, v, c, i, a)
       \/ \E w, v \in Wallets : ProveDerivation(w, v)
       \/ \E w \in Wallets : Send(w) \/ Abandon(w)
    /\ \/ UNCHANGED wire
       \/ AlterHandoff
       \/ \E w \in Wallets : Send(w)
       \/ \E sk \in OtherClients, pk \in PublicKeys, r \in Blindings, c \in Coins,
             i \in Index : \E att \in SeenAttestations(sk, r) :
                OtherHandoff(sk, pk, r, c, i, att)

\* Every step respects Frame.
LEMMA StepFrame ==
    ASSUME [Next]_vars
    PROVE  Frame
  <1> USE DEF Frame, walletVars, ledgerVars
  <1>1. ASSUME NEW w \in Wallets, WalletStep(w) PROVE Frame
    <2>1. ASSUME NEW r \in Blindings, RegisterWallet(w, r) PROVE Frame
      BY <2>1 DEF RegisterWallet
    <2>2. ASSUME NEW c \in Coins, NEW i \in Index, NEW a \in Addresses \cup {NoContract},
                 ClientPrepare(w, c, i, a)
          PROVE  Frame
      <3>1. UNCHANGED <<attestation, wire, inputs, bundles, ledgerVars, authorized>>
        BY <2>2 DEF ClientPrepare
      <3> QED BY <2>2, <3>1
    <2>3. ASSUME NEW c \in Coins, NEW i \in Index, NEW a \in Addresses \cup {NoContract},
                 NEW v \in Wallets, ClientPrepareWithAttestation(w, v, c, i, a)
          PROVE  Frame
      <3>1. UNCHANGED <<attestation, wire, inputs, bundles, ledgerVars, authorized>>
        BY <2>3 DEF ClientPrepareWithAttestation
      <3> QED BY <2>3, <3>1
    <2>4. ASSUME NEW v \in Wallets, ProveDerivation(w, v) PROVE Frame
      <3>1. /\ UNCHANGED <<attestation, wire, inputs, bundles, ledgerVars>>
            /\ authorized \subseteq authorized'
        BY <2>4 DEF ProveDerivation
      <3> QED BY <2>4, <3>1
    <2>5. CASE Send(w)
      BY <2>5 DEF Send
    <2>6. CASE Abandon(w)
      BY <2>6 DEF Abandon
    <2> QED
      BY <1>1, <2>1, <2>2, <2>3, <2>4, <2>5, <2>6 DEF WalletStep
  <1>2. ASSUME NEW sk \in OtherClients, OtherClientStep(sk) PROVE Frame
    <2>1. PICK pk \in PublicKeys, r \in Blindings, c \in Coins, i \in Index :
             \E att \in SeenAttestations(sk, r) : OtherHandoff(sk, pk, r, c, i, att)
      BY <1>2 DEF OtherClientStep
    <2>2. /\ UNCHANGED <<attestation, session, inputs, bundles, ledgerVars>>
          /\ authorized \subseteq authorized'
      BY <2>1 DEF OtherHandoff
    <2> QED BY <2>1, <2>2
  <1>3. CASE AlterHandoff
    BY <1>3 DEF AlterHandoff
  <1>4. CASE AlterBundle
    BY <1>4 DEF AlterBundle
  <1>5. ASSUME NEW h \in wire, NEW t \in EarlierTrees, BuildSpendPreimage(h, t) PROVE Frame
    BY <1>5 DEF BuildSpendPreimage
  <1>6. ASSUME NEW in \in inputs, ProveSpend(in) PROVE Frame
    <2>1. UNCHANGED <<walletVars, wire, inputs, ledgerVars>>
      BY <1>6 DEF ProveSpend
    <2> QED BY <1>6, <2>1
  <1>7. ASSUME NEW b \in bundles, AdmitSplit(b) PROVE Frame
    BY <1>7 DEF AdmitSplit
  <1>8. ASSUME NEW sk \in Keys, NEW c \in Coins, AdmitStock(sk, c) PROVE Frame
    BY <1>8 DEF AdmitStock
  <1>9. ASSUME NEW i \in Index, NEW com \in Commitments, Mint(i, com) PROVE Frame
    BY <1>9 DEF Mint
  <1>10. CASE UNCHANGED vars
    BY <1>10 DEF vars
  <1> QED
    BY <1>1, <1>2, <1>3, <1>4, <1>5, <1>6, <1>7, <1>8, <1>9, <1>10
    DEF Next, ServerBuild, ServerProve, LedgerAdmit

\* A leaf stays where it is, so the set of leaves only grows.
LEMMA TreeGrows ==
    ASSUME TypeOK, [Next]_vars
    PROVE  /\ \A i \in Index : tree[i] # Blank => tree'[i] = tree[i]
           /\ TreeLeaves \subseteq TreeLeaves'
  <1>1. \A i \in Index : tree[i] # Blank => tree'[i] = tree[i]
    <2>1. CASE UNCHANGED tree
      BY <2>1
    <2>2. CASE \E i \in Index, com \in Commitments : Mint(i, com)
      BY <2>2 DEF Mint, TypeOK
    <2> QED
      BY <2>1, <2>2, StepFrame DEF Frame, ledgerVars, AdmitSplit, AdmitStock, ApplySpend
  <1> QED
    BY <1>1 DEF TreeLeaves

-----------------------------------------------------------------------------
(* The inductive invariant, one part at a time *)

\* Inputs and spend proofs stay about leaves of the tree.
LEMMA ProvedLeavesStep ==
    ASSUME TypeOK, ProvedLeaves, [Next]_vars
    PROVE  ProvedLeaves'
  <1> USE TreeGrows DEF ProvedLeaves
  <1>1. CASE UNCHANGED <<inputs, bundles>>
    BY <1>1
  <1>2. ASSUME NEW h \in wire, NEW t \in EarlierTrees, BuildSpendPreimage(h, t)
        PROVE  ProvedLeaves'
    <2>1. h.commitment_hash \in TreeLeaves
      <3>1. /\ t[h.mt_index] = h.commitment_hash
            /\ h.mt_index \in Index
            /\ h.commitment_hash \in Commitments \cup {Garbled}
        BY <1>2 DEF BuildSpendPreimage, BuildAccepts, TypeOK, ClientHandoff
      <3>2. h.commitment_hash # Blank
        BY <3>1, Junk DEF Commitments
      <3> QED BY <3>1, <3>2 DEF EarlierTrees, TreeLeaves
    <2> QED BY <1>2, <2>1 DEF BuildSpendPreimage, SpendInput
  <1>3. ASSUME NEW in \in inputs, ProveSpend(in) PROVE ProvedLeaves'
    <2> DEFINE out == SpendSplit(in.coin, in.pk, in.nullifier)
    <2>1. out.coin_commitment \in TreeLeaves
      BY <1>3 DEF ProveSpend, SpendProvable, SpendOutputs
    <2>2. Proof("spend_split", out).public.coin_commitment \in TreeLeaves
      BY <2>1 DEF Proof
    <2>3. \A b \in bundles' : b \in bundles \/ b.spend_proof = Proof("spend_split", out)
      BY <1>3 DEF ProveSpend, ProvedBundle, SpendOutputs
    <2> QED BY <1>3, <2>2, <2>3 DEF ProveSpend
  <1>4. CASE AlterBundle
    <2>0. PICK b \in bundles : \E a \in AlteredBundles(b) : bundles' = bundles \cup {a}
      BY <1>4 DEF AlterBundle
    <2>1. PICK a \in AlteredBundles(b) : bundles' = bundles \cup {a}
      BY <2>0
    <2>2. \E d \in bundles : a.spend_proof = d.spend_proof
      BY <2>1 DEF AlteredBundles, TypeOK, SplitBundle
    <2> QED BY <1>4, <2>1, <2>2 DEF AlterBundle
  <1> QED
    BY <1>1, <1>2, <1>3, <1>4, StepFrame DEF Frame

\* A wallet's own records: the attestation it keeps is for its C_sk.
LEMMA AttestationsStep ==
    ASSUME TypeOK, AttestationsAreOwn, [Next]_vars
    PROVE  AttestationsAreOwn'
  <1>1. ASSUME NEW w \in Wallets, NEW r \in Blindings, RegisterWallet(w, r)
        PROVE  AttestationsAreOwn'
    <2>1. /\ \A v \in Wallets \ {w} : attestation'[v] = attestation[v]
          /\ attestation'[w].attestation_proof = Proof("wallet_attest", WalletAttest(w, r))
          /\ attestation'[w].commitment_sk = WalletAttest(w, r).commitment_sk
      BY <1>1 DEF RegisterWallet, TypeOK
    <2> QED BY <2>1 DEF AttestationsAreOwn, Proof
  <1>2. CASE UNCHANGED attestation
    BY <1>2 DEF AttestationsAreOwn
  <1> QED
    BY <1>1, <1>2, StepFrame DEF Frame

\* A derivation proof names the key and the coin it was made with.
LEMMA DerivationFields ==
    ASSUME NEW sk, NEW pk, NEW r, NEW c
    PROVE  LET p == Proof("sk_prove", SkProve(sk, pk, r, c)).public IN
           /\ p.pk = pk
           /\ p.nullifier = Nullifier(c, sk)
           /\ p.nullifier.sk = sk /\ p.nullifier.coin = c
           /\ p.coin_binding_tag = BindingTag(c, pk)
           /\ p.commitment_sk = SkCommitment(sk, r)
  BY DEF Proof, SkProve, ClientTranscript, SplitNullifier, Nullifier

\* Equal hashes have equal arguments.
LEMMA Injective ==
    /\ \A a, b, c, d : SkCommitment(a, b) = SkCommitment(c, d) => a = c /\ b = d
    /\ \A a, b, c, d : BindingTag(a, b) = BindingTag(c, d) => a = c /\ b = d
    /\ \A a, b, c, d : Nullifier(a, b) = Nullifier(c, d) => a = c /\ b = d
    /\ \A a, b, c, d : Commitment(a, b) = Commitment(c, d) => a = c /\ b = d
    /\ \A a, c : PublicKey(a) = PublicKey(c) => a = c
  <1>1. \A a, b : SkCommitment(a, b).sk = a /\ SkCommitment(a, b).r = b
    BY DEF SkCommitment
  <1>2. \A a, b : BindingTag(a, b).coin = a /\ BindingTag(a, b).pk = b
    BY DEF BindingTag
  <1>3. \A a, b : Nullifier(a, b).coin = a /\ Nullifier(a, b).sk = b
    BY DEF Nullifier
  <1>4. \A a, b : Commitment(a, b).coin = a /\ Commitment(a, b).recipient = b
    BY DEF Commitment
  <1>5. \A a : PublicKey(a).sk = a
    BY DEF PublicKey
  <1>6. \A a, b, c, d : SkCommitment(a, b) = SkCommitment(c, d) => a = c /\ b = d
    BY <1>1
  <1>7. \A a, b, c, d : BindingTag(a, b) = BindingTag(c, d) => a = c /\ b = d
    BY <1>2
  <1>8. \A a, b, c, d : Nullifier(a, b) = Nullifier(c, d) => a = c /\ b = d
    BY <1>3
  <1>9. \A a, b, c, d : Commitment(a, b) = Commitment(c, d) => a = c /\ b = d
    BY <1>4
  <1>10. \A a, c : PublicKey(a) = PublicKey(c) => a = c
    BY <1>5
  <1> QED
    BY <1>6, <1>7, <1>8, <1>9, <1>10

\* Client proofs travel from session to handoff to input to bundle, and each
\* was authorized when it was made.
LEMMA ClientProofsStep ==
    ASSUME TypeOK, ClientProofsAuthorized, [Next]_vars
    PROVE  ClientProofsAuthorized'
  <1> DEFINE Signed(p) == p \in Derivations =>
                 <<p.public.nullifier.sk, p.public.nullifier.coin>> \in authorized'
  <1>0. authorized \subseteq authorized'
    BY StepFrame DEF Frame
  <1>a. \A p : SignedOff(p) => Signed(p)
    BY <1>0 DEF SignedOff
  <1>b. \A p \in NonProofs : Signed(p)
    BY Junk DEF Derivations
  <1>c. \A w \in Wallets : session[w] # NoSession => Signed(session[w].client_derivation_proof)
    BY <1>a DEF ClientProofsAuthorized
  <1>1. \A w \in Wallets : session'[w] # NoSession =>
           Signed(session'[w].client_derivation_proof)
    <2>1. CASE UNCHANGED session
      BY <2>1, <1>c
    <2>2. ASSUME NEW w \in Wallets, NEW c \in Coins, NEW i \in Index,
                 NEW a \in Addresses \cup {NoContract}, ClientPrepare(w, c, i, a)
          PROVE  <1>1!:
      <3>1. PICK r \in Blindings :
               session' = [session EXCEPT ![w] = PrepareHandoff(w, c, i, a, r)]
        BY <2>2 DEF ClientPrepare
      <3>2. PrepareHandoff(w, c, i, a, r).client_derivation_proof = NoProof
        BY DEF PrepareHandoff
      <3> QED BY <3>1, <3>2, <1>c, <1>b DEF TypeOK, NonProofs
    <2>3. ASSUME NEW w \in Wallets, NEW v \in Wallets, NEW c \in Coins, NEW i \in Index,
                 NEW a \in Addresses \cup {NoContract},
                 ClientPrepareWithAttestation(w, v, c, i, a)
          PROVE  <1>1!:
      <3>1. session'[w].client_derivation_proof = NoProof
        BY <2>3 DEF ClientPrepareWithAttestation, PrepareHandoff, TypeOK
      <3>2. \A x \in Wallets \ {w} : session'[x] = session[x]
        BY <2>3 DEF ClientPrepareWithAttestation, TypeOK
      <3> QED BY <3>1, <3>2, <1>c, <1>b DEF NonProofs
    <2>4. ASSUME NEW w \in Wallets, NEW v \in Wallets, ProveDerivation(w, v)
          PROVE  <1>1!:
      <3> DEFINE h == session[w]
                 out == SkProve(w, h.pk, attestation[v].blinding, h.coin)
      <3>1. /\ h \in ClientHandoff
            /\ session' = [session EXCEPT ![w] =
                   [h EXCEPT !.client_derivation_proof = Proof("sk_prove", out)]]
            /\ <<w, h.coin>> \in authorized'
        BY <2>4 DEF ProveDerivation, TypeOK
      <3>2. session'[w].client_derivation_proof = Proof("sk_prove", out)
        BY <3>1 DEF ClientHandoff, TypeOK
      <3>3. Signed(Proof("sk_prove", out))
        BY <3>1, DerivationFields
      <3>4. \A x \in Wallets \ {w} : session'[x] = session[x]
        BY <3>1 DEF TypeOK
      <3> QED BY <3>2, <3>3, <3>4, <1>c
    <2>5. ASSUME NEW w \in Wallets, Send(w) \/ Abandon(w) PROVE <1>1!:
      BY <2>5, <1>c DEF Send, Abandon, TypeOK
    <2> HIDE DEF Signed
    <2> QED BY <2>1, <2>2, <2>3, <2>4, <2>5, StepFrame DEF Frame
  <1>2. \A h \in wire' : Signed(h.client_derivation_proof)
    <2>1. CASE UNCHANGED wire
      BY <2>1, <1>a DEF ClientProofsAuthorized
    <2>2. ASSUME NEW w \in Wallets, Send(w) PROVE <1>2!:
      BY <2>2, <1>a DEF Send, ClientProofsAuthorized
    <2>3. CASE AlterHandoff
      <3>0. PICK h \in wire : \E g \in AlteredHandoffs(h) : wire' = wire \cup {g}
        BY <2>3 DEF AlterHandoff
      <3>1. PICK g \in AlteredHandoffs(h) : wire' = wire \cup {g}
        BY <3>0
      <3>2. \/ g.client_derivation_proof \in NonProofs
            \/ \E k \in wire : g.client_derivation_proof = k.client_derivation_proof
        BY DEF AlteredHandoffs, TypeOK, ClientHandoff
      <3> QED BY <3>1, <3>2, <1>a, <1>b DEF ClientProofsAuthorized
    <2>4. ASSUME NEW sk \in OtherClients, NEW pk \in PublicKeys, NEW r \in Blindings,
                 NEW c \in Coins, NEW i \in Index, NEW att \in SeenAttestations(sk, r),
                 OtherHandoff(sk, pk, r, c, i, att)
          PROVE  <1>2!:
      <3>1. Signed(Proof("sk_prove", SkProve(sk, pk, r, c)))
        BY <2>4, DerivationFields DEF OtherHandoff
      <3>2. \A h \in wire' : h \in wire \/
               h.client_derivation_proof = Proof("sk_prove", SkProve(sk, pk, r, c))
        BY <2>4 DEF OtherHandoff
      <3> QED BY <3>1, <3>2, <1>a DEF ClientProofsAuthorized
    <2> QED BY <2>1, <2>2, <2>3, <2>4, StepFrame DEF Frame
  <1>3. \A in \in inputs' : Signed(in.client_derivation_proof)
    <2>1. ASSUME NEW h \in wire, NEW t \in EarlierTrees, BuildSpendPreimage(h, t)
          PROVE  <1>3!:
      <3>1. \A in \in inputs' : in \in inputs \/
               in.client_derivation_proof = h.client_derivation_proof
        BY <2>1 DEF BuildSpendPreimage, SpendInput
      <3> QED BY <3>1, <1>a DEF ClientProofsAuthorized
    <2> QED BY <2>1, <1>a, StepFrame DEF Frame, ClientProofsAuthorized
  <1>4. \A b \in bundles' : Signed(b.client_derivation_proof)
    <2>1. ASSUME NEW in \in inputs, ProveSpend(in) PROVE <1>4!:
      <3>1. \A b \in bundles' : b \in bundles \/
               b.client_derivation_proof = in.client_derivation_proof
        BY <2>1 DEF ProveSpend, ProvedBundle
      <3> QED BY <3>1, <1>a DEF ClientProofsAuthorized
    <2>2. CASE AlterBundle
      <3>0. PICK b \in bundles : \E a \in AlteredBundles(b) : bundles' = bundles \cup {a}
        BY <2>2 DEF AlterBundle
      <3>1. PICK a \in AlteredBundles(b) : bundles' = bundles \cup {a}
        BY <3>0
      <3>2. \/ a.client_derivation_proof = EmptyProof
            \/ \E d \in bundles : a.client_derivation_proof = d.client_derivation_proof
        BY DEF AlteredBundles, TypeOK, SplitBundle
      <3> QED BY <3>1, <3>2, <1>a, <1>b DEF NonProofs, ClientProofsAuthorized
    <2> QED BY <2>1, <2>2, <1>a, StepFrame DEF Frame, ClientProofsAuthorized
  <1> QED
    BY <1>1, <1>2, <1>3, <1>4 DEF ClientProofsAuthorized, SignedOff

\* Whatever attestation a release build is given, the handoff of a session has
\* that attestation's C_sk, and its client proof opens the same C_sk.
LEMMA SessionsStep ==
    ASSUME TypeOK, AttestationsAreOwn, SessionsAreOwn, [Next]_vars
    PROVE  SessionsAreOwn'
  <1> DEFINE Goal == \A w \in Wallets : session'[w] # NoSession => Own(session'[w], w)
  <1>0. \A w \in Wallets : session[w] # NoSession => Own(session[w], w)
    BY DEF SessionsAreOwn
  <1>1. ASSUME UNCHANGED session PROVE Goal
    BY <1>0, <1>1
  <1>2. ASSUME NEW w \in Wallets, NEW c \in Coins, NEW i \in Index,
               NEW a \in Addresses \cup {NoContract}, ClientPrepare(w, c, i, a)
        PROVE  Goal
    <2>1. PICK r \in Blindings :
             session' = [session EXCEPT ![w] = PrepareHandoff(w, c, i, a, r)]
      BY <1>2 DEF ClientPrepare
    <2>2. Own(PrepareHandoff(w, c, i, a, r), w)
      BY DEF PrepareHandoff, Own
    <2> QED BY <1>0, <2>1, <2>2 DEF TypeOK
  <1>3. ASSUME NEW w \in Wallets, NEW v \in Wallets, NEW c \in Coins, NEW i \in Index,
               NEW a \in Addresses \cup {NoContract},
               ClientPrepareWithAttestation(w, v, c, i, a)
        PROVE  Goal
    <2> DEFINE h == PrepareHandoff(w, c, i, a, attestation[v].blinding)
               g == [h EXCEPT !.attested_commitment_sk = attestation[v].commitment_sk,
                              !.attestation_proof = attestation[v].attestation_proof]
    <2>1. /\ attestation[v] \in WalletAttestation
          /\ attestation[v].attestation_proof.public.commitment_sk =
                attestation[v].commitment_sk
          /\ session' = [session EXCEPT ![w] = g]
      BY <1>3 DEF ClientPrepareWithAttestation, TypeOK, AttestationsAreOwn
    <2>2. Own(h, w) /\ h.client_derivation_proof = NoProof
      BY DEF PrepareHandoff, Own
    <2>3. /\ g.pk = h.pk /\ g.nullifier = h.nullifier /\ g.coin = h.coin
          /\ g.coin_binding_tag = h.coin_binding_tag
          /\ g.commitment_hash = h.commitment_hash
          /\ g.contract_address = h.contract_address
          /\ g.attested_commitment_sk = attestation[v].commitment_sk
          /\ g.attestation_proof = attestation[v].attestation_proof
          /\ g.client_derivation_proof = NoProof
      BY DEF PrepareHandoff
    <2>4. Own(g, w)
      <3> HIDE DEF h, g
      <3> QED BY <2>1, <2>2, <2>3 DEF WalletAttestation, Own
    <2> HIDE DEF g
    <2> QED BY <1>0, <2>1, <2>4 DEF TypeOK
  <1>4. ASSUME NEW w \in Wallets, NEW v \in Wallets, ProveDerivation(w, v)
        PROVE  Goal
    <2> DEFINE h == session[w]
               out == SkProve(w, h.pk, attestation[v].blinding, h.coin)
               g == [h EXCEPT !.client_derivation_proof = Proof("sk_prove", out)]
    <2>1. /\ h # NoSession
          /\ h \in ClientHandoff
          /\ attestation[v] \in WalletAttestation
          /\ session' = [session EXCEPT ![w] = g]
          /\ out = HandoffTranscript(h)
      BY <1>4 DEF ProveDerivation, TypeOK
    <2>2. Own(h, w) /\ h.pk \in PublicKeys
      BY <1>0, <2>1 DEF Own, PublicKeys, Keys
    <2>3. Proof("sk_prove", out) \in Derivations
      <3>1. w \in Keys /\ h.coin \in Coins /\ attestation[v].blinding \in Blindings
        BY <2>1 DEF Keys, ClientHandoff, WalletAttestation
      <3> QED BY <2>2, <3>1 DEF Derivations
    <2>4. /\ g.pk = h.pk /\ g.nullifier = h.nullifier /\ g.coin = h.coin
          /\ g.coin_binding_tag = h.coin_binding_tag
          /\ g.commitment_hash = h.commitment_hash
          /\ g.contract_address = h.contract_address
          /\ g.attested_commitment_sk = h.attested_commitment_sk
          /\ g.attestation_proof = h.attestation_proof
          /\ g.client_derivation_proof = Proof("sk_prove", out)
      BY <2>1 DEF ClientHandoff
    <2>5. HandoffTranscript(g) = out
      BY <2>1, <2>4 DEF HandoffTranscript
    <2>6. Own(g, w)
      <3> HIDE DEF h, out, g
      <3> QED BY <2>2, <2>3, <2>4, <2>5 DEF Own
    <2> HIDE DEF g
    <2> QED BY <1>0, <2>1, <2>6 DEF TypeOK
  <1>5. ASSUME NEW w \in Wallets, Send(w) \/ Abandon(w) PROVE Goal
    <2>1. session' = [session EXCEPT ![w] = NoSession]
      BY <1>5 DEF Send, Abandon
    <2> QED BY <1>0, <2>1 DEF TypeOK
  <1>6. Goal
    <2> HIDE DEF Goal
    <2> QED BY <1>1, <1>2, <1>3, <1>4, <1>5, StepFrame DEF Frame
  <1> QED
    BY <1>6 DEF SessionsAreOwn

\* What the node's checks imply about a bundle: one key and one coin stand
\* behind its nullifier, its public key and its commitment.
LEMMA AdmittedBundle ==
    ASSUME TypeOK, NEW b \in bundles, WellFormed(b)
    PROVE  \E sk \in Keys, c \in Coins :
              /\ b.nullifier = Nullifier(c, sk)
              /\ b.coin_commitment = Commitment(c, PublicKey(sk))
              /\ b.client_derivation_proof \in Derivations
              /\ b.client_derivation_proof.public.nullifier = Nullifier(c, sk)
              /\ b.spend_proof.public.coin_commitment = b.coin_commitment
  <1>0. b \in SplitBundle
    BY DEF TypeOK
  <1>1. PICK sk \in Keys, r \in Blindings :
           b.attestation_proof = Proof("wallet_attest", WalletAttest(sk, r))
    <2>1. b.attestation_proof # EmptyProof
      BY Junk DEF WellFormed, NonProofs
    <2> QED BY <1>0, <2>1 DEF SplitBundle, Attestations
  <1>2. b.pk = PublicKey(sk) /\ b.commitment_sk = SkCommitment(sk, r)
    BY <1>1 DEF WellFormed, WalletAttest, AttestationTranscript, Proof
  <1>3. PICK sk2 \in Keys, pk2 \in PublicKeys, r2 \in Blindings, c \in Coins :
           b.client_derivation_proof = Proof("sk_prove", SkProve(sk2, pk2, r2, c))
    <2>1. b.client_derivation_proof # EmptyProof
      BY Junk DEF WellFormed, NonProofs
    <2> QED BY <1>0, <2>1 DEF SplitBundle, Derivations
  <1>4. /\ b.nullifier = Nullifier(c, sk2)
        /\ b.coin_binding_tag = BindingTag(c, b.pk)
        /\ b.commitment_sk = SkCommitment(sk2, r2)
    <2>1. b.client_derivation_proof.public =
             ClientTranscript(b.pk, b.nullifier, b.coin_binding_tag, b.commitment_sk)
      BY DEF WellFormed, Proof
    <2> QED BY <1>3, <2>1, DerivationFields DEF ClientTranscript
  <1>5. sk2 = sk
    <2>1. SkCommitment(sk, r) = SkCommitment(sk2, r2)
      BY <1>2, <1>4
    <2>2. sk = sk2 /\ r = r2
      BY ONLY <2>1, Injective
    <2> QED BY <2>2
  <1>6. PICK c3 \in Coins, pk3 \in PublicKeys, n3 \in Nullifiers \cup {Garbled} :
           b.spend_proof = Proof("spend_split", SpendSplit(c3, pk3, n3))
    BY <1>0 DEF SplitBundle, SpendProofs
  <1>7. /\ b.spend_proof.public.coin_commitment = b.coin_commitment
        /\ b.coin_commitment = Commitment(c3, b.pk)
        /\ b.coin_binding_tag = BindingTag(c3, b.pk)
    <2>1. b.spend_proof.public =
             [pk               |-> b.pk,
              nullifier        |-> b.nullifier,
              coin_binding_tag |-> b.coin_binding_tag,
              coin_commitment  |-> b.coin_commitment]
      BY DEF WellFormed, Proof
    <2>2. b.spend_proof.public = SpendSplit(c3, pk3, n3)
      BY <1>6 DEF Proof
    <2>3. b.pk = pk3
      BY <2>1, <2>2 DEF SpendSplit
    <2> QED BY <2>1, <2>2, <2>3 DEF SpendSplit
  <1>8. c3 = c
    <2>1. BindingTag(c3, b.pk) = BindingTag(c, b.pk)
      BY <1>4, <1>7
    <2>2. c3 = c
      BY ONLY <2>1, Injective
    <2> QED BY <2>2
  <1>9. /\ b.client_derivation_proof \in Derivations
        /\ b.client_derivation_proof.public.nullifier = Nullifier(c, sk)
    BY <1>3, <1>5, DerivationFields DEF Derivations
  <1> QED
    BY <1>2, <1>4, <1>5, <1>7, <1>8, <1>9

Admission == [path : {"split", "stock"}, nullifier : Nullifiers, commitment : Commitments]

\* Both ways to spend append one admission, of a leaf and its own nullifier,
\* which the holder of the key authorized and the ledger had not seen.
LEMMA SpendStep ==
    ASSUME TypeOK, ProvedLeaves, ClientProofsAuthorized,
           \/ \E b \in bundles : AdmitSplit(b)
           \/ \E sk \in Keys, c \in Coins : AdmitStock(sk, c)
    PROVE  \E e \in Admission, sk \in Keys, c \in Coins :
              /\ e.nullifier = Nullifier(c, sk)
              /\ e.commitment = Commitment(c, PublicKey(sk))
              /\ e.commitment \in TreeLeaves
              /\ <<sk, c>> \in authorized'
              /\ e.nullifier \notin nullifiers
              /\ nullifiers' = nullifiers \cup {e.nullifier}
              /\ history' = Append(history, e)
              /\ tree' = tree
  <1> DEFINE Goal(e, sk, c) ==
              /\ e.nullifier = Nullifier(c, sk)
              /\ e.commitment = Commitment(c, PublicKey(sk))
              /\ e.commitment \in TreeLeaves
              /\ <<sk, c>> \in authorized'
              /\ e.nullifier \notin nullifiers
              /\ nullifiers' = nullifiers \cup {e.nullifier}
              /\ history' = Append(history, e)
              /\ tree' = tree
  <1>1. ASSUME NEW b \in bundles, AdmitSplit(b)
        PROVE  \E e \in Admission, sk \in Keys, c \in Coins : Goal(e, sk, c)
    <2>1. WellFormed(b) /\ ApplySpend("split", b.nullifier, b.coin_commitment)
          /\ authorized' = authorized
      BY <1>1 DEF AdmitSplit, walletVars
    <2>2. PICK sk \in Keys, c \in Coins :
              /\ b.nullifier = Nullifier(c, sk)
              /\ b.coin_commitment = Commitment(c, PublicKey(sk))
              /\ b.client_derivation_proof \in Derivations
              /\ b.client_derivation_proof.public.nullifier = Nullifier(c, sk)
              /\ b.spend_proof.public.coin_commitment = b.coin_commitment
      BY <2>1, AdmittedBundle
    <2> DEFINE e == [path |-> "split", nullifier |-> b.nullifier,
                     commitment |-> b.coin_commitment]
    <2>3. e \in Admission
      BY <2>2 DEF Admission, Nullifiers, Commitments, PublicKeys
    <2>4. e.commitment \in TreeLeaves
      BY <2>2 DEF ProvedLeaves
    <2>5. <<sk, c>> \in authorized
      <3>1. Nullifier(c, sk).sk = sk /\ Nullifier(c, sk).coin = c
        BY DEF Nullifier
      <3> QED BY <2>2, <3>1 DEF ClientProofsAuthorized, SignedOff
    <2>6. Goal(e, sk, c)
      BY <2>1, <2>2, <2>4, <2>5 DEF ApplySpend
    <2> QED BY <2>3, <2>6
  <1>2. ASSUME NEW sk \in Keys, NEW c \in Coins, AdmitStock(sk, c)
        PROVE  \E e \in Admission, s \in Keys, d \in Coins : Goal(e, s, d)
    <2> DEFINE e == [path |-> "stock", nullifier |-> Nullifier(c, sk),
                     commitment |-> Commitment(c, PublicKey(sk))]
    <2>1. e \in Admission
      BY DEF Admission, Nullifiers, Commitments, PublicKeys
    <2>2. e.commitment \in TreeLeaves
      <3>1. Commitment(c, PublicKey(sk)) # Blank
        BY Junk
      <3> QED BY <1>2, <3>1 DEF AdmitStock, TreeLeaves
    <2>3. Goal(e, sk, c)
      BY <1>2, <2>2 DEF AdmitStock, ApplySpend
    <2> QED BY <2>1, <2>3
  <1> QED
    BY <1>1, <1>2

\* The ledger's own part of the invariant.
LedgerInv == NullifiersOnce /\ SpendsMatchTheirLeaf /\ SpendsAuthorized

\* Steps keep the history and the nullifier set in agreement, and every entry
\* of the history that of an authorized leaf.
LEMMA LedgerStep ==
    ASSUME TypeOK, ProvedLeaves, ClientProofsAuthorized, LedgerInv, [Next]_vars
    PROVE  LedgerInv'
  <1> USE DEF LedgerInv
  <1>0. authorized \subseteq authorized' /\ TreeLeaves \subseteq TreeLeaves'
    BY StepFrame, TreeGrows DEF Frame
  <1>1. CASE history' = history /\ nullifiers' = nullifiers
    <2>1. NullifiersOnce'
      BY <1>1 DEF NullifiersOnce
    <2>2. SpendsMatchTheirLeaf'
      BY <1>0, <1>1 DEF SpendsMatchTheirLeaf
    <2>3. SpendsAuthorized'
      BY <1>0, <1>1 DEF SpendsAuthorized
    <2> QED BY <2>1, <2>2, <2>3
  <1>2. CASE \/ \E b \in bundles : AdmitSplit(b)
             \/ \E sk \in Keys, c \in Coins : AdmitStock(sk, c)
    <2>1. PICK e \in Admission, sk \in Keys, c \in Coins :
              /\ e.nullifier = Nullifier(c, sk)
              /\ e.commitment = Commitment(c, PublicKey(sk))
              /\ e.commitment \in TreeLeaves
              /\ <<sk, c>> \in authorized'
              /\ e.nullifier \notin nullifiers
              /\ nullifiers' = nullifiers \cup {e.nullifier}
              /\ history' = Append(history, e)
              /\ tree' = tree
      BY <1>2, SpendStep
    <2>2. history \in Seq(Admission)
      BY DEF TypeOK, Admission
    <2> DEFINE n == Len(history) + 1
    <2>3. /\ DOMAIN history' = DOMAIN history \cup {n}
          /\ \A i \in DOMAIN history : history'[i] = history[i]
          /\ history'[n] = e
          /\ n \notin DOMAIN history
      BY <2>1, <2>2, AppendElements
    <2> HIDE DEF n
    <2>4. NullifiersOnce'
      BY <2>1, <2>3 DEF NullifiersOnce
    <2>5. e.nullifier.sk = sk /\ e.nullifier.coin = c
      BY <2>1 DEF Nullifier
    <2>6. SpendsMatchTheirLeaf'
      BY <1>0, <2>1, <2>3, <2>5 DEF SpendsMatchTheirLeaf
    <2>7. SpendsAuthorized'
      BY <1>0, <2>1, <2>3, <2>5 DEF SpendsAuthorized
    <2> QED BY <2>4, <2>6, <2>7
  <1> QED
    BY <1>1, <1>2, StepFrame DEF Frame, Mint, ledgerVars

-----------------------------------------------------------------------------
(* Theorems *)

\* IInv holds initially and every step keeps it.
THEOREM InductiveInvariant == Spec => []IInv
  <1>1. Init => IInv
    <2> SUFFICES ASSUME Init PROVE IInv
      OBVIOUS
    <2>1. TypeOK
      BY DEF Init, TypeOK
    <2>2. /\ ProvedLeaves /\ ClientProofsAuthorized
          /\ AttestationsAreOwn /\ SessionsAreOwn
      BY DEF Init, ProvedLeaves, ClientProofsAuthorized,
             AttestationsAreOwn, SessionsAreOwn
    <2>3. NullifiersOnce /\ SpendsMatchTheirLeaf /\ SpendsAuthorized
      BY DEF Init, NullifiersOnce, SpendsMatchTheirLeaf, SpendsAuthorized
    <2> QED BY <2>1, <2>2, <2>3 DEF IInv
  <1>2. IInv /\ [Next]_vars => IInv'
    <2> SUFFICES ASSUME IInv, [Next]_vars PROVE IInv'
      OBVIOUS
    <2>1. /\ TypeOK /\ ProvedLeaves /\ ClientProofsAuthorized
          /\ AttestationsAreOwn /\ SessionsAreOwn /\ LedgerInv
      BY DEF IInv, LedgerInv
    <2>2. TypeOK'
      BY <2>1, TypeStep
    <2>3. ProvedLeaves'
      BY <2>1, ProvedLeavesStep
    <2>4. ClientProofsAuthorized'
      BY <2>1, ClientProofsStep
    <2>5. AttestationsAreOwn' /\ SessionsAreOwn'
      BY <2>1, AttestationsStep, SessionsStep
    <2>6. LedgerInv'
      BY <2>1, LedgerStep
    <2> QED BY <2>2, <2>3, <2>4, <2>5, <2>6 DEF IInv, LedgerInv
  <1> QED
    BY <1>1, <1>2, PTL DEF Spec

\* Every spend, split or stock, consumes the leaf its nullifier belongs to.
THEOREM MatchingSpends == Spec => []SpendsMatchTheirLeaf
  <1>1. IInv => SpendsMatchTheirLeaf
    BY DEF IInv
  <1> QED
    BY <1>1, InductiveInvariant, PTL

\* No coin moves without a proof by the holder of its key for that coin.
THEOREM AuthorizedSpends == Spec => []SpendsAuthorized
  <1>1. IInv => SpendsAuthorized
    BY DEF IInv
  <1> QED
    BY <1>1, InductiveInvariant, PTL

\* No commitment is spent twice, across both paths: equal commitments have
\* equal nullifiers, and the ledger admits a nullifier once.
THEOREM SingleSpends == Spec => []NoDoubleSpend
  <1>1. IInv => NoDoubleSpend
    <2> SUFFICES ASSUME IInv, NEW i \in DOMAIN history, NEW j \in DOMAIN history,
                        history[i].commitment = history[j].commitment
                 PROVE  i = j
      BY DEF NoDoubleSpend
    <2> DEFINE m == history[i].nullifier
               n == history[j].nullifier
    <2>1. m \in Nullifiers /\ n \in Nullifiers
      <3>1. history \in Seq(Admission)
        BY DEF IInv, TypeOK, Admission
      <3>2. history[i] \in Admission /\ history[j] \in Admission
        BY <3>1
      <3> QED BY <3>2 DEF Admission
    <2>2. /\ history[i].commitment = Commitment(m.coin, PublicKey(m.sk))
          /\ history[j].commitment = Commitment(n.coin, PublicKey(n.sk))
      BY DEF IInv, SpendsMatchTheirLeaf
    <2>3. Commitment(m.coin, PublicKey(m.sk)) = Commitment(n.coin, PublicKey(n.sk))
      BY <2>2
    <2>4. m.coin = n.coin /\ PublicKey(m.sk) = PublicKey(n.sk)
      BY ONLY <2>3, Injective
    <2>5. m.sk = n.sk
      BY ONLY <2>4, Injective
    <2>6. m = Nullifier(m.coin, m.sk) /\ n = Nullifier(n.coin, n.sk)
      BY <2>1 DEF Nullifiers, Nullifier
    <2>7. m = n
      BY <2>4, <2>5, <2>6
    <2> QED BY <2>7 DEF IInv, NullifiersOnce
  <1> QED
    BY <1>1, InductiveInvariant, PTL

\* A wallet never completes a handoff that the node's cross-check of pk and
\* C_sk refuses, also in a release build given another key's attestation.
THEOREM ConsistentHandoffs == Spec => []ProvedHandoffIsConsistent
  <1>1. IInv => ProvedHandoffIsConsistent
    <2> SUFFICES ASSUME IInv, NEW w \in Wallets, session[w] # NoSession,
                        session[w].client_derivation_proof # NoProof,
                        session[w].attestation_proof # NoProof
                 PROVE  session[w].attestation_proof =
                           Proof("wallet_attest",
                                 AttestationTranscript(session[w].pk,
                                                       session[w].attested_commitment_sk))
      BY DEF ProvedHandoffIsConsistent
    <2> DEFINE h == session[w]
    <2>1. /\ h.pk = PublicKey(w)
          /\ h.nullifier = Nullifier(h.coin, w)
          /\ h.attestation_proof \in Attestations
          /\ h.attestation_proof.public.commitment_sk = h.attested_commitment_sk
          /\ h.client_derivation_proof \in Derivations
          /\ h.client_derivation_proof.public = HandoffTranscript(h)
      <3>1. Own(h, w) /\ h.attestation_proof # NoProof /\ h.client_derivation_proof # NoProof
        BY DEF IInv, SessionsAreOwn
      <3>2. Proof("sk_prove", HandoffTranscript(h)).public = HandoffTranscript(h)
        BY DEF Proof
      <3> HIDE DEF h
      <3> QED BY <3>1, <3>2 DEF Own, SplitNullifier
    <2>2. PICK sk \in Keys, r \in Blindings :
             h.attestation_proof = Proof("wallet_attest", WalletAttest(sk, r))
      BY <2>1 DEF Attestations
    <2>3. PICK s \in Keys, pk \in PublicKeys, q \in Blindings, c \in Coins :
             h.client_derivation_proof = Proof("sk_prove", SkProve(s, pk, q, c))
      BY <2>1 DEF Derivations
    <2>4. s = w /\ h.attested_commitment_sk = SkCommitment(s, q)
      <3>1. /\ Nullifier(c, s) = Nullifier(h.coin, w)
            /\ h.attested_commitment_sk = SkCommitment(s, q)
        BY <2>1, <2>3, DerivationFields DEF HandoffTranscript, ClientTranscript
      <3>2. s = w
        BY ONLY <3>1, Injective
      <3> QED BY <3>1, <3>2
    <2>5. h.attested_commitment_sk = SkCommitment(sk, r)
      BY <2>1, <2>2 DEF Proof, WalletAttest, AttestationTranscript
    <2>6. SkCommitment(sk, r) = SkCommitment(s, q)
      BY <2>4, <2>5
    <2>7. sk = s
      BY ONLY <2>6, Injective
    <2> QED BY <2>1, <2>2, <2>4, <2>5, <2>7 DEF WalletAttest, AttestationTranscript
  <1> QED
    BY <1>1, InductiveInvariant, PTL

\* What a wallet completes is an honest handoff: every field of it and both of
\* its proofs are of one key and one coin, for any number of wallets and any
\* registrations in between.
THEOREM CompletedHandoffs == Spec => []CompletedHandoffIsHonest
  <1>1. IInv /\ ProvedHandoffIsConsistent => CompletedHandoffIsHonest
    <2> SUFFICES ASSUME IInv, ProvedHandoffIsConsistent,
                        NEW w \in Wallets, session[w] # NoSession,
                        session[w].client_derivation_proof # NoProof,
                        session[w].attestation_proof # NoProof,
                        session[w].contract_address = NoContract,
                        tree[session[w].mt_index] = session[w].commitment_hash
                 PROVE  HonestHandoff(session[w], w, session[w].coin)
      BY DEF CompletedHandoffIsHonest
    <2>1. Own(session[w], w)
      BY DEF IInv, SessionsAreOwn
    <2>2. session[w].attestation_proof =
             Proof("wallet_attest", AttestationTranscript(session[w].pk,
                                                 session[w].attested_commitment_sk))
      BY DEF ProvedHandoffIsConsistent
    <2> QED BY <2>1, <2>2 DEF Own, HonestHandoff, SplitNullifier
  <1> QED
    BY <1>1, InductiveInvariant, ConsistentHandoffs, PTL

\* An honest handoff passes every check that is still ahead of it, and only the
\* spend of its own coin puts its nullifier into the set.
THEOREM HonestSpendable == Spec => []HonestHandoffIsSpendable
  <1>1. IInv => HonestHandoffIsSpendable
    <2> SUFFICES ASSUME IInv, NEW w \in Wallets, NEW c \in Coins, NEW h \in wire,
                        HonestHandoff(h, w, c)
                 PROVE  /\ \A t \in EarlierTrees : t[h.mt_index] # Blank => BuildAccepts(h, t)
                        /\ SpendProvable(SpendInput(h))
                        /\ WellFormed(ProvedBundle(SpendInput(h)))
                        /\ h.nullifier \in nullifiers =>
                              \E i \in DOMAIN history :
                                 history[i].commitment = h.commitment_hash
      BY DEF HonestHandoffIsSpendable
    <2>1. /\ h.nullifier = Nullifier(c, w) /\ h.pk = PublicKey(w) /\ h.coin = c
          /\ h.coin_binding_tag = BindingTag(c, h.pk)
          /\ h.contract_address = NoContract
          /\ h.commitment_hash = Commitment(c, h.pk)
          /\ tree[h.mt_index] = h.commitment_hash
          /\ h.attestation_proof =
               Proof("wallet_attest", AttestationTranscript(h.pk, h.attested_commitment_sk))
          /\ h.client_derivation_proof = Proof("sk_prove", HandoffTranscript(h))
      BY DEF HonestHandoff
    <2>2. h \in ClientHandoff
      BY DEF IInv, TypeOK
    <2>3. ASSUME NEW t \in EarlierTrees, t[h.mt_index] # Blank
          PROVE  BuildAccepts(h, t)
      <3>1. t[h.mt_index] = h.commitment_hash
        BY <2>1, <2>2, <2>3 DEF EarlierTrees, ClientHandoff
      <3>2. IsFr(h.coin_binding_tag)
        BY <2>1, Junk DEF IsFr
      <3>3. IsFr(h.attested_commitment_sk)
        <4>1. h.client_derivation_proof \in Derivations
          BY <2>1, <2>2, Junk DEF ClientHandoff
        <4>2. PICK s \in Keys, pk \in PublicKeys, q \in Blindings, d \in Coins :
                 h.client_derivation_proof = Proof("sk_prove", SkProve(s, pk, q, d))
          BY <4>1 DEF Derivations
        <4>3. h.client_derivation_proof.public.commitment_sk = h.attested_commitment_sk
          BY <2>1 DEF Proof, HandoffTranscript, ClientTranscript
        <4>4. h.attested_commitment_sk = SkCommitment(s, q)
          BY <4>2, <4>3, DerivationFields
        <4>5. SkCommitment(s, q).hash = "sk-commit" /\ InvalidFr.hash = "not an Fr"
          BY DEF SkCommitment, InvalidFr
        <4> QED BY <4>4, <4>5 DEF IsFr
      <3> QED
        BY <2>1, <3>1, <3>2, <3>3, Junk DEF BuildAccepts, NonProofs
    <2>4. SpendProvable(SpendInput(h)) /\ WellFormed(ProvedBundle(SpendInput(h)))
      <3> DEFINE in == SpendInput(h)
                 out == SpendSplit(h.coin, h.pk, h.nullifier)
      <3>1. /\ in.leaf = h.commitment_hash /\ in.coin_binding_tag = h.coin_binding_tag
            /\ SpendOutputs(in) = out
        BY DEF SpendInput, SpendOutputs
      <3>2. /\ out.coin_commitment = h.commitment_hash
            /\ out.coin_binding_tag = h.coin_binding_tag
            /\ out.pk = h.pk /\ out.nullifier = h.nullifier
        BY <2>1 DEF SpendSplit
      <3>3. SpendProvable(in)
        BY <3>1, <3>2 DEF SpendProvable
      <3>4. /\ ProvedBundle(in).pk = h.pk
            /\ ProvedBundle(in).nullifier = h.nullifier
            /\ ProvedBundle(in).coin_binding_tag = h.coin_binding_tag
            /\ ProvedBundle(in).coin_commitment = h.commitment_hash
            /\ ProvedBundle(in).commitment_sk = h.attested_commitment_sk
            /\ ProvedBundle(in).attestation_proof = h.attestation_proof
            /\ ProvedBundle(in).client_derivation_proof = h.client_derivation_proof
            /\ ProvedBundle(in).spend_proof = Proof("spend_split", out)
        BY <3>1, <3>2 DEF ProvedBundle, SpendInput
      <3>5. out = [pk |-> h.pk, nullifier |-> h.nullifier,
                   coin_binding_tag |-> h.coin_binding_tag,
                   coin_commitment |-> h.commitment_hash]
        BY <2>1 DEF SpendSplit
      <3>6. WellFormed(ProvedBundle(in))
        <4> HIDE DEF in, out
        <4> QED BY <2>1, <3>4, <3>5 DEF WellFormed, HandoffTranscript
      <3> QED BY <3>3, <3>6
    <2>5. ASSUME h.nullifier \in nullifiers
          PROVE  \E i \in DOMAIN history : history[i].commitment = h.commitment_hash
      <3>1. PICK i \in DOMAIN history : history[i].nullifier = h.nullifier
        BY <2>5 DEF IInv, NullifiersOnce
      <3>2. h.nullifier.coin = c /\ h.nullifier.sk = w
        BY <2>1 DEF Nullifier
      <3>3. history[i].commitment = Commitment(c, PublicKey(w))
        BY <3>1, <3>2 DEF IInv, SpendsMatchTheirLeaf
      <3> QED BY <2>1, <3>3
    <2> QED BY <2>3, <2>4, <2>5
  <1> QED
    BY <1>1, InductiveInvariant, PTL

-----------------------------------------------------------------------------
(* Refinement *)

\* The abstract spends, as ImplementsLedger maps them.
AbstractSpends ==
    [i \in DOMAIN history |->
        Commitment(history[i].nullifier.coin, PublicKey(history[i].nullifier.sk))]

\* Appending an admission to the history appends its leaf to the abstract spends.
LEMMA AbstractAppend ==
    ASSUME history \in Seq(Admission), NEW e \in Admission, NEW sk \in Keys, NEW c \in Coins,
           e.nullifier = Nullifier(c, sk), history' = Append(history, e)
    PROVE  AbstractSpends' = Append(AbstractSpends, Commitment(c, PublicKey(sk)))
  <1> DEFINE l == Commitment(c, PublicKey(sk))
             Leaf(a) == Commitment(a.nullifier.coin, PublicKey(a.nullifier.sk))
  <1>1. Leaf(e) = l
    BY DEF Nullifier
  <1>2. AbstractSpends = [i \in 1 .. Len(history) |-> Leaf(history[i])]
    BY DEF AbstractSpends
  <1>3. AbstractSpends' = [i \in 1 .. Len(history) + 1 |-> Leaf(history'[i])]
    BY DEF AbstractSpends
  <1> HIDE DEF l, Leaf
  <1>4. Len(history) \in Nat
    OBVIOUS
  <1>5. AbstractSpends \in Seq({Leaf(history[i]) : i \in 1 .. Len(history)})
        /\ Len(AbstractSpends) = Len(history)
    BY <1>2, <1>4
  <1>6. /\ DOMAIN Append(AbstractSpends, l) = 1 .. Len(history) + 1
        /\ \A i \in 1 .. Len(history) : Append(AbstractSpends, l)[i] = Leaf(history[i])
        /\ Append(AbstractSpends, l)[Len(history) + 1] = l
    BY <1>2, <1>4, <1>5
  <1>7. /\ \A i \in 1 .. Len(history) : history'[i] = history[i]
        /\ history'[Len(history) + 1] = e
    BY AppendElements
  <1>8. Append(AbstractSpends, l) = [i \in 1 .. Len(history) + 1 |-> Append(AbstractSpends, l)[i]]
    <2> DEFINE S == {Leaf(history[i]) : i \in 1 .. Len(history)} \cup {l}
               q == Append(AbstractSpends, l)
    <2>1. AbstractSpends \in Seq(S)
      <3>1. \A i \in 1 .. Len(history) : Leaf(history[i]) \in S
        OBVIOUS
      <3> QED BY <1>2, <1>4, <3>1
    <2>2. l \in S
      OBVIOUS
    <2>3. q \in Seq(S) /\ Len(q) = Len(history) + 1
      <3> HIDE DEF S
      <3> QED BY <1>5, <2>1, <2>2
    <2>4. q = [i \in 1 .. Len(q) |-> q[i]]
      <3> HIDE DEF S, q
      <3> QED BY <2>3
    <2>5. q = [i \in 1 .. Len(history) + 1 |-> q[i]]
      <3>1. 1 .. Len(q) = 1 .. Len(history) + 1
        BY <2>3
      <3> HIDE DEF q
      <3> QED BY <2>4, <3>1, Zenon
    <2> QED BY <2>5
  <1>9. \A i \in 1 .. Len(history) + 1 : Append(AbstractSpends, l)[i] = Leaf(history'[i])
    BY <1>1, <1>4, <1>6, <1>7
  <1> QED
    BY <1>3, <1>8, <1>9 DEF l

\* The split-proving system is a coin ledger: whatever wallets, server and
\* transport do, coins only appear and each is spent at most once.
THEOREM Refinement == Spec => ImplementsLedger
  <1>1. Init => Ledger!Init
    BY DEF Init, Ledger!Init, TreeLeaves
  <1>2. IInv /\ [Next]_vars => [Ledger!Next]_Ledger!vars
    <2> SUFFICES ASSUME IInv, [Next]_vars PROVE [Ledger!Next]_Ledger!vars
      OBVIOUS
    <2> USE DEF Ledger!vars
    <2>0. /\ TypeOK /\ ProvedLeaves /\ ClientProofsAuthorized /\ NullifiersOnce
          /\ SpendsMatchTheirLeaf /\ history \in Seq(Admission)
      BY DEF IInv, TypeOK, Admission
    <2>1. CASE UNCHANGED ledgerVars
      BY <2>1 DEF ledgerVars, TreeLeaves
    <2>2. CASE \E i \in Index, com \in Commitments : Mint(i, com)
      <3>1. PICK i \in Index, com \in Commitments : Mint(i, com)
        BY <2>2
      <3>2. com # Blank
        BY Junk DEF Commitments
      <3>3. TreeLeaves' = TreeLeaves \cup {com}
        BY <2>0, <3>1, <3>2 DEF Mint, TreeLeaves, TypeOK
      <3> QED BY <3>1, <3>3 DEF Mint, Ledger!Next, Ledger!Mint
    <2>3. CASE \/ \E b \in bundles : AdmitSplit(b)
               \/ \E sk \in Keys, c \in Coins : AdmitStock(sk, c)
      <3>1. PICK e \in Admission, sk \in Keys, c \in Coins :
                /\ e.nullifier = Nullifier(c, sk)
                /\ e.commitment = Commitment(c, PublicKey(sk))
                /\ e.commitment \in TreeLeaves
                /\ e.nullifier \notin nullifiers
                /\ history' = Append(history, e)
                /\ tree' = tree
        BY <2>0, <2>3, SpendStep
      <3> DEFINE l == Commitment(c, PublicKey(sk))
      <3>2. AbstractSpends' = Append(AbstractSpends, l)
        BY <2>0, <3>1, AbstractAppend
      <3>3. l \notin {AbstractSpends[i] : i \in DOMAIN AbstractSpends}
        <4> SUFFICES ASSUME NEW i \in DOMAIN history, AbstractSpends[i] = l
                     PROVE  FALSE
          BY DEF AbstractSpends
        <4> DEFINE n == history[i].nullifier
        <4>1. n \in Nullifiers
          <5>1. history[i] \in Admission
            BY <2>0
          <5> QED BY <5>1 DEF Admission
        <4>2. Commitment(n.coin, PublicKey(n.sk)) = Commitment(c, PublicKey(sk))
          BY DEF AbstractSpends
        <4>3. n.coin = c /\ PublicKey(n.sk) = PublicKey(sk)
          BY ONLY <4>2, Injective
        <4>4. n.sk = sk
          BY ONLY <4>3, Injective
        <4>5. n = Nullifier(n.coin, n.sk)
          BY <4>1 DEF Nullifiers, Nullifier
        <4>6. n = e.nullifier
          BY <3>1, <4>3, <4>4, <4>5
        <4> QED BY <2>0, <3>1, <4>6 DEF NullifiersOnce
      <3>4. TreeLeaves' = TreeLeaves
        BY <3>1 DEF TreeLeaves
      <3> QED
        BY <3>1, <3>2, <3>3, <3>4
        DEF Ledger!Next, Ledger!Spend, Ledger!Spent, AbstractSpends
    <2> QED
      BY <2>1, <2>2, <2>3, StepFrame DEF Frame
  <1> QED
    BY <1>1, <1>2, InductiveInvariant, PTL DEF Spec, ImplementsLedger, Ledger!Spec
=============================================================================
