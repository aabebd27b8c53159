----------------------------- MODULE SplitSpend -----------------------------
(***************************************************************************)
(* Split proving of a shielded spend: a wallet derives everything that     *)
(* needs its secret key (src/client.rs, src/attestation.rs), a proof       *)
(* server builds and proves the spend without the key (src/server.rs), and *)
(* the patched ledger (external) admits the bundle of three proofs next to *)
(* stock spends of the same coins.                                         *)
(*                                                                         *)
(* Hashes are symbolic: H(x) is a record that holds x, so two hashes are   *)
(* equal only if their arguments are (collision resistance).  A proof is   *)
(* the name of a circuit and the public outputs it was made for; only an   *)
(* action whose witnesses satisfy the circuit makes one (soundness).       *)
(***************************************************************************)
EXTENDS FiniteSets, Naturals, Sequences

CONSTANTS
    Wallets,        \* secret keys held by wallets that run src/client.rs
    OtherClients,   \* secret keys held by any other client of the circuits
    Coins,          \* coin infos: nonce, color and value together
    Blindings,      \* values of the blinding r
    Index,          \* leaf positions of the Merkle tree
    Contracts,      \* contract addresses
    DebugBuild,     \* TRUE iff the debug_assert_eq!s are compiled in
    MaxWire,        \* bound: handoffs ever sent
    MaxBundles      \* bound: no bundle is altered once there are so many

ASSUME KeysAssumption ==
    /\ Wallets \cap OtherClients = {}
    /\ DebugBuild \in BOOLEAN
    /\ MaxWire \in Nat /\ MaxBundles \in Nat

Keys == Wallets \cup OtherClients

-----------------------------------------------------------------------------
(* Hashes *)

PublicKey(sk)               == [hash |-> "pk", sk |-> sk]
ContractAddress(a)          == [hash |-> "contract", address |-> a]
Nullifier(coin, sk)         == [hash |-> "nullifier", coin |-> coin, sk |-> sk]
Commitment(coin, recipient) == [hash |-> "commitment", coin |-> coin,
                                recipient |-> recipient]
SplitNullifier_Own(coin, sk) == [hash |-> "split-nullifier", coin |-> coin, sk |-> sk]
SplitNullifier_OfTheCoinAlone(coin, sk) == Nullifier(coin, CHOOSE w \in Wallets : TRUE)

\* split_nullifier: the canonical one, so that both paths collide.
SplitNullifier(coin, sk)    == Nullifier(coin, sk)
BindingTag(coin, pk)        == [hash |-> "tag", coin |-> coin, pk |-> pk]
SkCommitment(sk, r)         == [hash |-> "sk-commit", sk |-> sk, r |-> r]

Garbled   == [hash |-> "garbled"]      \* 32 bytes that are no hash made here
InvalidFr == [hash |-> "not an Fr"]    \* 32 bytes above the field modulus
ZeroFr    == [hash |-> "zero"]         \* the serde default of a missing C_sk
Blank     == [hash |-> "blank leaf"]

IsFr(bytes) == bytes # InvalidFr

NoContract == [hash |-> "none"]
Addresses  == {ContractAddress(a) : a \in Contracts}

PublicKeys    == {PublicKey(sk) : sk \in Keys}
Nullifiers    == {Nullifier(c, sk) : c \in Coins, sk \in Keys}
Commitments   == {Commitment(c, o) : c \in Coins, o \in PublicKeys \cup Addresses}
SkCommitments == {SkCommitment(sk, r) : sk \in Keys, r \in Blindings}
Tags          == {BindingTag(c, pk) : c \in Coins, pk \in PublicKeys}

-----------------------------------------------------------------------------
(* Public transcripts, and the circuits: the transcript a circuit discloses *)
(* for its witnesses.                                                      *)

AttestationTranscript(pk, csk) == [pk |-> pk, commitment_sk |-> csk]

ClientTranscript(pk, nul, tag, csk) ==
    [pk |-> pk, nullifier |-> nul, coin_binding_tag |-> tag, commitment_sk |-> csk]

WalletAttest(sk, r) == AttestationTranscript(PublicKey(sk), SkCommitment(sk, r))

SkProve_UnopenedCommitment(sk, pk, r, coin) ==
    ClientTranscript(pk, SplitNullifier(coin, sk), BindingTag(coin, pk),
                     SkCommitment(pk.sk, r))

SkProve_UnusedKey(sk, pk, r, coin) ==
    ClientTranscript(pk, SplitNullifier(coin, pk.sk), BindingTag(coin, pk),
                     SkCommitment(pk.sk, r))

SkProve(sk, pk, r, coin) ==
    ClientTranscript(pk, SplitNullifier(coin, sk), BindingTag(coin, pk),
                     SkCommitment(sk, r))

SpendSplit(coin, pk, nul) ==
    [pk               |-> pk,
     nullifier        |-> nul,
     coin_binding_tag |-> BindingTag(coin, pk),
     coin_commitment  |-> Commitment(coin, pk)]

Proof(circuit, public) == [circuit |-> circuit, public |-> public]

NoProof    == [circuit |-> "none"]     \* the field is None
BadHex     == [circuit |-> "bad hex"]  \* the field does not decode
EmptyProof == [circuit |-> "empty"]    \* decodes, verifies nothing
NonProofs  == {NoProof, BadHex, EmptyProof}

Attestations == {Proof("wallet_attest", WalletAttest(sk, r)) :
                    sk \in Keys, r \in Blindings}
Derivations  == {Proof("sk_prove", SkProve(sk, pk, r, c)) :
                    sk \in Keys, pk \in PublicKeys, r \in Blindings, c \in Coins}
SpendProofs  == {Proof("spend_split", SpendSplit(c, pk, n)) :
                    c \in Coins, pk \in PublicKeys, n \in Nullifiers \cup {Garbled}}

-----------------------------------------------------------------------------
(* Data that crosses a boundary *)

ClientHandoff ==
    [coin_binding_tag        : Tags \cup {Garbled, InvalidFr},
     nullifier               : Nullifiers \cup {Garbled},
     pk                      : PublicKeys \cup {Garbled},
     commitment_hash         : Commitments \cup {Garbled},
     attested_commitment_sk  : SkCommitments \cup {ZeroFr, InvalidFr},
     attestation_proof       : Attestations \cup NonProofs,
     coin                    : Coins,
     mt_index                : Index,
     contract_address        : Addresses \cup {NoContract},
     client_derivation_proof : Derivations \cup NonProofs]

WalletAttestation ==
    [pk                : PublicKeys,
     commitment_sk     : SkCommitments,
     blinding          : Blindings,
     attestation_proof : Attestations]

NotRegistered == [blinding |-> "none"]
NoSession     == [pk |-> "none"]

\* Input<ProofPreimage> after Input::new_split.
SplitInput ==
    [coin                    : Coins,
     leaf                    : Commitments,
     nullifier               : Nullifiers \cup {Garbled},
     pk                      : PublicKeys \cup {Garbled},
     coin_binding_tag        : Tags \cup {Garbled},
     commitment_sk           : SkCommitments \cup {ZeroFr},
     client_derivation_proof : Derivations \cup {EmptyProof},
     attestation_proof       : Attestations \cup {EmptyProof}]

\* The zswap input a node receives, with its SplitProofBundle.
SplitBundle ==
    [nullifier               : Nullifiers \cup {Garbled},
     pk                      : PublicKeys \cup {Garbled},
     coin_commitment         : Commitments \cup {Garbled},
     coin_binding_tag        : Tags \cup {Garbled},
     commitment_sk           : SkCommitments \cup {ZeroFr},
     spend_proof             : SpendProofs,
     client_derivation_proof : Derivations \cup {EmptyProof},
     attestation_proof       : Attestations \cup {EmptyProof}]

VARIABLES
    attestation,    \* per wallet, the WalletAttestation it keeps
    session,        \* per wallet, the handoff of the spend it is preparing
    wire,           \* handoffs sent; one may be received any number of times
    inputs,         \* split inputs built and not yet proved, or proved already
    bundles,        \* proved split inputs submitted to the ledger
    tree,           \* the ledger's Merkle tree: position -> commitment
    nullifiers,     \* the ledger's nullifier set
    history,        \* the spends admitted, in order
    authorized      \* history variable: (key, coin) its holder ever signed off

vars == <<attestation, session, wire, inputs, bundles, tree, nullifiers, history,
          authorized>>
walletVars == <<attestation, session, authorized>>
ledgerVars == <<tree, nullifiers, history>>

Init ==
    /\ attestation = [w \in Wallets |-> NotRegistered]
    /\ session = [w \in Wallets |-> NoSession]
    /\ wire = {}
    /\ inputs = {}
    /\ bundles = {}
    /\ tree = [i \in Index |-> Blank]
    /\ nullifiers = {}
    /\ history = <<>>
    /\ authorized = {}

-----------------------------------------------------------------------------
(* Wallet: src/attestation.rs and src/client.rs *)

\* register_wallet: a random blinding, both outputs, and a proof of them.  The
\* caller keeps the result in place of any earlier one.
RegisterWallet(w, r) ==
    LET out == WalletAttest(w, r) IN
    /\ attestation' = [attestation EXCEPT ![w] =
            [pk                |-> out.pk,
             commitment_sk     |-> out.commitment_sk,
             blinding          |-> r,
             attestation_proof |-> Proof("wallet_attest", out)]]
    /\ UNCHANGED <<session, wire, inputs, bundles, ledgerVars, authorized>>

\* client_prepare_with_blinding.  The commitment follows the sender evidence
\* (contract or user); the nullifier is always the user's.
PrepareHandoff(sk, coin, i, contract, r) ==
    [coin_binding_tag        |-> BindingTag(coin, PublicKey(sk)),
     nullifier               |-> SplitNullifier(coin, sk),
     pk                      |-> PublicKey(sk),
     commitment_hash         |-> Commitment(coin, IF contract = NoContract
                                                  THEN PublicKey(sk)
                                                  ELSE contract),
     attested_commitment_sk  |-> WalletAttest(sk, r).commitment_sk,
     attestation_proof       |-> NoProof,
     coin                    |-> coin,
     mt_index                |-> i,
     contract_address        |-> contract,
     client_derivation_proof |-> NoProof]

\* client_prepare, which draws r itself, or a caller's own blinding.
ClientPrepare(w, coin, i, contract) ==
    /\ session[w] = NoSession
    /\ \E r \in Blindings :
          session' = [session EXCEPT ![w] = PrepareHandoff(w, coin, i, contract, r)]
    /\ UNCHANGED <<attestation, wire, inputs, bundles, ledgerVars, authorized>>

ClientPrepareWithAttestation_KeepsOwnSkCommitment(w, v, coin, i, contract) ==
    /\ session[w] = NoSession
    /\ attestation[v] # NotRegistered
    /\ session' = [session EXCEPT ![w] =
          [PrepareHandoff(w, coin, i, contract, attestation[v].blinding)
             EXCEPT !.attestation_proof = attestation[v].attestation_proof]]
    /\ UNCHANGED <<attestation, wire, inputs, bundles, ledgerVars, authorized>>

\* client_prepare_with_attestation, with the attestation of w or, if the
\* wallet's state is inconsistent, that of another key v.  A debug build panics
\* on the inconsistency; a release build stamps what it was given.
ClientPrepareWithAttestation(w, v, coin, i, contract) ==
    /\ session[w] = NoSession
    /\ attestation[v] # NotRegistered
    /\ LET h == PrepareHandoff(w, coin, i, contract, attestation[v].blinding) IN
       /\ DebugBuild => /\ h.attested_commitment_sk = attestation[v].commitment_sk
                        /\ h.pk = attestation[v].pk
       /\ session' = [session EXCEPT ![w] =
             [h EXCEPT !.attested_commitment_sk = attestation[v].commitment_sk,
                       !.attestation_proof = attestation[v].attestation_proof]]
    /\ UNCHANGED <<attestation, wire, inputs, bundles, ledgerVars, authorized>>

\* client_derivation_public_transcript_inputs
HandoffTranscript(h) ==
    ClientTranscript(h.pk, h.nullifier, h.coin_binding_tag, h.attested_commitment_sk)

ProveDerivation_UncheckedWitness(w, v) ==
    /\ session[w] # NoSession
    /\ LET h == session[w] IN
       session' = [session EXCEPT ![w].client_derivation_proof =
          Proof("sk_prove", HandoffTranscript(h))]
    /\ UNCHANGED <<attestation, wire, inputs, bundles, ledgerVars, authorized>>

\* build_client_derivation_preimage and client_prove_derivation, with the
\* blinding now stored for v: the prover fails unless the circuit's outputs
\* are the transcript taken from the handoff.
ProveDerivation(w, v) ==
    /\ session[w] # NoSession
    /\ attestation[v] # NotRegistered
    /\ LET h   == session[w]
           out == SkProve(w, h.pk, attestation[v].blinding, h.coin)
       IN /\ IsFr(h.coin_binding_tag) /\ IsFr(h.attested_commitment_sk)
          /\ out = HandoffTranscript(h)
          /\ session' = [session EXCEPT ![w].client_derivation_proof =
                                             Proof("sk_prove", out)]
          /\ authorized' = authorized \cup {<<w, h.coin>>}
    /\ UNCHANGED <<attestation, wire, inputs, bundles, ledgerVars>>

\* The handoff crosses to the server, with or without a client proof.
Send(w) ==
    /\ session[w] # NoSession
    /\ Cardinality(wire) < MaxWire
    /\ wire' = wire \cup {session[w]}
    /\ session' = [session EXCEPT ![w] = NoSession]
    /\ UNCHANGED <<attestation, inputs, bundles, ledgerVars, authorized>>

\* The prover failed, or the wallet restarted: only the attestation survives.
Abandon(w) ==
    /\ session[w] # NoSession
    /\ session' = [session EXCEPT ![w] = NoSession]
    /\ UNCHANGED <<attestation, wire, inputs, bundles, ledgerVars, authorized>>

\* A client that is not src/client.rs: all that binds it is the circuit, which
\* takes pk as a witness.  It may carry any attestation it has seen.
OtherHandoff(sk, pk, r, coin, i, att) ==
    /\ Cardinality(wire) < MaxWire
    /\ wire' = wire \cup
         {[coin_binding_tag        |-> BindingTag(coin, pk),
           nullifier               |-> SkProve(sk, pk, r, coin).nullifier,
           pk                      |-> pk,
           commitment_hash         |-> Commitment(coin, pk),
           attested_commitment_sk  |-> SkProve(sk, pk, r, coin).commitment_sk,
           attestation_proof       |-> att,
           coin                    |-> coin,
           mt_index                |-> i,
           contract_address        |-> NoContract,
           client_derivation_proof |-> Proof("sk_prove", SkProve(sk, pk, r, coin))]}
    /\ authorized' = authorized \cup {<<sk, coin>>}
    /\ UNCHANGED <<attestation, session, inputs, bundles, ledgerVars>>

SeenAttestations(sk, r) ==
    {Proof("wallet_attest", WalletAttest(sk, r))} \cup {h.attestation_proof : h \in wire}

-----------------------------------------------------------------------------
(* Transport: a handoff arrives with one field damaged, defaulted by serde *)
(* for want of it, or taken from another handoff.                          *)

AlteredHandoffs(h) ==
    LET From(others, field) == others \cup field IN
    {[h EXCEPT !.coin_binding_tag = v] :
        v \in From({g.coin_binding_tag : g \in wire}, {Garbled, InvalidFr})}
    \cup {[h EXCEPT !.nullifier = v] :
        v \in From({g.nullifier : g \in wire}, {Garbled})}
    \cup {[h EXCEPT !.pk = v] : v \in From({g.pk : g \in wire}, {Garbled})}
    \cup {[h EXCEPT !.commitment_hash = v] :
        v \in From({g.commitment_hash : g \in wire}, {Garbled})}
    \cup {[h EXCEPT !.attested_commitment_sk = v] :
        v \in From({g.attested_commitment_sk : g \in wire}, {ZeroFr, InvalidFr})}
    \cup {[h EXCEPT !.attestation_proof = v] :
        v \in From({g.attestation_proof : g \in wire}, NonProofs)}
    \cup {[h EXCEPT !.client_derivation_proof = v] :
        v \in From({g.client_derivation_proof : g \in wire}, NonProofs)}
    \cup {[h EXCEPT !.coin = v] : v \in Coins}
    \cup {[h EXCEPT !.contract_address = v] : v \in Addresses \cup {NoContract}}

AlterHandoff ==
    /\ Cardinality(wire) < MaxWire
    /\ \E h \in wire : \E g \in AlteredHandoffs(h) : wire' = wire \cup {g}
    /\ UNCHANGED <<walletVars, inputs, bundles, ledgerVars>>

-----------------------------------------------------------------------------
(* Proof server: src/server.rs *)

\* The Merkle tree comes with each request; it is the ledger's of some earlier
\* time, whose positions are filled in any order (the node accepts no other root).
EarlierTrees == {[i \in Index |-> IF i \in S THEN tree[i] ELSE Blank] : S \in SUBSET Index}

\* build_spend_preimage: its early returns, then Input::new_split (external),
\* which wants the commitment at its position in the tree.
BuildAccepts(h, t) ==
    /\ h.contract_address = NoContract
    /\ IsFr(h.coin_binding_tag)
    /\ IsFr(h.attested_commitment_sk)
    /\ h.client_derivation_proof \notin {BadHex, NoProof}
    /\ h.attestation_proof \notin {BadHex, NoProof}
    /\ t[h.mt_index] = h.commitment_hash

SpendInput(h) ==
    [coin                    |-> h.coin,
     leaf                    |-> h.commitment_hash,
     nullifier               |-> h.nullifier,
     pk                      |-> h.pk,
     coin_binding_tag        |-> h.coin_binding_tag,
     commitment_sk           |-> h.attested_commitment_sk,
     client_derivation_proof |-> h.client_derivation_proof,
     attestation_proof       |-> h.attestation_proof]

BuildSpendPreimage(h, t) ==
    /\ BuildAccepts(h, t)
    /\ inputs' = inputs \cup {SpendInput(h)}
    /\ UNCHANGED <<walletVars, wire, bundles, ledgerVars>>

\* The split prover (external): the circuit recomputes the commitment from the
\* coin and pk, asserts that it is the leaf of the path, and its outputs must be
\* the declared ones.
SpendOutputs(in) == SpendSplit(in.coin, in.pk, in.nullifier)

SpendProvable(in) ==
    /\ SpendOutputs(in).coin_commitment = in.leaf
    /\ SpendOutputs(in).coin_binding_tag = in.coin_binding_tag

ProvedBundle(in) ==
    [nullifier               |-> in.nullifier,
     pk                      |-> in.pk,
     coin_commitment         |-> SpendOutputs(in).coin_commitment,
     coin_binding_tag        |-> in.coin_binding_tag,
     commitment_sk           |-> in.commitment_sk,
     spend_proof             |-> Proof("spend_split", SpendOutputs(in)),
     client_derivation_proof |-> in.client_derivation_proof,
     attestation_proof       |-> in.attestation_proof]

ProveSpend(in) ==
    /\ SpendProvable(in)
    /\ bundles' = bundles \cup {ProvedBundle(in)}
    /\ UNCHANGED <<walletVars, wire, inputs, ledgerVars>>

\* Between the server and the node, one public value of a bundle is damaged or
\* taken from another bundle, or its proofs are.
AlteredBundles(b) ==
    {[b EXCEPT !.nullifier = v] : v \in {Garbled} \cup {a.nullifier : a \in bundles}}
    \cup {[b EXCEPT !.pk = v] : v \in {Garbled} \cup {a.pk : a \in bundles}}
    \cup {[b EXCEPT !.coin_commitment = v] :
        v \in {Garbled} \cup {a.coin_commitment : a \in bundles}}
    \cup {[b EXCEPT !.commitment_sk = v] :
        v \in {ZeroFr} \cup {a.commitment_sk : a \in bundles}}
    \cup {[b EXCEPT !.coin_binding_tag = v] :
        v \in {Garbled} \cup {a.coin_binding_tag : a \in bundles}}
    \cup {[b EXCEPT !.spend_proof = v] : v \in {a.spend_proof : a \in bundles}}
    \cup {[b EXCEPT !.attestation_proof = v] :
        v \in {EmptyProof} \cup {a.attestation_proof : a \in bundles}}
    \cup {[b EXCEPT !.client_derivation_proof = v] :
        v \in {EmptyProof} \cup {a.client_derivation_proof : a \in bundles}}

AlterBundle ==
    /\ Cardinality(bundles) < MaxBundles
    /\ \E b \in bundles : \E a \in AlteredBundles(b) : bundles' = bundles \cup {a}
    /\ UNCHANGED <<walletVars, wire, inputs, ledgerVars>>

-----------------------------------------------------------------------------
(* Ledger (external): what the patched node checks, as src/server.rs, the  *)
(* circuits and docs/submodule-changes.md use it.                          *)

\* The three proofs verify for the values the bundle carries.  Its Merkle root
\* is that of an earlier tree, which the ledger still accepts.
WellFormed(b) ==
    /\ b.attestation_proof =
         Proof("wallet_attest", AttestationTranscript(b.pk, b.commitment_sk))
    /\ b.client_derivation_proof =
         Proof("sk_prove", ClientTranscript(b.pk, b.nullifier, b.coin_binding_tag,
                                            b.commitment_sk))
    /\ b.spend_proof =
         Proof("spend_split", [pk               |-> b.pk,
                               nullifier        |-> b.nullifier,
                               coin_binding_tag |-> b.coin_binding_tag,
                               coin_commitment  |-> b.coin_commitment])

\* One nullifier set for both paths.
ApplySpend(path, nul, com) ==
    /\ nul \notin nullifiers
    /\ nullifiers' = nullifiers \cup {nul}
    /\ history' = Append(history, [path |-> path, nullifier |-> nul, commitment |-> com])
    /\ UNCHANGED tree

AdmitSplit(b) ==
    /\ WellFormed(b)
    /\ ApplySpend("split", b.nullifier, b.coin_commitment)
    /\ UNCHANGED <<walletVars, wire, inputs, bundles>>

\* A stock spend of a user's coin: one circuit that holds the key.
AdmitStock(sk, coin) ==
    /\ \E i \in Index : tree[i] = Commitment(coin, PublicKey(sk))
    /\ ApplySpend("stock", Nullifier(coin, sk), Commitment(coin, PublicKey(sk)))
    /\ authorized' = authorized \cup {<<sk, coin>>}
    /\ UNCHANGED <<attestation, session, wire, inputs, bundles>>

\* A coin is received: its commitment takes a free position.
Mint(i, com) ==
    /\ tree[i] = Blank
    /\ tree' = [tree EXCEPT ![i] = com]
    /\ UNCHANGED <<walletVars, wire, inputs, bundles, nullifiers, history>>

-----------------------------------------------------------------------------
WalletStep(w) ==
    \/ \E r \in Blindings : RegisterWallet(w, r)
    \/ \E c \in Coins, i \in Index, a \in Addresses \cup {NoContract} :
          \/ ClientPrepare(w, c, i, a)
          \/ \E v \in Wallets : ClientPrepareWithAttestation(w, v, c, i, a)
    \/ \E v \in Wallets : ProveDerivation(w, v)
    \/ Send(w)
    \/ Abandon(w)

OtherClientStep(sk) ==
    \E pk \in PublicKeys, r \in Blindings, c \in Coins, i \in Index :
        \E att \in SeenAttestations(sk, r) : OtherHandoff(sk, pk, r, c, i, att)

ServerBuild == \E h \in wire : \E t \in EarlierTrees : BuildSpendPreimage(h, t)
ServerProve == \E in \in inputs : ProveSpend(in)
LedgerAdmit == \E b \in bundles : AdmitSplit(b)

Next ==
    \/ \E w \in Wallets : WalletStep(w)
    \/ \E sk \in OtherClients : OtherClientStep(sk)
    \/ AlterHandoff
    \/ AlterBundle
    \/ ServerBuild
    \/ ServerProve
    \/ LedgerAdmit
    \/ \E sk \in Keys, c \in Coins : AdmitStock(sk, c)
    \/ \E i \in Index, com \in Commitments : Mint(i, com)

Spec == Init /\ [][Next]_vars

-----------------------------------------------------------------------------
(* Properties *)

\* Every variable has its type; in particular every proof anywhere is one its
\* circuit can make.
TypeOK ==
    /\ attestation \in [Wallets -> WalletAttestation \cup {NotRegistered}]
    /\ session \in [Wallets -> ClientHandoff \cup {NoSession}]
    /\ wire \subseteq ClientHandoff
    /\ inputs \subseteq SplitInput
    /\ bundles \subseteq SplitBundle
    /\ tree \in [Index -> Commitments \cup {Blank}]
    /\ nullifiers \subseteq Nullifiers
    /\ history \in Seq([path : {"split", "stock"}, nullifier : Nullifiers,
                        commitment : Commitments])
    /\ authorized \subseteq Keys \X Coins

TreeLeaves == {tree[i] : i \in Index} \ {Blank}

\* Each spend of either path consumes the leaf its nullifier belongs to: the
\* commitment it names is in the tree and is that of the very (coin, sk) the
\* nullifier was derived from.  This is what the three proofs of a bundle are
\* for: pk = H(sk), C_sk = H(sk, r) and nullifier = H(coin, sk) share one sk.
SpendsMatchTheirLeaf ==
    \A i \in DOMAIN history :
        LET s == history[i] IN
        /\ s.commitment = Commitment(s.nullifier.coin, PublicKey(s.nullifier.sk))
        /\ s.commitment \in TreeLeaves

\* No coin is spent twice, also when one spend is split and the other stock
\* (split_nullifier is the canonical nullifier).
NoDoubleSpend ==
    \A i, j \in DOMAIN history :
        history[i].commitment = history[j].commitment => i = j

\* A coin is spent only after the holder of its key made a proof for that coin
\* with that key: neither the proof server nor the transport, whatever they
\* mix up, moves a coin on their own.
SpendsAuthorized ==
    \A i \in DOMAIN history :
        <<history[i].nullifier.sk, history[i].nullifier.coin>> \in authorized

\* A handoff that got its client proof also passes the node's cross-check with
\* the attestation it carries: a wallet that registered again, or picked
\* another key's attestation, after preparing never completes a handoff the
\* node would refuse.
ProvedHandoffIsConsistent ==
    \A w \in Wallets :
        LET h == session[w] IN
        /\ h # NoSession
        /\ h.client_derivation_proof # NoProof
        /\ h.attestation_proof # NoProof
        => h.attestation_proof =
             Proof("wallet_attest", AttestationTranscript(h.pk, h.attested_commitment_sk))

\* A complete handoff of w for coin c, unaltered, whose mt_index is right.
HonestHandoff(h, w, c) ==
    /\ h.nullifier = Nullifier(c, w)
    /\ h.pk = PublicKey(w)
    /\ h.coin = c
    /\ h.coin_binding_tag = BindingTag(c, h.pk)
    /\ h.contract_address = NoContract
    /\ tree[h.mt_index] = Commitment(c, h.pk)
    /\ h.commitment_hash = tree[h.mt_index]
    /\ h.attestation_proof =
         Proof("wallet_attest", AttestationTranscript(h.pk, h.attested_commitment_sk))
    /\ h.client_derivation_proof = Proof("sk_prove", HandoffTranscript(h))

\* What a wallet completes is honest as soon as its position is right: whatever
\* attestation it picked, and however often it registered between the calls of
\* client_prepare_with_attestation and client_prove_derivation, its tag,
\* nullifier, key, C_sk and both proofs are of one key and one coin.
CompletedHandoffIsHonest ==
    \A w \in Wallets :
        LET h == session[w] IN
        /\ h # NoSession
        /\ h.client_derivation_proof # NoProof
        /\ h.attestation_proof # NoProof
        /\ h.contract_address = NoContract
        /\ tree[h.mt_index] = h.commitment_hash
        => HonestHandoff(h, w, h.coin)

\* Nothing down the line refuses an honest handoff: not the server with any tree
\* that holds the leaf, not the split prover, not the three-proof check of the
\* node; and the nullifier set holds its nullifier only if the very coin is
\* spent.  No other wallet, handoff or bundle can bar the way of a coin.
HonestHandoffIsSpendable ==
    \A w \in Wallets, c \in Coins, h \in wire :
        HonestHandoff(h, w, c) =>
            /\ \A t \in EarlierTrees : t[h.mt_index] # Blank => BuildAccepts(h, t)
            /\ SpendProvable(SpendInput(h))
            /\ WellFormed(ProvedBundle(SpendInput(h)))
            /\ h.nullifier \in nullifiers =>
                  \E i \in DOMAIN history : history[i].commitment = h.commitment_hash

\* The ledger with split spends is still a CoinLedger.
Ledger == INSTANCE CoinLedger WITH
    Leaves <- Commitments,
    leaves <- TreeLeaves,
    spends <- [i \in DOMAIN history |->
                  Commitment(history[i].nullifier.coin,
                             PublicKey(history[i].nullifier.sk))]
ImplementsLedger == Ledger!Spec

-----------------------------------------------------------------------------
(* The inductive invariant behind the safety properties *)

\* What the split prover was given, and what it proved, is a leaf.
ProvedLeaves ==
    /\ \A in \in inputs : in.leaf \in TreeLeaves
    /\ \A b \in bundles : b.spend_proof.public.coin_commitment \in TreeLeaves

\* Whoever holds a client proof, the holder of its key made it.
SignedOff(proof) ==
    proof \in Derivations =>
        <<proof.public.nullifier.sk, proof.public.nullifier.coin>> \in authorized
ClientProofsAuthorized ==
    /\ \A w \in Wallets : session[w] # NoSession =>
          SignedOff(session[w].client_derivation_proof)
    /\ \A h \in wire : SignedOff(h.client_derivation_proof)
    /\ \A in \in inputs : SignedOff(in.client_derivation_proof)
    /\ \A b \in bundles : SignedOff(b.client_derivation_proof)

\* The nullifier set is that of the history, which has no nullifier twice.
NullifiersOnce ==
    /\ nullifiers = {history[i].nullifier : i \in DOMAIN history}
    /\ \A i, j \in DOMAIN history :
          history[i].nullifier = history[j].nullifier => i = j

\* A session is of its wallet's key and of one coin, its C_sk is that of the
\* attestation it carries, and its client proof, once there, is for its own
\* public values.
Own(h, w) ==
    /\ h.pk = PublicKey(w)
    /\ h.nullifier = SplitNullifier(h.coin, w)
    /\ h.coin_binding_tag = BindingTag(h.coin, h.pk)
    /\ h.commitment_hash = Commitment(h.coin, IF h.contract_address = NoContract
                                              THEN h.pk ELSE h.contract_address)
    /\ h.attestation_proof # NoProof =>
         /\ h.attestation_proof \in Attestations
         /\ h.attestation_proof.public.commitment_sk = h.attested_commitment_sk
    /\ h.client_derivation_proof # NoProof =>
         /\ h.client_derivation_proof \in Derivations
         /\ h.client_derivation_proof = Proof("sk_prove", HandoffTranscript(h))
SessionsAreOwn == \A w \in Wallets : session[w] # NoSession => Own(session[w], w)
AttestationsAreOwn ==
    \A w \in Wallets : attestation[w] # NotRegistered =>
        attestation[w].attestation_proof.public.commitment_sk =
            attestation[w].commitment_sk

\* The ledger's safety is inductive together with where its proofs come from:
\* the leaves, the client proofs and the sessions they were made in.
IInv ==
    /\ TypeOK
    /\ ProvedLeaves
    /\ ClientProofsAuthorized
    /\ NullifiersOnce
    /\ AttestationsAreOwn
    /\ SessionsAreOwn
    /\ SpendsMatchTheirLeaf
    /\ SpendsAuthorized

=============================================================================
