---------------------------- MODULE MCToolStartup -----------------------------
(***************************************************************************)
(* The starts that ToolStartup is checked from: every part of the          *)
(* environment is varied around a working one, together with the parts it  *)
(* is compared with, and every short command line is tried.                *)
(***************************************************************************)
EXTENDS ToolStartup

Numbers  == {"unset", " ", "0", "1", "-1", "x"}
NodeUrls == {"unset", " ", "ws://local", "wss://local", "ws://remote", "wss://remote", "not a url"}
Places   == [direct : {"loads", "absent"}, localDev : {"loads", "broken", "absent"},
             wallet : {"loads", "absent"}]

Here == [direct |-> "loads", localDev |-> "absent", wallet |-> "absent"]

Working == [phrase |-> "valid", account |-> "unset", keyIndex |-> "unset",
            network |-> "undeployed", address |-> "undeployed", txHex |-> "unset",
            proofServer |-> "unset", node |-> "unset", indexerHttp |-> "unset",
            indexerWs |-> "unset", remote |-> FALSE, ledger |-> Here, sdk |-> Here, format |-> Here]

Keys == {[Working EXCEPT !.phrase = p, !.account = a, !.keyIndex = k] :
            p \in {"unset", "invalid", "valid"}, a \in Numbers, k \in Numbers}
Networks == {[Working EXCEPT !.network = n, !.address = a] :
            n \in {"unset", " ", "undeployed", "preview", " preview"},
            a \in {"unset", " ", "undeployed", "preview", " preview"}}
Nodes == {[Working EXCEPT !.node = n, !.indexerHttp = i, !.indexerWs = w, !.remote = r] :
            n \in NodeUrls, i \in {"unset", "http://local", "https://remote", "not a url"},
            w \in {"unset", "wss://local", "wss://remote", "not a url"}, r \in BOOLEAN}
Packages == {[Working EXCEPT !.ledger = l, !.sdk = d, !.format = l] : l, d \in Places}

HelperTokens == {"--tx-hex", "--key-index", "--proof-server-url", "--submit", "--dry-run",
                 "--help", "--what", "tx", "1", "http://local"}
Lines(tokens, n) == UNION {[1..k -> tokens] : k \in 0..n}

Submit == <<"--tx-hex", "tx", "--submit">>
HelperLines == Lines(HelperTokens, 3)
             \cup {<<o, "--dry-run", "--tx-hex", "tx", s>> :
                      o \in HelperTokens, s \in {"--submit", "--key-index"}}
             \cup {Submit \o l : l \in Lines(HelperTokens, 2)}
SubmitLines == {Submit, Submit \o <<"--dry-run">>, Submit \o <<"--key-index", "1">>}

Check == <<"--block-hash", "block", "--inner-tx-hex", "tx">>
VerifierLines == Lines({"--block-hash", "--inner-tx-hex", "--tx-id", "block", " "}, 4)
DecodeLines == Lines({"--address", "--network-id", "undeployed", "preview"}, 4)

MCStarts ==
       [env : Keys \cup Networks \cup Nodes \cup Packages,
        helper : SubmitLines, verifier : {Check}, decode : {<<>>}]
  \cup [env : {Working, [Working EXCEPT !.txHex = "tx", !.proofServer = "http://local"]},
        helper : HelperLines, verifier : {Check}, decode : {<<>>}]
  \cup [env : {Working}, helper : {Submit}, verifier : VerifierLines, decode : {<<>>}]
  \cup [env : {Working}, helper : {Submit}, verifier : {Check}, decode : DecodeLines]

=============================================================================
