----------------------------- MODULE ToolStartup ------------------------------
(***************************************************************************)
(* How the four command line tools of tools/ start from one environment:   *)
(* derive_midnight_zswap_seed, decode_midnight_shielded_address,           *)
(* preview_balance_submit_split_tx up to the start of its wallet, and      *)
(* preview_verify_onchain up to its connection.  Each reads the            *)
(* environment and its command line for itself, with its own defaults and  *)
(* its own parser, and they must still come to the same wallet key, the    *)
(* same network and the same node.  They share nothing else, so the model  *)
(* runs them one after the other, and a tool that fails stops none of the  *)
(* others.                                                                 *)
(***************************************************************************)
EXTENDS Integers, Sequences, FiniteSets

CONSTANT
    Starts      \* environments and command lines to start from

ASSUME StartsAssumption ==
    \A s \in Starts : s.helper \in Seq(STRING) /\ s.verifier \in Seq(STRING)

VARIABLES
    start,      \* the environment and the command lines
    at,         \* how far each tool has come
    rest,       \* the tokens its parser has not read
    args,       \* what its parser has read
    path,       \* account and index of the Zswap key it derived
    network,    \* the network it works for
    node        \* the node it connects to

vars == <<start, at, rest, args, path, network, node>>

Tools == {"seed", "decode", "helper", "verifier"}
env   == start.env

-----------------------------------------------------------------------------
(* Texts.  "" is also a variable that is not set; a text in front of which a *)
(* space stands is not yet trimmed.                                          *)

Unset == "unset"
Trim(text) == CASE text = " " -> "" [] text = " preview" -> "preview" [] OTHER -> text

\* process.env[name] ?? fallback
Given(value, fallback) == IF value = Unset THEN fallback ELSE value

\* envValue: the trimmed value, or the fallback for a blank one.
EnvValue_BlankKept(value, fallback) == Trim(Given(value, fallback))
EnvValue_NotTrimmed(value, fallback) ==
    IF value = Unset \/ Trim(value) = "" THEN fallback ELSE value
EnvValue(value, fallback) ==
    IF value = Unset \/ Trim(value) = "" THEN fallback ELSE Trim(value)

\* Number.parseInt, with -1 for NaN: both are refused wherever it is used.
ParseInt(text) == CASE text = "0" -> 0 [] text = "1" -> 1 [] OTHER -> -1

\* URLs the tools can be given, by what their checks tell apart.
LocalUrls == {"ws://local", "wss://local", "http://local"}
Urls      == LocalUrls \cup {"ws://remote", "wss://remote", "https://remote"}
Wss       == {"wss://local", "wss://remote"}
Ws        == {"ws://local", "ws://remote"}

\* assertPatchedStackUrlAllowed and assertNodeUrlAllowed
PatchedStackUrlAllowed(url) == url \in Urls /\ (url \in LocalUrls \/ env.remote)
NodeUrlAllowed(url) == url \in Wss \/ (url \in LocalUrls /\ url \in Ws)

DefaultNode == "ws://local"

\* importPackage: a package is installed for the tool itself, in the local
\* network's node_modules, or in a wallet's; the first that is there is used,
\* and one that does not load is not made up for by the next.
Imported(package) ==
    \/ package.direct = "loads"
    \/ package.localDev = "loads"
    \/ package.localDev = "absent" /\ package.wallet = "loads"

\* A tool comes to a point or ends.
Goes(tool, step) == at' = [at EXCEPT ![tool] = step]
Comes(tool, ok, step) == Goes(tool, IF ok THEN step ELSE "failed")

\* The tools before it have ended.
Ends   == {"failed", "printed", "help", "dry run", "started", "connected"}
Turn(tool) == CASE tool = "seed" -> TRUE
                [] tool = "decode" -> at["seed"] \in Ends
                [] tool = "helper" -> at["decode"] \in Ends
                [] tool = "verifier" -> at["helper"] \in Ends

-----------------------------------------------------------------------------
(* derive_midnight_zswap_seed and decode_midnight_shielded_address           *)

SeedIndex == LET raw == Trim(Given(env.keyIndex, "")) IN
             ParseInt(IF raw = "" THEN "0" ELSE raw)
SeedAccount == LET raw == Trim(Given(env.account, "")) IN
               ParseInt(IF raw = "" THEN "0" ELSE raw)

\* The script has no function: it checks, derives and prints.
DeriveSeed ==
    LET ok == /\ env.sdk.direct = "loads"
              /\ env.phrase = "valid"
              /\ SeedAccount >= 0 /\ SeedIndex >= 0
    IN
    /\ at["seed"] = "begins"
    /\ Comes("seed", ok, "printed")
    /\ path' = IF ok THEN [path EXCEPT !["seed"] = <<SeedAccount, SeedIndex>>] ELSE path
    /\ UNCHANGED <<start, rest, args, network, node>>

\* argValue: what follows the first occurrence.
ArgValue(name, fallback) ==
    LET line  == start.decode
        found == {i \in DOMAIN line : line[i] = name}
    IN
    IF found = {} THEN fallback
    ELSE LET first == CHOOSE i \in found : \A j \in found : i <= j
         IN  IF first < Len(line) THEN line[first + 1] ELSE ""

\* An address is named for the network it is encoded for; the codec (external)
\* refuses the address of another one.
DecodeAddress ==
    LET address == Trim(ArgValue("--address", Given(env.address, "")))
        net     == Trim(ArgValue("--network-id", Given(env.network, "preview")))
        ok      == /\ address # "" /\ net # ""
                   /\ Imported(env.format)
                   /\ address = net
    IN
    /\ at["decode"] = "begins" /\ Turn("decode")
    /\ Comes("decode", ok, "printed")
    /\ network' = IF ok THEN [network EXCEPT !["decode"] = net] ELSE network
    /\ UNCHANGED <<start, rest, args, path, node>>

-----------------------------------------------------------------------------
(* preview_balance_submit_split_tx                                           *)

\* argv[++i] ?? ''
Value(tokens)  == IF Len(tokens) > 1 THEN tokens[2] ELSE ""
Beyond(tokens) == SubSeq(tokens, 3, Len(tokens))

\* Here a blank index is not the default.
HelperKeyIndex_OtherDefault == ParseInt(Given(env.keyIndex, "1"))
HelperKeyIndex == ParseInt(Given(env.keyIndex, "0"))

HelperBegins ==
    /\ at["helper"] = "begins" /\ Turn("helper")
    /\ args' = [txHex          |-> Given(env.txHex, ""),
                keyIndex       |-> HelperKeyIndex,
                proofServerUrl |-> Given(env.proofServer, ""),
                submit         |-> FALSE,
                dryRun         |-> FALSE]
    /\ rest' = start.helper
    /\ Goes("helper", "parsing")
    /\ UNCHANGED <<start, path, network, node>>

\* One turn of the loop of parseArgs, and what follows the last.
ParseHelperArgument ==
    /\ at["helper"] = "parsing" /\ rest # <<>>
    /\ LET arg == Head(rest)  value == Value(rest) IN
       \/ /\ arg = "--tx-hex"
          /\ args' = [args EXCEPT !.txHex = value]
          /\ rest' = Beyond(rest) /\ UNCHANGED at
       \/ /\ arg = "--key-index"
          /\ args' = [args EXCEPT !.keyIndex = ParseInt(value)]
          /\ rest' = Beyond(rest) /\ UNCHANGED at
       \/ /\ arg = "--proof-server-url"
          /\ args' = [args EXCEPT !.proofServerUrl = value]
          /\ rest' = Beyond(rest) /\ UNCHANGED at
       \/ /\ arg = "--submit"
          /\ args' = [args EXCEPT !.submit = TRUE]
          /\ rest' = Tail(rest) /\ UNCHANGED at
       \/ /\ arg = "--dry-run"
          /\ args' = [args EXCEPT !.dryRun = TRUE]
          /\ rest' = Tail(rest) /\ UNCHANGED at
       \/ /\ arg = "--help"
          /\ Goes("helper", "help") /\ UNCHANGED <<rest, args>>
       \/ /\ arg \notin {"--tx-hex", "--key-index", "--proof-server-url",
                         "--submit", "--dry-run", "--help"}
          /\ Goes("helper", "failed") /\ UNCHANGED <<rest, args>>
    /\ UNCHANGED <<start, path, network, node>>

HelperParsed ==
    /\ at["helper"] = "parsing" /\ rest = <<>>
    /\ Comes("helper", args.keyIndex >= 0, "loading")
    /\ UNCHANGED <<start, rest, args, path, network, node>>

\* The ledger package, the transaction, and the end of a dry run.
LoadTransaction ==
    /\ at["helper"] = "loading"
    /\ Comes("helper", Imported(env.ledger) /\ args.txHex = "tx",
                       IF args.dryRun THEN "dry run" ELSE "deriving")
    /\ UNCHANGED <<start, rest, args, path, network, node>>

\* The wallet packages and deriveKeys.
DeriveKeys ==
    LET account == ParseInt(EnvValue(env.account, "0"))
        ok      == /\ Imported(env.sdk)
                   /\ env.phrase = "valid"
                   /\ account >= 0
    IN
    /\ at["helper"] = "deriving"
    /\ Comes("helper", ok, "configuring")
    /\ path' = IF ok THEN [path EXCEPT !["helper"] = <<account, args.keyIndex>>] ELSE path
    /\ UNCHANGED <<start, rest, args, network, node>>

\* The proof server's URL is taken when there is one, and must then be one.
ProofServerUrlAllowed_NotParsed(url) == TRUE
ProofServerUrlAllowed(url) == url = "" \/ url \in Urls

\* createNetworkConfiguration and the proof server, then the wallet starts.
CreateNetworkConfiguration ==
    LET nodeUrl == EnvValue(env.node, DefaultNode)
        ok == /\ PatchedStackUrlAllowed(nodeUrl)
              /\ PatchedStackUrlAllowed(EnvValue(env.indexerHttp, "http://local"))
              /\ PatchedStackUrlAllowed(EnvValue(env.indexerWs, "ws://local"))
              /\ NodeUrlAllowed(nodeUrl)
              /\ ProofServerUrlAllowed(args.proofServerUrl)
    IN
    /\ at["helper"] = "configuring"
    /\ Comes("helper", ok, "started")
    /\ IF ok THEN /\ network' = [network EXCEPT !["helper"] = EnvValue(env.network, "undeployed")]
                  /\ node' = [node EXCEPT !["helper"] = nodeUrl]
             ELSE UNCHANGED <<network, node>>
    /\ UNCHANGED <<start, rest, args, path>>

-----------------------------------------------------------------------------
(* preview_verify_onchain                                                    *)

VerifierBegins ==
    /\ at["verifier"] = "begins" /\ Turn("verifier")
    /\ args' = [blockHash |-> "", innerTxHex |-> "", txId |-> ""]
    /\ rest' = start.verifier
    /\ Goes("verifier", "parsing")
    /\ UNCHANGED <<start, path, network, node>>

\* Its parser takes argv[i + 1] as it is, undefined past the end, and passes
\* over what it does not know.
ParseVerifierArgument ==
    /\ at["verifier"] = "parsing" /\ rest # <<>>
    /\ LET key == Head(rest)  value == Value(rest) IN
       \/ /\ key = "--block-hash"
          /\ args' = [args EXCEPT !.blockHash = value] /\ rest' = Beyond(rest)
       \/ /\ key = "--inner-tx-hex"
          /\ args' = [args EXCEPT !.innerTxHex = value] /\ rest' = Beyond(rest)
       \/ /\ key = "--tx-id"
          /\ args' = [args EXCEPT !.txId = value] /\ rest' = Beyond(rest)
       \/ /\ key \notin {"--block-hash", "--inner-tx-hex", "--tx-id"}
          /\ rest' = Tail(rest) /\ UNCHANGED args
    /\ UNCHANGED <<start, at, path, network, node>>

\* The verifier has a default and checks of its own, copies of the helper's.
VerifierDefaultNode == "ws://local"
VerifierAllows_LocalOnly(url) == url \in {"ws://local", "wss://local"}
VerifierAllows(url) ==
    /\ url \in LocalUrls \/ (url \in Urls /\ env.remote)
    /\ url \in Wss \/ url = "ws://local"

VerifierConnects ==
    LET nodeUrl == EnvValue(env.node, VerifierDefaultNode)
        named   == args.blockHash # "" /\ Trim(args.innerTxHex) # ""
        ok      == named /\ VerifierAllows(nodeUrl)
    IN
    /\ at["verifier"] = "parsing" /\ rest = <<>>
    /\ Comes("verifier", ok, "connected")
    /\ node' = IF ok THEN [node EXCEPT !["verifier"] = nodeUrl] ELSE node
    /\ UNCHANGED <<start, rest, args, path, network>>

-----------------------------------------------------------------------------
NoArguments == <<>>
None        == <<>>

Init ==
    /\ start \in Starts
    /\ at = [t \in Tools |-> "begins"]
    /\ rest = <<>>
    /\ args = NoArguments
    /\ path = [t \in {"seed", "helper"} |-> None]
    /\ network = [t \in {"decode", "helper"} |-> ""]
    /\ node = [t \in {"helper", "verifier"} |-> ""]

Next ==
    \/ DeriveSeed \/ DecodeAddress
    \/ HelperBegins \/ ParseHelperArgument \/ HelperParsed
    \/ LoadTransaction \/ DeriveKeys \/ CreateNetworkConfiguration
    \/ VerifierBegins \/ ParseVerifierArgument \/ VerifierConnects

Spec == Init /\ [][Next]_vars

-----------------------------------------------------------------------------
(* Properties *)

TypeOK ==
    /\ at["seed"] \in {"begins", "printed", "failed"}
    /\ at["decode"] \in {"begins", "printed", "failed"}
    /\ at["helper"] \in {"begins", "parsing", "loading", "deriving", "configuring",
                         "started", "dry run", "help", "failed"}
    /\ at["verifier"] \in {"begins", "parsing", "connected", "failed"}
    /\ at["helper"] = "started" =>
          node["helper"] \in Urls /\ path["helper"] # None /\ network["helper"] # ""
    /\ at["verifier"] = "connected" => node["verifier"] \in Urls

Mentioned(token, line) == \E i \in DOMAIN line : line[i] = token

\* The key the helper's wallet spends with is the one derive_midnight_zswap_seed
\* prints for the same environment, unless --key-index names another: each has
\* its own way from MIDNIGHT_PREVIEW_ACCOUNT and _ZSWAP_KEY_INDEX to a number.
SameZswapKey ==
    /\ path["helper"] # None
    /\ env.sdk.direct = "loads"
    /\ ~Mentioned("--key-index", start.helper)
    => path["helper"] = path["seed"]

\* The verifier reads the block back from the node the helper submits to: it
\* takes every environment the helper starts in, and comes to the same URL.
SameNode ==
    at["helper"] = "started" =>
        /\ at["verifier"] = "connected" => node["verifier"] = node["helper"]
        /\ at["verifier"] = "failed" => args.blockHash = "" \/ Trim(args.innerTxHex) = ""

\* A network that is set is the same for the recipient's address and for the
\* wallet that pays it, whatever their defaults are.
SameNetwork ==
    /\ Trim(Given(env.network, "")) # ""
    /\ ~Mentioned("--network-id", start.decode)
    /\ network["decode"] # "" /\ network["helper"] # ""
    => network["decode"] = network["helper"]

\* A command line with --dry-run in it starts no wallet, also where an option
\* in front takes it for its value, as long as no option is given twice: the
\* value it then is fails as a transaction, as an index or as a URL.
DryRunStaysDry ==
    LET line    == start.helper
        options == {"--tx-hex", "--key-index", "--proof-server-url", "--dry-run"} IN
    /\ Mentioned("--dry-run", line)
    /\ \A i, j \in DOMAIN line : line[i] = line[j] /\ line[i] \in options => i = j
    => at["helper"] # "started"

=============================================================================
