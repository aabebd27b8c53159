-------------------------- MODULE ToolStartupProofs ---------------------------
(***************************************************************************)
(* The four tools started from any environments and command lines          *)
(* whatever.                                                               *)
(***************************************************************************)
EXTENDS ToolStartup, SequenceTheorems, TLAPS

\* What the variables hold, and in which order the tools run.
Stages ==
    /\ start \in Starts
    /\ DOMAIN at = Tools
    /\ at["seed"] \in {"begins", "printed", "failed"}
    /\ at["decode"] \in {"begins", "printed", "failed"}
    /\ at["helper"] \in {"begins", "parsing", "loading", "deriving", "configuring",
                         "started", "dry run", "help", "failed"}
    /\ at["verifier"] \in {"begins", "parsing", "connected", "failed"}
    /\ at["decode"] # "begins" => at["seed"] \in Ends
    /\ at["helper"] # "begins" => at["decode"] \in Ends
    /\ at["verifier"] # "begins" => at["helper"] \in Ends
    /\ DOMAIN path = {"seed", "helper"}
    /\ DOMAIN network = {"decode", "helper"}
    /\ DOMAIN node = {"helper", "verifier"}

\* What a parser has not read is the end of its command line.
IsEnd(tail, line) ==
    /\ tail \in Seq(STRING) /\ line \in Seq(STRING)
    /\ Len(tail) <= Len(line)
    /\ \A i \in 1..Len(tail) : tail[i] = line[Len(line) - Len(tail) + i]

RestOK ==
    /\ at["helper"] = "parsing" => IsEnd(rest, start.helper)
    /\ at["verifier"] = "parsing" => IsEnd(rest, start.verifier)

ArgsOK ==
    /\ at["helper"] \in {"parsing", "loading", "deriving", "configuring"} =>
          DOMAIN args = {"txHex", "keyIndex", "proofServerUrl", "submit", "dryRun"}
    /\ at["verifier"] # "begins" => DOMAIN args = {"blockHash", "innerTxHex", "txId"}

\* What each tool makes of the environment and of its command line.
SeedPath      == <<SeedAccount, SeedIndex>>
SeedCan       == /\ env.sdk.direct = "loads" /\ env.phrase = "valid"
                 /\ SeedAccount >= 0 /\ SeedIndex >= 0
HelperAccount == ParseInt(EnvValue(env.account, "0"))
HelperCan     == env.phrase = "valid" /\ HelperAccount >= 0
NoIndexOption == ~Mentioned("--key-index", start.helper)
HelperUrl     == EnvValue(env.node, DefaultNode)
HelperAllowed == PatchedStackUrlAllowed(HelperUrl) /\ NodeUrlAllowed(HelperUrl)
VerifierUrl   == EnvValue(env.node, VerifierDefaultNode)
VerifierMay   == VerifierAllows(VerifierUrl)
HelperNetwork == EnvValue(env.network, "undeployed")
DecodeNetwork == Trim(ArgValue("--network-id", Given(env.network, "preview")))

\* The key the seed tool printed, if it could.
SeedOK ==
    /\ at["seed"] = "printed" => path["seed"] = SeedPath
    /\ at["seed"] = "failed" => ~SeedCan

\* The index the helper uses is the environment's, where the line has none.
KeyOK ==
    /\ at["helper"] \in {"begins", "parsing", "loading", "deriving"} => path["helper"] = None
    /\ at["helper"] \in {"parsing", "loading", "deriving"} /\ NoIndexOption =>
          args.keyIndex = HelperKeyIndex
    /\ at["helper"] \in {"loading", "deriving"} => args.keyIndex >= 0
    /\ at["helper"] \in {"configuring", "started"} => path["helper"] # None
    /\ path["helper"] # None =>
          /\ at["seed"] \in {"printed", "failed"}
          /\ HelperCan
          /\ NoIndexOption => /\ HelperKeyIndex >= 0
                              /\ path["helper"] = <<HelperAccount, HelperKeyIndex>>

\* The nodes the two tools came to.
NodesOK ==
    /\ at["helper"] = "started" => node["helper"] = HelperUrl /\ HelperAllowed
    /\ at["verifier"] = "connected" => node["verifier"] = VerifierUrl /\ VerifierMay
    /\ at["verifier"] = "failed" =>
          args.blockHash = "" \/ Trim(args.innerTxHex) = "" \/ ~VerifierMay

\* The networks the two tools came to.
NetworksOK ==
    /\ network["decode"] # "" => network["decode"] = DecodeNetwork
    /\ network["helper"] # "" => network["helper"] = HelperNetwork
    /\ at["helper"] = "started" => network["helper"] = HelperNetwork

\* Where the --dry-run of a command line has gone.
DryLine ==
    LET line    == start.helper
        options == {"--tx-hex", "--key-index", "--proof-server-url", "--dry-run"} IN
    /\ Mentioned("--dry-run", line)
    /\ \A i, j \in DOMAIN line : line[i] = line[j] /\ line[i] \in options => i = j
DryOK ==
    DryLine =>
        /\ at["helper"] = "parsing" =>
              \/ args.dryRun
              \/ Mentioned("--dry-run", rest)
              \/ args.txHex = "--dry-run" /\ ~Mentioned("--tx-hex", rest)
              \/ args.keyIndex = -1 /\ ~Mentioned("--key-index", rest)
              \/ args.proofServerUrl = "--dry-run" /\ ~Mentioned("--proof-server-url", rest)
        /\ at["helper"] = "loading" =>
              args.dryRun \/ args.txHex = "--dry-run" \/ args.proofServerUrl = "--dry-run"
        /\ at["helper"] \in {"deriving", "configuring"} => args.proofServerUrl = "--dry-run"
        /\ at["helper"] # "started"

\* The inductive invariant.
IInv == /\ Stages /\ RestOK /\ ArgsOK /\ SeedOK /\ KeyOK /\ NodesOK /\ NetworksOK /\ DryOK

-----------------------------------------------------------------------------
(* Steps *)

\* No tool changes the environment or a command line.
LEMMA Same ==
    ASSUME [Next]_vars
    PROVE  /\ start' = start
           /\ SeedPath' = SeedPath /\ (SeedCan' <=> SeedCan)
           /\ HelperAccount' = HelperAccount /\ (HelperCan' <=> HelperCan)
           /\ (NoIndexOption' <=> NoIndexOption) /\ HelperKeyIndex' = HelperKeyIndex
           /\ HelperUrl' = HelperUrl /\ (HelperAllowed' <=> HelperAllowed)
           /\ VerifierUrl' = VerifierUrl /\ (VerifierMay' <=> VerifierMay)
           /\ HelperNetwork' = HelperNetwork /\ DecodeNetwork' = DecodeNetwork
           /\ (DryLine' <=> DryLine)
<1>1. start' = start
  BY DEF Next, vars, DeriveSeed, DecodeAddress, HelperBegins, ParseHelperArgument, HelperParsed,
         LoadTransaction, DeriveKeys, CreateNetworkConfiguration, VerifierBegins,
         ParseVerifierArgument, VerifierConnects
<1>2. SeedPath' = SeedPath /\ (SeedCan' <=> SeedCan)
  BY <1>1 DEF SeedPath, SeedCan, SeedAccount, SeedIndex, env
<1>3. HelperAccount' = HelperAccount /\ (HelperCan' <=> HelperCan)
  BY <1>1 DEF HelperAccount, HelperCan, env
<1>4. (NoIndexOption' <=> NoIndexOption) /\ HelperKeyIndex' = HelperKeyIndex
  BY <1>1 DEF NoIndexOption, Mentioned, HelperKeyIndex, env
<1>5. HelperUrl' = HelperUrl /\ (HelperAllowed' <=> HelperAllowed)
  BY <1>1 DEF HelperUrl, HelperAllowed, PatchedStackUrlAllowed, env
<1>6. VerifierUrl' = VerifierUrl /\ (VerifierMay' <=> VerifierMay)
  BY <1>1 DEF VerifierUrl, VerifierMay, VerifierAllows, env
<1>7. HelperNetwork' = HelperNetwork /\ DecodeNetwork' = DecodeNetwork
  BY <1>1 DEF HelperNetwork, DecodeNetwork, ArgValue, env
<1>8. DryLine' <=> DryLine
  BY <1>1 DEF DryLine, Mentioned
<1>. QED  BY <1>1, <1>2, <1>3, <1>4, <1>5, <1>6, <1>7, <1>8

\* A stretch at the end of a line, in numbers.
LEMMA EndType ==
    ASSUME NEW tail, NEW line, IsEnd(tail, line)
    PROVE  /\ tail \in Seq(STRING) /\ line \in Seq(STRING)
           /\ Len(tail) \in Nat /\ Len(line) \in Nat /\ Len(tail) <= Len(line)
           /\ DOMAIN tail = 1..Len(tail) /\ DOMAIN line = 1..Len(line)
BY LenProperties DEF IsEnd

\* A whole line is one.
LEMMA EndWhole ==
    ASSUME NEW line \in Seq(STRING)
    PROVE  IsEnd(line, line)
<1>1. Len(line) \in Nat
  BY LenProperties
<1>2. \A i \in 1..Len(line) : Len(line) - Len(line) + i = i
  BY <1>1
<1>. QED  BY <1>1, <1>2 DEF IsEnd

\* Whatever is read of an unread stretch, the rest of it is one.
LEMMA EndTail ==
    ASSUME NEW tail, NEW line, IsEnd(tail, line), tail # <<>>
    PROVE  /\ IsEnd(Tail(tail), line)
           /\ 1 \in DOMAIN tail /\ Head(tail) = tail[1]
           /\ \A t : Mentioned(t, tail) <=> t = Head(tail) \/ Mentioned(t, Tail(tail))
<1>1. /\ tail \in Seq(STRING) /\ line \in Seq(STRING) /\ Len(tail) <= Len(line)
      /\ Len(tail) \in Nat /\ Len(line) \in Nat /\ DOMAIN tail = 1..Len(tail)
  BY EndType
<1>2. Len(tail) > 0
  BY <1>1, EmptySeq
<1>3. /\ Tail(tail) \in Seq(STRING) /\ Len(Tail(tail)) = Len(tail) - 1
      /\ \A i \in 1..Len(tail) - 1 : Tail(tail)[i] = tail[i + 1]
  BY <1>1, HeadTailProperties
<1>4. DOMAIN Tail(tail) = 1..(Len(tail) - 1)
  BY <1>3, LenProperties
<1>5. Head(tail) = tail[1]
  OBVIOUS
<1>6. IsEnd(Tail(tail), line)
  <2>1. ASSUME NEW i \in 1..(Len(tail) - 1)
        PROVE  Tail(tail)[i] = line[Len(line) - (Len(tail) - 1) + i]
    <3>1. i + 1 \in 1..Len(tail)
      BY <1>1
    <3>2. tail[i + 1] = line[Len(line) - Len(tail) + (i + 1)]
      BY <3>1 DEF IsEnd
    <3>3. Len(line) - Len(tail) + (i + 1) = Len(line) - (Len(tail) - 1) + i
      BY <1>1
    <3>. QED  BY <1>3, <3>2, <3>3
  <2>. QED  BY <1>1, <1>2, <1>3, <2>1 DEF IsEnd
<1>7. ASSUME NEW t
      PROVE  Mentioned(t, tail) <=> t = Head(tail) \/ Mentioned(t, Tail(tail))
  <2>1. ASSUME NEW i \in 1..Len(tail), tail[i] = t, i # 1
        PROVE  Mentioned(t, Tail(tail))
    <3>1. i - 1 \in 1..(Len(tail) - 1) /\ (i - 1) + 1 = i
      BY <1>1, <2>1
    <3>2. Tail(tail)[i - 1] = t
      BY <1>3, <2>1, <3>1
    <3>. QED  BY <1>4, <3>1, <3>2 DEF Mentioned
  <2>2. ASSUME NEW i \in 1..(Len(tail) - 1), Tail(tail)[i] = t
        PROVE  Mentioned(t, tail)
    <3>1. i + 1 \in 1..Len(tail) /\ tail[i + 1] = t
      BY <1>1, <1>3, <2>2
    <3>. QED  BY <1>1, <3>1 DEF Mentioned
  <2>3. 1 \in 1..Len(tail)
    BY <1>1, <1>2
  <2>. QED  BY <1>1, <1>4, <1>5, <2>1, <2>2, <2>3 DEF Mentioned
<1>. QED  BY <1>1, <1>2, <1>5, <1>6, <1>7

\* An option and its value are read together; at the end of a line the value is
\* the empty text.
LEMMA EndBeyond ==
    ASSUME NEW tail, NEW line, IsEnd(tail, line), tail # <<>>
    PROVE  /\ IsEnd(Beyond(tail), line)
           /\ \A t : Mentioned(t, Tail(tail)) => t = Value(tail) \/ Mentioned(t, Beyond(tail))
           /\ \A t : Mentioned(t, Beyond(tail)) => Mentioned(t, Tail(tail))
<1>. DEFINE rst == Tail(tail)
<1>1. IsEnd(rst, line) /\ tail \in Seq(STRING) /\ Len(tail) \in Nat /\ Len(tail) > 0
  BY EndTail, EndType, EmptySeq
<1>2. /\ Len(rst) = Len(tail) - 1
      /\ \A i \in 1..Len(tail) - 1 : rst[i] = tail[i + 1]
  BY <1>1, HeadTailProperties
<1>3. CASE Len(tail) = 1
  <2>1. Beyond(tail) = <<>>
    <3>1. 3 \in Int /\ 1 \in Int /\ 1 < 3
      OBVIOUS
    <3>2. SubSeq(tail, 3, 1) = <<>>
      BY <3>1, SubSeqEmpty
    <3>. QED  BY <1>3, <3>2 DEF Beyond
  <2>2. rst = <<>>
    <3>1. rst \in Seq(STRING) /\ Len(rst) = 0
      BY <1>1, <1>2, <1>3, EndType
    <3>. HIDE DEF rst
    <3>. QED  BY <3>1, EmptySeq
  <2>3. IsEnd(Beyond(tail), line)
    BY <1>1, <2>1, <2>2
  <2>4. \A t : Mentioned(t, rst) <=> Mentioned(t, Beyond(tail))
    BY <2>1, <2>2
  <2>. QED  BY <2>3, <2>4
<1>4. CASE Len(tail) # 1
  <2>1. rst # <<>> /\ Len(tail) > 1
    <3>1. Len(<<>>) = 0
      BY EmptySeq
    <3>2. Len(tail) > 1 /\ Len(rst) # 0
      <4>. HIDE DEF rst
      <4>. QED  BY <1>1, <1>2, <1>4
    <3>. HIDE DEF rst
    <3>. QED  BY <3>1, <3>2
  <2>2. /\ IsEnd(Tail(rst), line)
        /\ \A t : Mentioned(t, rst) <=> t = Head(rst) \/ Mentioned(t, Tail(rst))
        /\ Head(rst) = rst[1]
    BY <1>1, <2>1, EndTail
  <2>3. Head(rst) = Value(tail)
    BY <1>1, <1>2, <2>1, <2>2 DEF Value
  <2>4. Beyond(tail) = Tail(rst)
    <3>1. rst \in Seq(STRING) /\ Tail(rst) \in Seq(STRING)
      BY <1>1, <2>2, EndType
    <3>2. /\ Len(Tail(rst)) = Len(tail) - 2
          /\ \A i \in 1..(Len(tail) - 2) : Tail(rst)[i] = rst[i + 1]
      <4>1. /\ Len(Tail(rst)) = Len(rst) - 1
            /\ \A i \in 1..(Len(rst) - 1) : Tail(rst)[i] = rst[i + 1]
        <5>. HIDE DEF rst
        <5>. QED  BY <2>1, <3>1, HeadTailProperties
      <4>2. Len(rst) - 1 = Len(tail) - 2
        BY <1>1, <1>2
      <4>. QED  BY <4>1, <4>2
    <3>3. \A i \in 3..Len(tail) : tail[i] \in STRING
      BY <1>1, ElementOfSeq
    <3>4. /\ Beyond(tail) \in Seq(STRING)
          /\ Len(Beyond(tail)) = IF 3 <= Len(tail) THEN Len(tail) - 3 + 1 ELSE 0
          /\ \A i \in 1..(Len(tail) - 3 + 1) : Beyond(tail)[i] = tail[3 + i - 1]
      BY <1>1, <3>3, SubSeqProperties DEF Beyond
    <3>5. Len(Beyond(tail)) = Len(tail) - 2
      <4>. HIDE DEF rst
      <4>1. CASE Len(tail) = 2
        <5>1. ~(3 <= Len(tail))
          BY <4>1
        <5>2. Len(Beyond(tail)) = 0
          <6>1. ~(3 <= Len(tail)) /\ Len(Beyond(tail)) = IF 3 <= Len(tail) THEN Len(tail) - 3 + 1 ELSE 0
            BY <3>4, <5>1
          <6>. QED  BY ONLY <6>1
        <5>. QED  BY <4>1, <5>2
      <4>2. CASE Len(tail) # 2
        <5>1. Len(tail) \in Nat /\ Len(tail) > 1
          BY <1>1, <2>1
        <5>2. 3 <= Len(tail)
          BY ONLY <4>2, <5>1
        <5>. QED  BY <3>4, <5>1, <5>2
      <4>. QED  BY <4>1, <4>2
    <3>6. ASSUME NEW i \in 1..(Len(tail) - 2)
          PROVE  Beyond(tail)[i] = Tail(rst)[i]
      <4>1. i + 1 \in 1..(Len(tail) - 1) /\ 3 + i - 1 = (i + 1) + 1
        BY <1>1, <2>1
      <4>2. Beyond(tail)[i] = tail[(i + 1) + 1]
        BY <1>1, <3>4, <4>1
      <4>. QED  BY <1>2, <3>2, <4>1, <4>2
    <3>. HIDE DEF rst
    <3>. QED  BY <3>1, <3>2, <3>4, <3>5, <3>6, SeqEqual
  <2>. QED  BY <2>2, <2>3, <2>4
<1>. QED  BY <1>3, <1>4

\* What is in an unread stretch is in its line; and what is in a line once is
\* not read twice.
LEMMA EndOfLine ==
    ASSUME NEW tail, NEW line, IsEnd(tail, line), tail # <<>>
    PROVE  /\ \A t : Mentioned(t, tail) => Mentioned(t, line)
           /\ (\A i, j \in DOMAIN line : line[i] = line[j] /\ line[i] = Head(tail) => i = j)
              => ~Mentioned(Head(tail), Tail(tail))
<1>1. /\ tail \in Seq(STRING) /\ line \in Seq(STRING) /\ Len(tail) <= Len(line)
      /\ Len(tail) \in Nat /\ Len(line) \in Nat
      /\ DOMAIN tail = 1..Len(tail) /\ DOMAIN line = 1..Len(line)
  BY EndType
<1>2. \A i \in 1..Len(tail) : /\ Len(line) - Len(tail) + i \in DOMAIN line
                              /\ tail[i] = line[Len(line) - Len(tail) + i]
  BY <1>1 DEF IsEnd
<1>3. \A t : Mentioned(t, tail) => Mentioned(t, line)
  BY <1>1, <1>2 DEF Mentioned
<1>4. ASSUME \A i, j \in DOMAIN line : line[i] = line[j] /\ line[i] = Head(tail) => i = j,
             Mentioned(Head(tail), Tail(tail))
      PROVE  FALSE
  <2>1. /\ Tail(tail) \in Seq(STRING) /\ Len(Tail(tail)) = Len(tail) - 1
        /\ \A i \in 1..Len(tail) - 1 : Tail(tail)[i] = tail[i + 1]
        /\ 1 \in DOMAIN tail /\ Head(tail) = tail[1]
    BY <1>1, HeadTailProperties, EndTail
  <2>2. PICK i \in 1..(Len(tail) - 1) : Tail(tail)[i] = Head(tail)
    BY <1>4, <2>1, LenProperties DEF Mentioned
  <2>3. i + 1 \in 1..Len(tail) /\ tail[i + 1] = tail[1] /\ 1 \in 1..Len(tail)
    BY <1>1, <2>1, <2>2
  <2>4. Len(line) - Len(tail) + (i + 1) = Len(line) - Len(tail) + 1
    BY <1>2, <1>4, <2>1, <2>3
  <2>. QED  BY <1>1, <2>2, <2>4
<1>. QED  BY <1>3, <1>4

-----------------------------------------------------------------------------
(* Each step of a tool keeps the invariant *)

\* The seed tool derives a key or fails, before any other tool runs.
LEMMA SeedStep ==
    ASSUME IInv, DeriveSeed
    PROVE  IInv'
<1>1. [Next]_vars
  BY DEF Next
<1>2. /\ at["seed"] = "begins" /\ at["decode"] = "begins" /\ at["helper"] = "begins" /\ at["verifier"] = "begins"
      /\ DOMAIN at' = Tools /\ DOMAIN path' = DOMAIN path
      /\ at'["decode"] = at["decode"] /\ at'["helper"] = at["helper"] /\ at'["verifier"] = at["verifier"]
      /\ \/ SeedCan /\ at'["seed"] = "printed" /\ path'["seed"] = SeedPath
         \/ ~SeedCan /\ at'["seed"] = "failed"
      /\ path'["helper"] = path["helper"] /\ UNCHANGED <<rest, args, network, node>>
  BY DEF IInv, Stages, Tools, Ends, DeriveSeed, Comes, Goes, SeedPath, SeedCan
<1>3. Stages'
  BY <1>1, <1>2, Same DEF IInv, Stages, Ends, Tools
<1>4. RestOK'
  BY <1>1, <1>2, Same DEF IInv, Stages, Ends, RestOK
<1>5. ArgsOK'
  BY <1>1, <1>2, Same DEF IInv, Stages, Ends, ArgsOK
<1>6. SeedOK'
  BY <1>1, <1>2, Same DEF IInv, Stages, Ends, SeedOK
<1>7. KeyOK'
  BY <1>1, <1>2, Same DEF IInv, Stages, Ends, KeyOK
<1>8. NodesOK'
  BY <1>1, <1>2, Same DEF IInv, Stages, Ends, NodesOK
<1>9. NetworksOK'
  BY <1>1, <1>2, Same DEF IInv, Stages, Ends, NetworksOK
<1>10. DryOK'
  BY <1>1, <1>2, Same DEF IInv, Stages, Ends, DryOK
<1>. QED  BY <1>3, <1>4, <1>5, <1>6, <1>7, <1>8, <1>9, <1>10 DEF IInv

\* The decoder takes its network, or fails.
LEMMA DecodeStep ==
    ASSUME IInv, DecodeAddress
    PROVE  IInv'
<1>1. [Next]_vars
  BY DEF Next
<1>2. /\ at["seed"] \in Ends /\ at["decode"] = "begins" /\ at["helper"] = "begins" /\ at["verifier"] = "begins"
      /\ DOMAIN at' = Tools /\ DOMAIN network' = DOMAIN network
      /\ at'["seed"] = at["seed"] /\ at'["helper"] = at["helper"] /\ at'["verifier"] = at["verifier"]
      /\ at'["decode"] \in {"printed", "failed"}
      /\ network'["decode"] = network["decode"] \/ network'["decode"] = DecodeNetwork
      /\ network'["helper"] = network["helper"] /\ UNCHANGED <<rest, args, path, node>>
  BY DEF IInv, Stages, Tools, Ends, DecodeAddress, Turn, Comes, Goes, DecodeNetwork
<1>3. Stages'
  BY <1>1, <1>2, Same DEF IInv, Stages, Ends, Tools
<1>4. RestOK'
  BY <1>1, <1>2, Same DEF IInv, Stages, Ends, RestOK
<1>5. ArgsOK'
  BY <1>1, <1>2, Same DEF IInv, Stages, Ends, ArgsOK
<1>6. SeedOK'
  BY <1>1, <1>2, Same DEF IInv, Stages, Ends, SeedOK
<1>7. KeyOK'
  BY <1>1, <1>2, Same DEF IInv, Stages, Ends, KeyOK
<1>8. NodesOK'
  BY <1>1, <1>2, Same DEF IInv, Stages, Ends, NodesOK
<1>9. NetworksOK'
  BY <1>1, <1>2, Same DEF IInv, Stages, Ends, NetworksOK
<1>10. DryOK'
  BY <1>1, <1>2, Same DEF IInv, Stages, Ends, DryOK
<1>. QED  BY <1>3, <1>4, <1>5, <1>6, <1>7, <1>8, <1>9, <1>10 DEF IInv

\* The helper takes the environment and has its whole command line to read.
LEMMA HelperBeginsStep ==
    ASSUME IInv, HelperBegins
    PROVE  IInv'
<1>1. [Next]_vars
  BY DEF Next
<1>2. /\ at["decode"] \in Ends /\ at["helper"] = "begins" /\ at["verifier"] = "begins"
      /\ DOMAIN at' = Tools
      /\ at'["seed"] = at["seed"] /\ at'["decode"] = at["decode"] /\ at'["verifier"] = at["verifier"]
      /\ at'["helper"] = "parsing"
      /\ DOMAIN args' = {"txHex", "keyIndex", "proofServerUrl", "submit", "dryRun"}
      /\ args'.keyIndex = HelperKeyIndex
      /\ rest' = start.helper /\ IsEnd(start.helper, start.helper)
      /\ UNCHANGED <<path, network, node>>
  <2>1. IsEnd(start.helper, start.helper)
    BY StartsAssumption, EndWhole DEF IInv, Stages
  <2>. QED  BY <2>1 DEF IInv, Stages, Tools, Ends, HelperBegins, Turn, Goes
<1>3. Stages'
  BY <1>1, <1>2, Same DEF IInv, Stages, Ends, Tools
<1>4. RestOK'
  BY <1>1, <1>2, Same DEF IInv, Stages, Ends, RestOK
<1>5. ArgsOK'
  BY <1>1, <1>2, Same DEF IInv, Stages, Ends, ArgsOK
<1>6. SeedOK'
  BY <1>1, <1>2, Same DEF IInv, Stages, Ends, SeedOK
<1>7. KeyOK'
  BY <1>1, <1>2, Same DEF IInv, Stages, Ends, KeyOK
<1>8. NodesOK'
  BY <1>1, <1>2, Same DEF IInv, Stages, Ends, NodesOK
<1>9. NetworksOK'
  BY <1>1, <1>2, Same DEF IInv, Stages, Ends, NetworksOK
<1>10. DryOK'
  BY <1>1, <1>2, Same DEF IInv, Stages, Ends, DryOK, DryLine
<1>. QED  BY <1>3, <1>4, <1>5, <1>6, <1>7, <1>8, <1>9, <1>10 DEF IInv

\* A line is accepted with an index that is a number.
LEMMA ParsedStep ==
    ASSUME IInv, HelperParsed
    PROVE  IInv'
<1>1. [Next]_vars
  BY DEF Next
<1>2. /\ at["helper"] = "parsing" /\ at["verifier"] = "begins"
      /\ DOMAIN at' = Tools
      /\ at'["seed"] = at["seed"] /\ at'["decode"] = at["decode"] /\ at'["verifier"] = at["verifier"]
      /\ \/ at'["helper"] = "loading" /\ args.keyIndex >= 0
         \/ at'["helper"] = "failed"
      /\ \A t : ~Mentioned(t, rest)
      /\ UNCHANGED <<rest, args, path, network, node>>
  <2>1. \A t : ~Mentioned(t, rest)
    BY DEF HelperParsed, Mentioned
  <2>. QED  BY <2>1 DEF IInv, Stages, Tools, Ends, HelperParsed, Comes, Goes
<1>3. Stages'
  BY <1>1, <1>2, Same DEF IInv, Stages, Ends, Tools
<1>4. RestOK'
  BY <1>1, <1>2, Same DEF IInv, Stages, Ends, RestOK
<1>5. ArgsOK'
  BY <1>1, <1>2, Same DEF IInv, Stages, Ends, ArgsOK
<1>6. SeedOK'
  BY <1>1, <1>2, Same DEF IInv, Stages, Ends, SeedOK
<1>7. KeyOK'
  BY <1>1, <1>2, Same DEF IInv, Stages, Ends, KeyOK
<1>8. NodesOK'
  BY <1>1, <1>2, Same DEF IInv, Stages, Ends, NodesOK
<1>9. NetworksOK'
  BY <1>1, <1>2, Same DEF IInv, Stages, Ends, NetworksOK
<1>10. DryOK'
  <2>1. ASSUME DryLine, args.keyIndex >= 0
        PROVE  args.dryRun \/ args.txHex = "--dry-run" \/ args.proofServerUrl = "--dry-run"
    <3>1. args.keyIndex # -1
      BY <2>1
    <3>. QED  BY <1>2, <2>1, <3>1 DEF IInv, DryOK
  <2>. QED  BY <1>1, <1>2, <2>1, Same DEF IInv, Stages, DryOK
<1>. QED  BY <1>3, <1>4, <1>5, <1>6, <1>7, <1>8, <1>9, <1>10 DEF IInv

\* A dry run ends here; what goes on has a transaction.
LEMMA LoadStep ==
    ASSUME IInv, LoadTransaction
    PROVE  IInv'
<1>1. [Next]_vars
  BY DEF Next
<1>2. /\ at["helper"] = "loading" /\ at["verifier"] = "begins"
      /\ DOMAIN at' = Tools
      /\ at'["seed"] = at["seed"] /\ at'["decode"] = at["decode"] /\ at'["verifier"] = at["verifier"]
      /\ \/ at'["helper"] \in {"failed", "dry run"}
         \/ at'["helper"] = "deriving" /\ ~args.dryRun /\ args.txHex = "tx"
      /\ UNCHANGED <<rest, args, path, network, node>>
  BY DEF IInv, Stages, Tools, Ends, LoadTransaction, Comes, Goes
<1>3. Stages'
  BY <1>1, <1>2, Same DEF IInv, Stages, Ends, Tools
<1>4. RestOK'
  BY <1>1, <1>2, Same DEF IInv, Stages, Ends, RestOK
<1>5. ArgsOK'
  BY <1>1, <1>2, Same DEF IInv, Stages, Ends, ArgsOK
<1>6. SeedOK'
  BY <1>1, <1>2, Same DEF IInv, Stages, Ends, SeedOK
<1>7. KeyOK'
  BY <1>1, <1>2, Same DEF IInv, Stages, Ends, KeyOK
<1>8. NodesOK'
  BY <1>1, <1>2, Same DEF IInv, Stages, Ends, NodesOK
<1>9. NetworksOK'
  BY <1>1, <1>2, Same DEF IInv, Stages, Ends, NetworksOK
<1>10. DryOK'
  BY <1>1, <1>2, Same DEF IInv, Stages, Ends, DryOK
<1>. QED  BY <1>3, <1>4, <1>5, <1>6, <1>7, <1>8, <1>9, <1>10 DEF IInv

\* The wallet's key is derived from the account and the index, or not at all.
LEMMA DeriveKeysStep ==
    ASSUME IInv, DeriveKeys
    PROVE  IInv'
<1>1. [Next]_vars
  BY DEF Next
<1>2. /\ at["seed"] \in {"printed", "failed"} /\ at["helper"] = "deriving" /\ at["verifier"] = "begins"
      /\ DOMAIN at' = Tools /\ DOMAIN path' = DOMAIN path
      /\ at'["seed"] = at["seed"] /\ at'["decode"] = at["decode"] /\ at'["verifier"] = at["verifier"]
      /\ \/ /\ at'["helper"] = "configuring" /\ HelperCan
            /\ path'["helper"] = <<HelperAccount, args.keyIndex>> /\ path'["helper"] # None
         \/ at'["helper"] = "failed" /\ path'["helper"] = path["helper"]
      /\ path'["seed"] = path["seed"] /\ UNCHANGED <<rest, args, network, node>>
  BY DEF IInv, Stages, Tools, Ends, DeriveKeys, Comes, Goes, HelperCan, HelperAccount, None
<1>3. Stages'
  BY <1>1, <1>2, Same DEF IInv, Stages, Ends, Tools
<1>4. RestOK'
  BY <1>1, <1>2, Same DEF IInv, Stages, Ends, RestOK
<1>5. ArgsOK'
  BY <1>1, <1>2, Same DEF IInv, Stages, Ends, ArgsOK
<1>6. SeedOK'
  BY <1>1, <1>2, Same DEF IInv, Stages, Ends, SeedOK
<1>7. KeyOK'
  BY <1>1, <1>2, Same DEF IInv, Stages, Ends, KeyOK
<1>8. NodesOK'
  BY <1>1, <1>2, Same DEF IInv, Stages, Ends, NodesOK
<1>9. NetworksOK'
  BY <1>1, <1>2, Same DEF IInv, Stages, Ends, NetworksOK
<1>10. DryOK'
  BY <1>1, <1>2, Same DEF IInv, Stages, Ends, DryOK
<1>. QED  BY <1>3, <1>4, <1>5, <1>6, <1>7, <1>8, <1>9, <1>10 DEF IInv

\* The helper starts its wallet for a node its checks allow.
LEMMA ConfigureStep ==
    ASSUME IInv, CreateNetworkConfiguration
    PROVE  IInv'
<1>1. [Next]_vars
  BY DEF Next
<1>2. /\ at["helper"] = "configuring" /\ at["verifier"] = "begins"
      /\ DOMAIN at' = Tools /\ DOMAIN network' = DOMAIN network /\ DOMAIN node' = DOMAIN node
      /\ at'["seed"] = at["seed"] /\ at'["decode"] = at["decode"] /\ at'["verifier"] = at["verifier"]
      /\ \/ /\ at'["helper"] = "started" /\ HelperAllowed /\ args.proofServerUrl # "--dry-run"
            /\ network'["helper"] = HelperNetwork /\ node'["helper"] = HelperUrl
         \/ at'["helper"] = "failed" /\ UNCHANGED <<network, node>>
      /\ network'["decode"] = network["decode"] /\ node'["verifier"] = node["verifier"]
      /\ UNCHANGED <<rest, args, path>>
  BY DEF IInv, Stages, Tools, Ends, CreateNetworkConfiguration, Comes, Goes, HelperAllowed,
         HelperUrl, HelperNetwork, ProofServerUrlAllowed, Urls, LocalUrls
<1>3. Stages'
  BY <1>1, <1>2, Same DEF IInv, Stages, Ends, Tools
<1>4. RestOK'
  BY <1>1, <1>2, Same DEF IInv, Stages, Ends, RestOK
<1>5. ArgsOK'
  BY <1>1, <1>2, Same DEF IInv, Stages, Ends, ArgsOK
<1>6. SeedOK'
  BY <1>1, <1>2, Same DEF IInv, Stages, Ends, SeedOK
<1>7. KeyOK'
  BY <1>1, <1>2, Same DEF IInv, Stages, Ends, KeyOK
<1>8. NodesOK'
  BY <1>1, <1>2, Same DEF IInv, Stages, Ends, NodesOK
<1>9. NetworksOK'
  BY <1>1, <1>2, Same DEF IInv, Stages, Ends, NetworksOK
<1>10. DryOK'
  BY <1>1, <1>2, Same DEF IInv, Stages, Ends, DryOK
<1>. QED  BY <1>3, <1>4, <1>5, <1>6, <1>7, <1>8, <1>9, <1>10 DEF IInv

\* The verifier has its whole command line to read.
LEMMA VerifierBeginsStep ==
    ASSUME IInv, VerifierBegins
    PROVE  IInv'
<1>1. [Next]_vars
  BY DEF Next
<1>2. /\ at["helper"] \in Ends /\ at["verifier"] = "begins"
      /\ DOMAIN at' = Tools
      /\ at'["seed"] = at["seed"] /\ at'["decode"] = at["decode"] /\ at'["helper"] = at["helper"]
      /\ at'["verifier"] = "parsing"
      /\ DOMAIN args' = {"blockHash", "innerTxHex", "txId"}
      /\ rest' = start.verifier /\ IsEnd(start.verifier, start.verifier)
      /\ UNCHANGED <<path, network, node>>
  <2>1. IsEnd(start.verifier, start.verifier)
    BY StartsAssumption, EndWhole DEF IInv, Stages
  <2>. QED  BY <2>1 DEF IInv, Stages, Tools, Ends, VerifierBegins, Turn, Goes
<1>3. Stages'
  BY <1>1, <1>2, Same DEF IInv, Stages, Ends, Tools
<1>4. RestOK'
  BY <1>1, <1>2, Same DEF IInv, Stages, Ends, RestOK
<1>5. ArgsOK'
  BY <1>1, <1>2, Same DEF IInv, Stages, Ends, ArgsOK
<1>6. SeedOK'
  BY <1>1, <1>2, Same DEF IInv, Stages, Ends, SeedOK
<1>7. KeyOK'
  BY <1>1, <1>2, Same DEF IInv, Stages, Ends, KeyOK
<1>8. NodesOK'
  BY <1>1, <1>2, Same DEF IInv, Stages, Ends, NodesOK
<1>9. NetworksOK'
  BY <1>1, <1>2, Same DEF IInv, Stages, Ends, NetworksOK
<1>10. DryOK'
  BY <1>1, <1>2, Same DEF IInv, Stages, Ends, DryOK
<1>. QED  BY <1>3, <1>4, <1>5, <1>6, <1>7, <1>8, <1>9, <1>10 DEF IInv

\* The verifier reads on.
LEMMA VerifierParsesStep ==
    ASSUME IInv, ParseVerifierArgument
    PROVE  IInv'
<1>1. [Next]_vars
  BY DEF Next
<1>2. /\ at["verifier"] = "parsing" /\ at["helper"] \in Ends
      /\ DOMAIN args' = DOMAIN args
      /\ IsEnd(rest', start.verifier)
      /\ UNCHANGED <<at, path, network, node>>
  <2>1. IsEnd(rest, start.verifier) /\ rest # <<>>
    BY DEF IInv, RestOK, ParseVerifierArgument
  <2>2. IsEnd(Beyond(rest), start.verifier) /\ IsEnd(Tail(rest), start.verifier)
    BY <2>1, EndBeyond, EndTail
  <2>3. IsEnd(rest', start.verifier)
    BY <2>2 DEF ParseVerifierArgument
  <2>4. DOMAIN args' = DOMAIN args
    BY DEF ParseVerifierArgument
  <2>. QED  BY <2>3, <2>4 DEF IInv, Stages, Ends, ParseVerifierArgument
<1>3. Stages'
  BY <1>1, <1>2, Same DEF IInv, Stages, Ends, Tools
<1>4. RestOK'
  BY <1>1, <1>2, Same DEF IInv, Stages, Ends, RestOK
<1>5. ArgsOK'
  BY <1>1, <1>2, Same DEF IInv, Stages, Ends, ArgsOK
<1>6. SeedOK'
  BY <1>1, <1>2, Same DEF IInv, Stages, Ends, SeedOK
<1>7. KeyOK'
  BY <1>1, <1>2, Same DEF IInv, Stages, Ends, KeyOK
<1>8. NodesOK'
  BY <1>1, <1>2, Same DEF IInv, Stages, Ends, NodesOK
<1>9. NetworksOK'
  BY <1>1, <1>2, Same DEF IInv, Stages, Ends, NetworksOK
<1>10. DryOK'
  BY <1>1, <1>2, Same DEF IInv, Stages, Ends, DryOK
<1>. QED  BY <1>3, <1>4, <1>5, <1>6, <1>7, <1>8, <1>9, <1>10 DEF IInv

\* The verifier connects, or says what is missing.
LEMMA VerifierConnectsStep ==
    ASSUME IInv, VerifierConnects
    PROVE  IInv'
<1>1. [Next]_vars
  BY DEF Next
<1>2. /\ at["verifier"] = "parsing" /\ at["helper"] \in Ends
      /\ DOMAIN at' = Tools /\ DOMAIN node' = DOMAIN node
      /\ at'["seed"] = at["seed"] /\ at'["decode"] = at["decode"] /\ at'["helper"] = at["helper"]
      /\ \/ at'["verifier"] = "connected" /\ VerifierMay /\ node'["verifier"] = VerifierUrl
         \/ /\ at'["verifier"] = "failed"
            /\ args.blockHash = "" \/ Trim(args.innerTxHex) = "" \/ ~VerifierMay
      /\ node'["helper"] = node["helper"] /\ UNCHANGED <<rest, args, path, network>>
  BY DEF IInv, Stages, Tools, Ends, VerifierConnects, Comes, Goes, VerifierMay, VerifierUrl
<1>3. Stages'
  BY <1>1, <1>2, Same DEF IInv, Stages, Ends, Tools
<1>4. RestOK'
  BY <1>1, <1>2, Same DEF IInv, Stages, Ends, RestOK
<1>5. ArgsOK'
  BY <1>1, <1>2, Same DEF IInv, Stages, Ends, ArgsOK
<1>6. SeedOK'
  BY <1>1, <1>2, Same DEF IInv, Stages, Ends, SeedOK
<1>7. KeyOK'
  BY <1>1, <1>2, Same DEF IInv, Stages, Ends, KeyOK
<1>8. NodesOK'
  BY <1>1, <1>2, Same DEF IInv, Stages, Ends, NodesOK
<1>9. NetworksOK'
  BY <1>1, <1>2, Same DEF IInv, Stages, Ends, NetworksOK
<1>10. DryOK'
  BY <1>1, <1>2, Same DEF IInv, Stages, Ends, DryOK
<1>. QED  BY <1>3, <1>4, <1>5, <1>6, <1>7, <1>8, <1>9, <1>10 DEF IInv

\* The helper reads an option: the unread stretch gets shorter, and a --dry-run
\* in it is read as one or becomes the value of an option that does not come
\* again.
LEMMA ParseStep ==
    ASSUME IInv, ParseHelperArgument
    PROVE  IInv'
<1>1. [Next]_vars
  BY DEF Next
<1>. DEFINE line == start.helper
            options == {"--tx-hex", "--key-index", "--proof-server-url", "--dry-run"}
            D == "--dry-run"
<1>a. /\ at["helper"] = "parsing" /\ at["verifier"] = "begins" /\ rest # <<>>
      /\ IsEnd(rest, line)
      /\ DOMAIN args = {"txHex", "keyIndex", "proofServerUrl", "submit", "dryRun"}
      /\ UNCHANGED <<start, path, network, node>>
  BY DEF IInv, Stages, Ends, RestOK, ArgsOK, ParseHelperArgument
<1>b. /\ IsEnd(Beyond(rest), line) /\ IsEnd(Tail(rest), line)
      /\ \A t : Mentioned(t, rest) <=> t = Head(rest) \/ Mentioned(t, Tail(rest))
      /\ \A t : Mentioned(t, Tail(rest)) => t = Value(rest) \/ Mentioned(t, Beyond(rest))
      /\ \A t : Mentioned(t, Beyond(rest)) => Mentioned(t, Tail(rest))
  BY <1>a, EndTail, EndBeyond
<1>c. /\ \A t : Mentioned(t, rest) => Mentioned(t, line)
      /\ (\A i, j \in DOMAIN line : line[i] = line[j] /\ line[i] = Head(rest) => i = j)
         => ~Mentioned(Head(rest), Tail(rest))
  <2>. HIDE DEF line
  <2>. QED  BY <1>a, EndOfLine
<1>d. DryLine /\ Head(rest) \in options => ~Mentioned(Head(rest), Tail(rest))
  BY <1>c DEF DryLine
<1>e. NoIndexOption => Head(rest) # "--key-index"
  BY <1>b, <1>c DEF NoIndexOption
<1>2. CASE at' = at
  <2>1. \/ /\ Head(rest) = "--tx-hex"
           /\ args' = [args EXCEPT !.txHex = Value(rest)] /\ rest' = Beyond(rest)
        \/ /\ Head(rest) = "--key-index"
           /\ args' = [args EXCEPT !.keyIndex = ParseInt(Value(rest))]
           /\ rest' = Beyond(rest)
        \/ /\ Head(rest) = "--proof-server-url"
           /\ args' = [args EXCEPT !.proofServerUrl = Value(rest)]
           /\ rest' = Beyond(rest)
        \/ /\ Head(rest) = "--submit"
           /\ args' = [args EXCEPT !.submit = TRUE] /\ rest' = Tail(rest)
        \/ /\ Head(rest) = "--dry-run"
           /\ args' = [args EXCEPT !.dryRun = TRUE] /\ rest' = Tail(rest)
    <3>1. at'["helper"] = "parsing"
      BY <1>2, <1>a
    <3>2. ~Goes("helper", "help") /\ ~Goes("helper", "failed")
      BY <3>1, <1>a DEF Goes, IInv, Stages, Tools
    <3>. QED  BY <3>2 DEF ParseHelperArgument
  <2>2. /\ IsEnd(rest', line) /\ DOMAIN args' = DOMAIN args
        /\ NoIndexOption => args'.keyIndex = args.keyIndex
    BY <1>a, <1>b, <1>e, <2>1
  <2>3. ASSUME DryLine
        PROVE  \/ args'.dryRun
               \/ Mentioned(D, rest')
               \/ args'.txHex = D /\ ~Mentioned("--tx-hex", rest')
               \/ args'.keyIndex = -1 /\ ~Mentioned("--key-index", rest')
               \/ args'.proofServerUrl = D /\ ~Mentioned("--proof-server-url", rest')
    <3>0. \/ args.dryRun
          \/ Mentioned(D, rest)
          \/ args.txHex = D /\ ~Mentioned("--tx-hex", rest)
          \/ args.keyIndex = -1 /\ ~Mentioned("--key-index", rest)
          \/ args.proofServerUrl = D /\ ~Mentioned("--proof-server-url", rest)
      BY <1>a, <2>3 DEF IInv, DryOK
    <3>1. CASE args.dryRun
      BY <1>a, <2>1, <3>1
    <3>2. CASE Mentioned(D, rest)
      <4>1. D = Head(rest) \/ Mentioned(D, Tail(rest))
        BY <1>b, <3>2
      <4>2. CASE Head(rest) \in {"--submit", "--dry-run"}
        BY <1>a, <2>1, <4>1, <4>2
      <4>3. CASE Head(rest) \in {"--tx-hex", "--key-index", "--proof-server-url"}
        <5>1. /\ ~Mentioned(Head(rest), Tail(rest)) /\ ~Mentioned(Head(rest), Beyond(rest))
              /\ Mentioned(D, Beyond(rest)) \/ Value(rest) = D
          BY <1>b, <1>d, <2>3, <4>1, <4>3
        <5>2. ParseInt(D) = -1
          BY DEF ParseInt
        <5>3. CASE Head(rest) = "--tx-hex"
          BY <1>a, <2>1, <5>1, <5>3
        <5>4. CASE Head(rest) = "--key-index"
          BY <1>a, <2>1, <5>1, <5>2, <5>4
        <5>5. CASE Head(rest) = "--proof-server-url"
          BY <1>a, <2>1, <5>1, <5>5
        <5>. QED  BY <4>3, <5>3, <5>4, <5>5
      <4>. QED  BY <2>1, <4>2, <4>3
    <3>3. \A t : ~Mentioned(t, rest) => t # Head(rest) /\ ~Mentioned(t, rest')
      BY <1>b, <2>1
    <3>4. CASE args.txHex = D /\ ~Mentioned("--tx-hex", rest)
      BY <1>a, <2>1, <3>3, <3>4
    <3>5. CASE args.keyIndex = -1 /\ ~Mentioned("--key-index", rest)
      BY <1>a, <2>1, <3>3, <3>5
    <3>6. CASE args.proofServerUrl = D /\ ~Mentioned("--proof-server-url", rest)
      BY <1>a, <2>1, <3>3, <3>6
    <3>. QED  BY <3>0, <3>1, <3>2, <3>4, <3>5, <3>6
  <2>4. Stages' /\ SeedOK' /\ NetworksOK'
    BY <1>1, <1>2, <1>a, Same DEF IInv, Stages, SeedOK, NetworksOK
  <2>5. RestOK' /\ ArgsOK'
    BY <1>2, <1>a, <2>2 DEF IInv, RestOK, ArgsOK
  <2>6. KeyOK' /\ NodesOK'
    BY <1>1, <1>2, <1>a, <2>2, Same DEF IInv, KeyOK, NodesOK
  <2>7. DryOK'
    BY <1>1, <1>2, <1>a, <2>3, Same DEF DryOK
  <2>. QED  BY <2>4, <2>5, <2>6, <2>7 DEF IInv
<1>3. CASE at' # at
  <2>1. /\ at'["helper"] \in {"help", "failed"} /\ DOMAIN at' = Tools
        /\ at'["seed"] = at["seed"] /\ at'["decode"] = at["decode"]
        /\ at'["verifier"] = at["verifier"]
        /\ UNCHANGED <<rest, args>>
    BY <1>3 DEF ParseHelperArgument, Goes, IInv, Stages, Tools
  <2>2. Stages' /\ RestOK' /\ ArgsOK' /\ SeedOK'
    BY <1>1, <1>a, <2>1, Same DEF IInv, Stages, Ends, RestOK, ArgsOK, SeedOK
  <2>3. KeyOK' /\ NodesOK' /\ NetworksOK' /\ DryOK'
    BY <1>1, <1>a, <2>1, Same DEF IInv, KeyOK, NodesOK, NetworksOK, DryOK
  <2>. QED  BY <2>2, <2>3 DEF IInv
<1>. QED  BY <1>2, <1>3

-----------------------------------------------------------------------------
(* Theorems *)

\* The invariant holds in every state.
THEOREM Spec_IInv == Spec => []IInv
<1>1. Init => IInv
  <2>. SUFFICES ASSUME Init PROVE IInv
    OBVIOUS
  <2>1. /\ start \in Starts /\ DOMAIN at = Tools /\ \A t \in Tools : at[t] = "begins"
        /\ DOMAIN path = {"seed", "helper"} /\ path["helper"] = None
        /\ DOMAIN network = {"decode", "helper"} /\ DOMAIN node = {"helper", "verifier"}
        /\ network["decode"] = "" /\ network["helper"] = ""
    BY DEF Init
  <2>2. /\ at["seed"] = "begins" /\ at["decode"] = "begins"
        /\ at["helper"] = "begins" /\ at["verifier"] = "begins"
    BY <2>1 DEF Tools
  <2>3. Stages /\ RestOK /\ ArgsOK /\ SeedOK
    BY <2>1, <2>2 DEF Stages, RestOK, ArgsOK, SeedOK
  <2>4. KeyOK /\ NodesOK /\ NetworksOK /\ DryOK
    BY <2>1, <2>2 DEF KeyOK, NodesOK, NetworksOK, DryOK
  <2>. QED  BY <2>3, <2>4 DEF IInv
<1>2. IInv /\ [Next]_vars => IInv'
  <2>. SUFFICES ASSUME IInv, [Next]_vars PROVE IInv'
    OBVIOUS
  <2>1. CASE UNCHANGED vars
    <3>1. UNCHANGED <<at, rest, args, path, network, node>>
      BY <2>1 DEF vars
    <3>2. Stages' /\ RestOK' /\ ArgsOK' /\ SeedOK'
      BY <3>1, Same DEF IInv, Stages, RestOK, ArgsOK, SeedOK
    <3>3. KeyOK'
      BY <3>1, Same DEF IInv, KeyOK
    <3>4. NodesOK' /\ NetworksOK'
      BY <3>1, Same DEF IInv, NodesOK, NetworksOK
    <3>5. DryOK'
      BY <3>1, Same DEF IInv, DryOK
    <3>. QED  BY <3>2, <3>3, <3>4, <3>5 DEF IInv
  <2>2. CASE DeriveSeed
    BY <2>2, SeedStep
  <2>3. CASE DecodeAddress
    BY <2>3, DecodeStep
  <2>4. CASE HelperBegins
    BY <2>4, HelperBeginsStep
  <2>5. CASE ParseHelperArgument
    BY <2>5, ParseStep
  <2>6. CASE HelperParsed
    BY <2>6, ParsedStep
  <2>7. CASE LoadTransaction
    BY <2>7, LoadStep
  <2>8. CASE DeriveKeys
    BY <2>8, DeriveKeysStep
  <2>9. CASE CreateNetworkConfiguration
    BY <2>9, ConfigureStep
  <2>10. CASE VerifierBegins
    BY <2>10, VerifierBeginsStep
  <2>11. CASE ParseVerifierArgument
    BY <2>11, VerifierParsesStep
  <2>12. CASE VerifierConnects
    BY <2>12, VerifierConnectsStep
  <2>. QED
    BY <2>1, <2>2, <2>3, <2>4, <2>5, <2>6, <2>7, <2>8, <2>9, <2>10, <2>11, <2>12 DEF Next
<1>. QED  BY <1>1, <1>2, PTL DEF Spec

\* A helper that started and a verifier that connected have URLs their checks
\* know, and the helper a key and a network.
THEOREM Spec_TypeOK == Spec => []TypeOK
<1>1. IInv => TypeOK
  <2>. SUFFICES ASSUME IInv PROVE TypeOK
    OBVIOUS
  <2>1. HelperAllowed => HelperUrl \in Urls
    BY DEF HelperAllowed, PatchedStackUrlAllowed
  <2>2. VerifierMay => VerifierUrl \in Urls
    BY DEF VerifierMay, VerifierAllows, Urls
  <2>3. HelperNetwork # ""
    BY DEF HelperNetwork, EnvValue
  <2>. QED  BY <2>1, <2>2, <2>3 DEF IInv, Stages, KeyOK, NodesOK, NetworksOK, TypeOK
<1>. QED  BY <1>1, Spec_IInv, PTL

\* The helper's key is the seed tool's, in whatever environment both get one.
THEOREM Spec_SameZswapKey == Spec => []SameZswapKey
<1>1. IInv => SameZswapKey
  <2>. SUFFICES ASSUME IInv, path["helper"] # None, env.sdk.direct = "loads", NoIndexOption
                PROVE  path["helper"] = path["seed"]
    BY DEF SameZswapKey, NoIndexOption
  <2>1. /\ at["seed"] \in {"printed", "failed"} /\ HelperCan /\ HelperKeyIndex >= 0
        /\ path["helper"] = <<HelperAccount, HelperKeyIndex>>
    BY DEF IInv, KeyOK
  <2>2. SeedAccount = HelperAccount
    BY DEF SeedAccount, HelperAccount, EnvValue, Given, Trim, Unset
  <2>3. SeedIndex = HelperKeyIndex
    <3>1. Given(env.keyIndex, "0") \in {"0", "1"}
      <4>1. ParseInt(Given(env.keyIndex, "0")) # -1
        BY <2>1 DEF HelperKeyIndex
      <4>. QED  BY <4>1 DEF ParseInt
    <3>2. CASE env.keyIndex = Unset
      BY <3>2 DEF SeedIndex, HelperKeyIndex, Given, Trim, Unset
    <3>3. CASE env.keyIndex # Unset
      BY <3>1, <3>3 DEF SeedIndex, HelperKeyIndex, Given, Trim, Unset
    <3>. QED  BY <3>2, <3>3
  <2>4. SeedCan
    BY <2>1, <2>2, <2>3 DEF SeedCan, HelperCan
  <2>. QED  BY <2>1, <2>2, <2>3, <2>4 DEF IInv, SeedOK, SeedPath
<1>. QED  BY <1>1, Spec_IInv, PTL

\* Whatever the environment, the verifier takes the helper's node.
THEOREM Spec_SameNode == Spec => []SameNode
<1>1. IInv => SameNode
  <2>1. HelperUrl = VerifierUrl
    BY DEF HelperUrl, VerifierUrl, DefaultNode, VerifierDefaultNode
  <2>2. HelperAllowed => VerifierMay
    BY <2>1 DEF HelperAllowed, VerifierMay, VerifierAllows, PatchedStackUrlAllowed,
                NodeUrlAllowed, LocalUrls, Urls, Wss, Ws
  <2>. QED  BY <2>1, <2>2 DEF IInv, NodesOK, SameNode
<1>. QED  BY <1>1, Spec_IInv, PTL

\* A network that is set is the network of both tools.
THEOREM Spec_SameNetwork == Spec => []SameNetwork
<1>1. IInv => SameNetwork
  <2>. SUFFICES ASSUME IInv, Trim(Given(env.network, "")) # "",
                       ~Mentioned("--network-id", start.decode),
                       network["decode"] # "", network["helper"] # ""
                PROVE  network["decode"] = network["helper"]
    BY DEF SameNetwork
  <2>1. env.network # Unset /\ Trim(env.network) # ""
    BY DEF Given, Trim
  <2>2. HelperNetwork = Trim(env.network)
    BY <2>1 DEF HelperNetwork, EnvValue
  <2>3. DecodeNetwork = Trim(env.network)
    BY <2>1 DEF DecodeNetwork, ArgValue, Mentioned, Given
  <2>. QED  BY <2>2, <2>3 DEF IInv, NetworksOK
<1>. QED  BY <1>1, Spec_IInv, PTL

\* A line with --dry-run starts no wallet, however long it is.
THEOREM Spec_DryRunStaysDry == Spec => []DryRunStaysDry
<1>1. IInv => DryRunStaysDry
  BY DEF IInv, DryOK, DryLine, DryRunStaysDry
<1>. QED  BY <1>1, Spec_IInv, PTL
=============================================================================
