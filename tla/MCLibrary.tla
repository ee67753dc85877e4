----------------------------- MODULE MCLibrary -----------------------------
(***************************************************************************)
(* The pure functions of the library: a program calls one of them, with    *)
(* any of the arguments below, and `subject` says which.  PublicPoints,    *)
(* KeyPaths and ConfigReader are extended; the variables of every other    *)
(* component are the registers r1 ... r6, of which the component under way *)
(* uses the first few.                                                     *)
(***************************************************************************)
EXTENDS PublicPoints, KeyPaths, ConfigReader, TLC

VARIABLES subject, r1, r2, r3, r4, r5, r6

-----------------------------------------------------------------------------
(* Points.  The smallest curve of secp256k1's shape: a field of 43         *)
(* elements and a group of prime order 31, below the field as              *)
(* secp256k1's is.                                                         *)
MCScalars == {-Order - 1, -Order, -2, -1} \cup 0 .. Order + 2

-----------------------------------------------------------------------------
(* Bit groups.  Every sequence of groups at widths 3 and 2 until a byte    *)
(* boundary comes round twice, and bech32's widths with values that set a  *)
(* few bits.                                                               *)
Conversion(given, wanted, pad, values, most) ==
  [from |-> given, to |-> wanted, pad |-> pad, values |-> values, most |-> most]
MCConversions == {
  Conversion(3, 2, TRUE,  -1 .. 8, 4), Conversion(2, 3, FALSE, -1 .. 4, 6),
  Conversion(8, 5, TRUE,  {-1, 0, 1, 128, 255, 256}, 6),
  Conversion(5, 8, FALSE, {0, 1, 8, 16, 31, 32}, 5),
  Conversion(5, 8, FALSE, {0, 1, 31}, 8) }

Groups == INSTANCE BitGroups WITH
  Conversions <- MCConversions, call <- r1, data <- r2, s <- r3, out <- r4, pc <- r5
Stream == INSTANCE BitStream

-----------------------------------------------------------------------------
(* Base58Check.  Base 3 with four-valued bytes: neither radix is a power   *)
(* of the other.                                                           *)
CheckHash(bytes) == <<(FoldLeft(LAMBDA n, b : 3 * n + b, 0, bytes) + Len(bytes)) % 4, 0>>

B58 == INSTANCE Base58 WITH
  Radix <- 3, Byte <- 4, CheckLen <- 1, Hash <- CheckHash, MostBytes <- 4, MostChars <- 7,
  payload <- r1, text <- r2

(* Padding.  Blocks of four bytes of two bits, of which two hold the       *)
(* length: all messages whose length still fits, over three blocks.        *)
Padding == INSTANCE HashPadding WITH
  Block <- 4, LengthSize <- 2, ByteBits <- 2, MostBytes <- 7, message <- r1, blocks <- r2

-----------------------------------------------------------------------------
(* Addresses.  Hashes are bytes that differ between the few values that    *)
(* are hashed.  Texts are segwit addresses of every kind of prefix,        *)
(* version, length and constant, with a superfluous or a dirty last group, *)
(* and Base58Check payloads of every version byte and of lengths around 21. *)
ToyHash(n, bytes) == [i \in 1 .. n |-> (Last(bytes) * i + 37 * Len(bytes) + bytes[1]) % 256]
ToyOutputKey(pubkey) == ToyHash(32, pubkey)
Sample(n)     == [i \in 1 .. n |-> (255 - 37 * i) % 256]
Spoiled(data) == {data, Append(data, 0), Append(Front(data), Last(data) + 1)}
MCAddressTexts ==
  [kind : {"segwit"}, hrp : {"bc", "tb", "bcrt", "ltc"},
   case : {"lower", "upper", "mixed"},
   data : {<<>>} \cup
          UNION {Spoiled(<<version>> \o Stream!Packed(Sample(n), 8, 5)) :
                   version \in {0, 1, 16, 17, 31}, n \in {1, 2, 3, 19, 20, 32, 40, 41}},
   constant : {"bech32", "bech32m", "none"}]
  \cup [kind : {"base58"}, valid : BOOLEAN,
        payload : {<<version>> \o Sample(n) : version \in {0, 5, 111, 196, 128},
                                               n \in {19, 20, 21}}]

Codec == INSTANCE AddressCodec WITH
  Hash <- ToyHash, OutputKey <- ToyOutputKey, Pubkeys <- {<<2, 11>>, <<3, 200>>},
  WitnessScripts <- {<<82, 0, 174>>}, Texts <- MCAddressTexts,
  PushSizes <- {0, 1, 75, 76, 77, 255, 256, 257, 65535, 65536, 70000},
  pc <- r1, text <- r2, paid <- r3, network <- r4, script <- r5

-----------------------------------------------------------------------------
(* Checksums.  The version 0 and taproot addresses of                      *)
(* tests/test_encoding.py with the programs they lead to, and a short one  *)
(* published with BIP350.  Substitutions change one bit or two.            *)
MCAddresses ==
  { [hrp |-> <<98, 99>>, version |-> 0,
      program |-> <<192, 206, 188, 214, 195, 211, 202, 140, 117, 220, 94,
                   198, 46, 190, 85, 51, 14, 249, 16, 226>>,
      published |-> <<0, 24, 3, 7, 11, 25, 21, 22, 3, 26, 15, 5, 8, 24, 29, 14,
                     28, 11, 27, 3, 2, 29, 15, 18, 21, 6, 12, 7, 15, 18, 4, 7,
                     2, 17, 15, 26, 9, 4, 28>>],
    [hrp |-> <<98, 99>>, version |-> 1,
      program |-> <<166, 8, 105, 240, 219, 207, 29, 198, 89, 201, 206, 203,
                   175, 128, 80, 19, 94, 169, 232, 205, 196, 135, 5, 63, 29,
                   198, 136, 9, 73, 220, 104, 76>>,
      published |-> <<1, 20, 24, 4, 6, 19, 28, 6, 27, 25, 28, 14, 28, 12, 22,
                     14, 9, 25, 27, 5, 26, 31, 0, 2, 16, 2, 13, 15, 10, 19,
                     26, 6, 13, 24, 18, 3, 16, 10, 15, 24, 29, 24, 26, 4, 0,
                     18, 18, 14, 28, 13, 1, 6, 0, 22, 25, 13, 3, 24, 3>>],
    [hrp |-> <<98, 99>>, version |-> 16,
      program |-> <<117, 30>>,
      published |-> <<16, 14, 20, 15, 0, 8, 13, 2, 10, 20, 18>>] }

Bech32 == INSTANCE Bech32Checksum WITH
  Addresses <- MCAddresses,
  Slips <- {1, 18}, MostSlips <- 2,
  address <- r1, text <- r2, at <- r3, typed <- r4, register <- r5, slips <- r6

(* Three descriptors of tests/test_descriptor.py with their checksums:     *)
(* raw(deadbeef), whose last group has one character, one of 35 characters *)
(* with two and one of 39 with none.  Typos go to the next character and   *)
(* to another class of a position, which is how case differs.              *)
MCDescriptors ==
  { [text |-> <<73, 18, 78, 10, 21, 22, 18, 21, 19, 22, 22, 23, 11>>,
     published |-> <<7, 5, 9, 7, 16, 1, 6, 27>>],
    [text |-> <<74, 25, 10, 78, 71, 66, 25, 10, 79, 71, 76, 19, 6, 6, 1, 36, 80, 36, 78,
                82, 72, 41, 19, 20, 87, 23, 18, 66, 22, 16, 0, 16, 17, 11, 11>>,
     published |-> <<29, 17, 3, 5, 0, 3, 11, 25>>],
    [text |-> <<78, 74, 25, 10, 74, 70, 73, 75, 22, 21, 68, 76, 67, 75, 64, 10, 2, 14, 79,
                71, 76, 19, 82, 16, 0, 16, 17, 14, 79, 71, 76, 19, 83, 16, 0, 16, 17, 11, 11>>,
     published |-> <<2, 30, 20, 20, 20, 11, 24, 18>>] }

Desc == INSTANCE DescriptorChecksum WITH
  Descriptors <- MCDescriptors, Typos <- {1, 32}, MostTypos <- 2,
  descriptor <- r1, at <- r2, typos <- r3, s <- r4, result <- r5
-----------------------------------------------------------------------------
(* Paths.  Every text of up to three characters, and longer ones that      *)
(* combine the marker, blanks, hardened steps and numbers around Hardened; *)
(* two calls from keys of two networks, one of them with a missing child.  *)
ByDepth(p, q) == Len(p.path) < Len(q.path)
MCPathTexts ==
  UNION {[1 .. n -> {"1", "2", "h", "m", "/", "sp"}] : n \in 0 .. 3}
    \cup { <<"m", "/", "0", "/", "1">>, <<"0", "/", "1", "1", "/", "1">>,
           <<"m", "/", "1", "2", "/", "1">>, <<"m", "/", "1", "h", "/", "2">>,
           <<"1", "/", "1", "2">>, <<"2", "/", "/", "m">>, <<"m", "/", "1", "1", "h">>,
           <<"0", "/", "2", "/", "1", "/", "1">>, <<"sp", "m", "/", "1", "/", "2", "sp">>,
           <<"0", "/", "sup">>, <<"sup", "h">> }

MCNoChild == {<<[seed |-> "a", path |-> <<2, 0>>], 1>>}
MCKeys    == {[network |-> "mainnet", seed |-> "a", path |-> <<2>>],
              [network |-> "testnet", seed |-> "a", path |-> <<>>]}

-----------------------------------------------------------------------------
(* Configuration files.  Every form of line, values that hold the          *)
(* characters the reader acts on, a switch turned off, and ports that are  *)
(* numbers, padded or missing.                                             *)
Written(name, value, form) == [key |-> <<name>>, value |-> value, form |-> form]
MCSettings ==
  { Written("rpcpassword", <<"a", "=", "b", "#", "c">>, form) :
      form \in {"plain", "spaced", "quoted", "commented", "disabled"} }
  \cup { Written("rpcpassword", v, "quoted") :
           v \in {<<>>, <<"sp", "a", "sp">>, <<"dq", "a", "dq">>, <<"sq">>} }
  \cup { Written("rpcpassword", <<"dq">>, "single"), Written("rpcpassword", <<"sq", "a">>, "plain"),
         Written("rpcpassword", <<"a">>, "bare"), Written("rpcuser", <<"u">>, "plain"),
         Written("testnet", <<"test">>, "section"), Written("testnet", <<>>, "blank"),
         Written("testnet", <<"1">>, "plain"), Written("testnet", <<"0">>, "spaced"),
         Written("signet", <<"true">>, "single"), Written("regtest", <<"1">>, "plain"),
         Written("regtest", <<"1">>, "commented"), Written("chain", <<"testnet4">>, "plain"),
         Written("chain", <<"main">>, "plain"), Written("chain", <<"regtest">>, "spaced"),
         Written("rpcport", <<"8332">>, "plain"), Written("rpcport", <<"sp", "18443">>, "quoted"),
         Written("rpcport", <<>>, "spaced"), Written("rpcport", <<"x">>, "plain"),
         Written("rpcwallet", <<"w">>, "plain"), Written("rpcwallet", <<>>, "plain"),
         Written("rpcconnect", <<"h">>, "spaced") }

MCWallets  == {<<"None">>, <<>>, <<"watch">>}
MCNumerals == ("8332" :> 8332) @@ ("18443" :> 18443)

(* The settings, the keys and the texts are such as there can be.          *)
ASSUME SettingsGiven /\ KeysGiven /\ TextsGiven

-----------------------------------------------------------------------------
(* Maps.  Keys of which one begins another, values of lengths around every *)
(* limit of a CompactSize (values of zeros look like ends of maps),        *)
(* entries in every order and entries added twice.                         *)
Zeros(n)   == [k \in 1 .. n |-> 0]
MapEntries == {<<1>>, <<1, 0>>, <<2, 4, 4, 1, 0>>} \X ({Zeros(n) : n \in {1, 2, 5, 25}} \cup {<<4, 3>>})
MCLists ==
  {entries \in {<<>>} \cup {<<e>> : e \in MapEntries}
                 \cup {<<e, f>> : e \in MapEntries,
                                  f \in {f \in MapEntries : f[2] \in {<<0>>, <<4, 3>>}}} :
     \A j, k \in DOMAIN entries : entries[j][1] = entries[k][1] => entries[j] = entries[k]}

Maps == INSTANCE PsbtMaps WITH
  Base <- 5, Width <- <<1, 2, 3>>, VersionSize <- 1, OutpointSize <- 1, SequenceSize <- 1,
  AmountSize <- 1, LocktimeSize <- 1, Offered <- MCLists, MostMaps <- 2,
  lists <- r1, file <- r2, at <- r3, found <- r4

-----------------------------------------------------------------------------
Free == "free"

(* The registers from the n-th on are not in use.                          *)
Free6 == r6 = Free
Free5 == r5 = Free /\ Free6
Free3 == r3 = Free /\ r4 = Free /\ Free5
Free1 == r1 = Free /\ r2 = Free /\ Free3

(* A key that is only held and an empty file, while others are under way.  *)
OneKey  == CHOOSE k \in MCKeys : TRUE
NoPaths == Init /\ from = OneKey /\ key.version \in {"zpub", "vpub"}
NoFile  == ConfigInit /\ file = <<>>

LibInit ==
  /\ PointsInit
  /\ \/ subject = "points" /\ NoPaths /\ NoFile /\ Free1
     \/ subject = "paths"  /\ Init /\ NoFile /\ Free1
     \/ subject = "config" /\ ConfigInit /\ NoPaths /\ Free1
     \/ /\ NoPaths /\ NoFile
        /\ \/ subject = "groups"      /\ Groups!Init  /\ Free6
           \/ subject = "base58"      /\ B58!Init     /\ Free3
           \/ subject = "padding"     /\ Padding!Init /\ Free3
           \/ subject = "addresses"   /\ Codec!Init   /\ Free6
           \/ subject = "bech32"      /\ Bech32!Init
           \/ subject = "descriptors" /\ Desc!Init    /\ Free6
           \/ subject = "maps"        /\ Maps!Init    /\ Free5

(* The component whose turn it is leaves the others as they are.           *)
Registers   == <<r1, r2, r3, r4, r5, r6>>
Uses(which) == subject = which /\ UNCHANGED <<subject, pointVars, vars, configVars>>
Rest6 == UNCHANGED r6
Rest5 == UNCHANGED <<r5, r6>>
Rest3 == UNCHANGED <<r3, r4, r5, r6>>

CurveNext ==
  LET Own == subject = "points" /\ UNCHANGED <<subject, vars, configVars, Registers>>
  IN  \/ Own /\ Start
      \/ Own /\ DoubleAndAdd
      \/ Own /\ EndTimes
      \/ Own /\ EndChild
      \/ Own /\ EndTaproot
GroupsNext ==
  \/ Uses("groups") /\ Rest6 /\ \E value \in r1.values : Groups!Take(value)
  \/ Uses("groups") /\ Rest6 /\ Groups!EndPadded
  \/ Uses("groups") /\ Rest6 /\ Groups!EndClean
EncodingNext ==
  \/ Uses("base58") /\ Rest3 /\ B58!Next
  \/ Uses("padding") /\ Rest3 /\ Padding!Grow
  \/ Uses("addresses") /\ Rest6 /\ Codec!Next
ChecksumNext ==
  \/ Uses("bech32") /\ Bech32!Copy
  \/ Uses("bech32") /\ Bech32!Substitute
  \/ Uses("bech32") /\ Bech32!Repeat
  \/ Uses("bech32") /\ Bech32!Miss
  \/ Uses("descriptors") /\ Rest6 /\ Desc!Copy
  \/ Uses("descriptors") /\ Rest6 /\ Desc!Mistype
  \/ Uses("descriptors") /\ Rest6 /\ Desc!Swap
  \/ Uses("descriptors") /\ Rest6 /\ Desc!Unsupported
  \/ Uses("descriptors") /\ Rest6 /\ Desc!Return
PathsNext ==
  LET Own == subject = "paths" /\ UNCHANGED <<subject, pointVars, configVars, Registers>>
  IN  \/ Own /\ Convert
      \/ Own /\ \E t \in Texts : DerivePath(t)
      \/ Own /\ Skip
      \/ Own /\ Refuse
      \/ Own /\ DeriveChild
      \/ Own /\ Return
FilesNext ==
  \/ subject = "config" /\ UNCHANGED <<subject, pointVars, vars, Registers>> /\ ConfigNext
  \/ Uses("maps") /\ Rest5 /\ Maps!ReadEntry
  \/ Uses("maps") /\ Rest5 /\ Maps!EndMap

LibNext ==
  CurveNext \/ GroupsNext \/ EncodingNext \/ ChecksumNext \/ PathsNext \/ FilesNext

LibSpec == LibInit /\ [][LibNext]_<<subject, pointVars, vars, configVars, Registers>>

-----------------------------------------------------------------------------
(* LoopInvariant and AgreesWithSigner are stated in PublicPoints,          *)
(* KeyAtWholePath and ParsersAgree in KeyPaths, ClientAsMeant in           *)
(* ConfigReader.                                                           *)

(* Bit groups: no bit is lost on the way, padding is added only when       *)
(* needed, and unpacking accepts exactly what packing writes.              *)
RegroupsBits ==
  subject = "groups" =>
    /\ Groups!TypeOK /\ Groups!NoBitLost /\ Groups!PadsWithZeros
    /\ Groups!UnpacksOnlyPacked

(* A Base58Check text stands for one payload and a payload for one text,   *)
(* with leading zeros and ones; padded blocks stand for one message.       *)
OneToOne ==
  /\ subject = "base58" => B58!WrittenIsRead /\ B58!OneTextPerPayload
  /\ subject = "padding" => Padding!BlocksTellMessage

(* An address pays the script it was made for, on its own networks; any    *)
(* other text is refused.                                                  *)
PaysExactly == subject = "addresses" => Codec!PaysTheScript /\ Codec!DecodesExactly

(* Dust limits and data pushes are what Bitcoin Core makes of the scripts. *)
AsCore == subject = "addresses" => Codec!DustAsCore /\ Codec!PushReadsBack

(* A mistyped address is refused, a mistyped descriptor has another        *)
(* checksum; intact ones are as others publish them.                       *)
OnlyIntact ==
  /\ subject = "bech32" => Bech32!AcceptedIffIntact
  /\ subject = "descriptors" => Desc!ChecksumTellsApart

(* A signer finds the maps that were declared, in whatever order their     *)
(* entries were added.                                                     *)
FileReadsBack == subject = "maps" => Maps!MapsReadBack /\ Maps!OneFile
=============================================================================
