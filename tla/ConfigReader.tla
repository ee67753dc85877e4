---------------------------- MODULE ConfigReader ----------------------------
(***************************************************************************)
(* NodeRPC.from_config() (src/bitwalkit/rpc.py): a configuration file read *)
(* line by line, and the client made from what it sets.                    *)
(*                                                                         *)
(* A text is a sequence of tokens: words, "=", "#", "[", "]", "sp" for a   *)
(* blank, "semi" for a semicolon and "dq" and "sq" for the quotes.  A file *)
(* is what an operator meant to write: settings, each in a form, of which  *)
(* Line makes the text that is read.                                       *)
(***************************************************************************)
EXTENDS Integers, Sequences, FiniteSets, FiniteSetsExt, SequencesExt, Functions

CONSTANTS
  Settings,       \* [key, value, form] an operator may write
  MostLines,      \* bound: lines of a file
  Wallets,        \* the argument `wallet`, None or a text
  Numerals        \* words int() takes, with their values

VARIABLES file, rest, conf, client

configVars == <<file, rest, conf, client>>

None == <<"None">>

(* The text of a setting, by form.                                         *)
Line(w) ==
  CASE w.form = "plain"      -> w.key \o <<"=">> \o w.value
    [] w.form = "spaced"     -> <<"sp">> \o w.key \o <<"sp", "=", "sp">> \o w.value \o <<"sp">>
    [] w.form = "quoted"     -> w.key \o <<"=", "dq">> \o w.value \o <<"dq", "sp">>
    [] w.form = "single"     -> w.key \o <<"=", "sp", "sq">> \o w.value \o <<"sq">>
    [] w.form = "commented"  -> <<"sp", "#">> \o w.key \o <<"=">> \o w.value
    [] w.form = "disabled"   -> <<"semi">> \o w.key \o <<"=">> \o w.value
    [] w.form = "section"    -> <<"[">> \o w.value \o <<"]", "sp">>
    [] w.form = "bare"       -> w.key \o w.value
    [] w.form = "blank"      -> <<"sp">>

-----------------------------------------------------------------------------
Stripped(t) ==
  LET kept == {i \in DOMAIN t : t[i] # "sp"}
  IN  IF kept = {} THEN <<>> ELSE SubSeq(t, Min(kept), Max(kept))

SetsNothing(t) ==
  \/ t = <<>> \/ t[1] \in {"#", "semi"}
  \/ t[1] = "[" /\ Last(t) = "]"
  \/ "=" \notin ToSet(t)

Equals(t)       == {i \in DOMAIN t : t[i] = "="}
LastEqual(t)    == Max(Equals(t))                                 \* mutant
SplitAt(t)      == Min(Equals(t))

(* A lone quote begins and ends with itself and becomes nothing.           *)
Unquoted(t) ==
  IF t # <<>> /\ t[1] \in {"dq", "sq"} /\ Last(t) = t[1]
  THEN SubSeq(t, 2, Len(t) - 1) ELSE t

(* What an operator writes: a word as key, a value that is a text, and in  *)
(* an unquoted form no value with blanks or quotes around it.              *)
WellWritten(w) ==
  /\ w.form \in {"plain", "spaced", "quoted", "single", "commented", "disabled", "section",
                 "bare", "blank"}
  /\ w.key = <<w.key[1]>> /\ w.key[1] \notin {"sp", "=", "#", "semi", "[", "]", "dq", "sq"}
  /\ w.value \in Seq(ToSet(w.value)) /\ w.value # None
  /\ w.form \in {"plain", "spaced"} => Stripped(w.value) = w.value /\ Unquoted(w.value) = w.value
  /\ w.form = "bare" => "=" \notin ToSet(w.value)
SettingsGiven == MostLines \in Nat /\ \A w \in Settings : WellWritten(w)

ConfigInit ==
  /\ file \in UNION {[1 .. n -> Settings] : n \in 0 .. MostLines}
  /\ rest = file
  /\ conf = <<>>
  /\ client = [state |-> "none"]

ReadLine ==
  LET t     == Stripped(Line(Head(rest)))
      key   == Stripped(SubSeq(t, 1, SplitAt(t) - 1))
      value == Unquoted(Stripped(SubSeq(t, SplitAt(t) + 1, Len(t))))
  IN  /\ rest # <<>>
      /\ rest' = Tail(rest)
      /\ conf' = IF SetsNothing(t) THEN conf
                 ELSE [k \in DOMAIN conf \cup {key} |-> IF k = key THEN value ELSE conf[k]]
      /\ UNCHANGED <<file, client>>

-----------------------------------------------------------------------------
Get(key, default) == IF <<key>> \in DOMAIN conf THEN conf[<<key>>] ELSE default

Selected(flag, chains) ==
  Get(flag, None) \in {<<"1">>, <<"true">>} \/ Get("chain", None) \in chains

DefaultPort ==
  IF Selected("regtest", {<<"regtest">>}) THEN 18443
  ELSE IF Selected("testnet", {<<"test">>, <<"testnet3">>, <<"testnet4">>}) THEN 18332
  ELSE IF Selected("signet", {<<"signet">>}) THEN 38332
  ELSE 8332

IsNumber(t) == Len(Stripped(t)) = 1 /\ Stripped(t)[1] \in DOMAIN Numerals

MakeClient(wallet) ==
  LET explicit == Get("rpcport", None)
      name     == IF wallet \in {None, <<>>} THEN Get("rpcwallet", None) ELSE wallet
  IN  /\ rest = <<>> /\ client.state = "none"
      /\ client' =
           IF explicit # None /\ ~IsNumber(explicit) THEN [state |-> "ValueError"]
           ELSE [state    |-> "made",
                 user     |-> Get("rpcuser", None),
                 password |-> Get("rpcpassword", None),
                 host     |-> Get("rpcconnect", <<"127.0.0.1">>),
                 port     |-> IF explicit = None THEN DefaultPort
                              ELSE Numerals[Stripped(explicit)[1]],
                 wallet   |-> IF name = <<>> THEN None ELSE name,
                 argument |-> wallet]
      /\ UNCHANGED <<file, rest, conf>>

ConfigNext == ReadLine \/ \E wallet \in Wallets : MakeClient(wallet)

ConfigSpec == ConfigInit /\ [][ConfigNext]_configVars

-----------------------------------------------------------------------------
(* What the operator meant.  The last line that sets a key is meant,       *)
(* whatever section it is in.                                              *)
Active(w)    == w.form \notin {"commented", "disabled", "section", "bare", "blank"}
Lines(key)   == {i \in DOMAIN file : Active(file[i]) /\ file[i].key = <<key>>}
Meant(key)   == IF Lines(key) = {} THEN None ELSE file[Max(Lines(key))].value
ByChain(n)   == CASE n = "testnet" -> {<<"test">>, <<"testnet3">>, <<"testnet4">>}
                  [] n # "testnet" -> {<<n>>}
Networks     == {n \in {"testnet", "signet", "regtest"} :
                   Meant(n) \in {<<"1">>, <<"true">>} \/ Meant("chain") \in ByChain(n)}
PortOf       == [testnet |-> 18332, signet |-> 38332, regtest |-> 18443]

(* What the file sets is what was written: values with "=", "#", blanks or *)
(* quotes in them arrive whole, a comment or a section sets nothing, and   *)
(* of several lines for a key the last one counts.                         *)
SettingsAsWritten ==
  rest = <<>> =>
    /\ \A key \in DOMAIN conf : Len(key) = 1 /\ Lines(key[1]) # {}
    /\ \A i \in DOMAIN file :
         Active(file[i]) => Get(file[i].key[1], None) = Meant(file[i].key[1])

(* The client talks to the host, the port and the wallet that the lines    *)
(* select together, however they are ordered: the host that is set, else   *)
(* the local one; the port that is set, else that of a network which is    *)
(* switched on and not off again, else mainnet's; the wallet of the        *)
(* argument, else of the file.  Only a port that is not a number is        *)
(* refused.                                                                *)
EndpointAsMeant ==
  LET port == Meant("rpcport")
  IN  CASE client.state = "none"       -> TRUE
        [] client.state = "ValueError" -> port # None /\ ~IsNumber(port)
        [] client.state = "made"       ->
             /\ IF port # None
                THEN IsNumber(port) /\ client.port = Numerals[Stripped(port)[1]]
                ELSE client.port \in IF Networks = {} THEN {8332} ELSE {PortOf[n] : n \in Networks}
             /\ client.wallet \in {client.argument, Meant("rpcwallet"), None}
             /\ client.argument \notin {None, <<>>} => client.wallet = client.argument
             /\ client.wallet = None => Meant("rpcwallet") \in {None, <<>>}
             /\ client.wallet # <<>>
             /\ client.user = Meant("rpcuser") /\ client.password = Meant("rpcpassword")
             /\ client.host = IF Meant("rpcconnect") = None THEN <<"127.0.0.1">> ELSE Meant("rpcconnect")

(* Settings arrive as written and select the endpoint that is meant.       *)
ClientAsMeant == SettingsAsWritten /\ EndpointAsMeant
=============================================================================
