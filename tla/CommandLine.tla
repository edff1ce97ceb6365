----------------------------- MODULE CommandLine -----------------------------
(***************************************************************************)
(* One call of qrs_native_bench up to the first benchmark: main looks at   *)
(* its first argument, and either runs one of the SLH-DSA commands of      *)
(* slh_dsa_cli.cpp against OpenSSL, or the digest command, or reads the    *)
(* benchmark arguments from left to right.                                 *)
(*                                                                         *)
(* An argument is a tuple: <<"--json">> is a word, <<"path", p>> a path,   *)
(* <<"pub", k>>, <<"priv", k>>, <<"msg", m>> and <<"sig", k, m>> are hex.  *)
(* Any OpenSSL call may fail, and a provider may answer wrongly.           *)
(***************************************************************************)
EXTENDS Integers, Sequences, FiniteSets, Functions

CONSTANTS
  Calls,      \* the argument lists without argv[0]
  Keys,       \* the keys key generation can return
  Providers,  \* how the OpenSSL provider behaves, see Answers
  Available   \* whether the program can be built with OpenSSL: a set of booleans

ASSUME ProviderAssumption ==
  /\ Providers \subseteq {"sound", "accepts_all", "rejects_all", "long_key", "long_signature"}
  /\ Available \subseteq BOOLEAN

SlhCommands == {"--slh-keygen", "--slh-sign", "--slh-verify", "--slh-probe"}

ASSUME CallsAssumption ==
  \A c \in Calls :
    /\ Len(c) \in Nat /\ DOMAIN c = 1..Len(c)
    /\ c # <<>> => Len(c) > 0 /\ (c[1][1] \in SlhCommands => c[1] = <<c[1][1]>>)

VARIABLES
  argv,      \* the arguments
  provider,  \* how the provider behaves
  openssl,   \* the program was built with OpenSSL
  pc,        \* what the program is about to do
  i,         \* the argument, or the step of an SLH-DSA command, it is at
  args,      \* Args: mode, report paths and the benchmark to run
  key,       \* the key of the SLH-DSA command, None before there is one
  sig,       \* the signature it works on
  answer,    \* what it prints when it ends with 0
  exit       \* its exit code, -1 before it ends

vars == <<argv, provider, openssl, pc, i, args, key, sig, answer, exit>>

None == <<"none">>
Modes == {"--quick", "--standard", "--full"}
report(mode) == <<"default", mode>>

-----------------------------------------------------------------------------
\* arg_value: the argument behind the first such name; the command itself is skipped.
named_at(name) == {j \in 2..(Len(argv) - 1) : argv[j] = <<name>>}

arg_value(name) ==
  IF named_at(name) = {} THEN None
  ELSE argv[1 + CHOOSE j \in named_at(name) : \A k \in named_at(name) : j <= k]

IsHex(arg) == arg[1] \in {"pub", "priv", "msg", "sig"}

ProbeMessage == <<"msg", "probe">>

Steps(command) ==
  CASE command = "--slh-keygen" -> <<"generate_key">>
    [] command = "--slh-probe"  -> <<"generate_key", "sign", "verify", "mutate", "verify">>
    [] command = "--slh-sign"   -> <<"import_private", "sign">>
    [] command = "--slh-verify" -> <<"import_public", "verify">>

(* What EVP_DigestVerify returns; less than 0 is an error.                 *)
Answers(valid) ==
  CASE provider = "accepts_all" -> {-1, 1}
    [] provider = "rejects_all" -> {-1, 0}
    [] OTHER -> {-1, IF valid THEN 1 ELSE 0}

-----------------------------------------------------------------------------
Init ==
  /\ argv \in Calls
  /\ provider \in Providers
  /\ openssl \in Available
  /\ pc = "main"
  /\ i = 1
  /\ args = [mode |-> "--quick", json |-> report("--quick"), markdown |-> report("--quick"),
             only |-> "all"]
  /\ key = None /\ sig = None
  /\ answer = "none" /\ exit = -1

Exits(code) == pc' = "end" /\ exit' = code

Advances == i' = i + 1 /\ UNCHANGED <<pc, exit>>

IsSlhCall   == argv # <<>> /\ argv[1][1] \in SlhCommands
IsDigestCall == argv # <<>> /\ argv[1] = <<"--qrs-digest-vector">>

(* main looks at the first argument only; DigestModel says what the digest *)
(* command then does.                                                      *)
Dispatch ==
  /\ pc = "main"
  /\ IF IsSlhCall THEN IF openssl THEN pc' = "slh" /\ UNCHANGED exit ELSE Exits(2)
     ELSE IF IsDigestCall
       THEN IF Len(argv) = 2 THEN pc' = "digest" /\ UNCHANGED exit ELSE Exits(3)
       ELSE pc' = "parse_args" /\ UNCHANGED exit
  /\ UNCHANGED <<argv, provider, openssl, i, args, key, sig, answer>>

\* Mutant: a mode leaves the report paths alone.
ParseModeOnly ==
  /\ pc = "parse_args" /\ i <= Len(argv)
  /\ \E m \in Modes : argv[i] = <<m>> /\ args' = [args EXCEPT !.mode = m]
  /\ Advances
  /\ UNCHANGED <<argv, provider, openssl, key, sig, answer>>

\* A mode brings its own report paths, over those named before it.
ParseMode ==
  /\ pc = "parse_args" /\ i <= Len(argv)
  /\ \E m \in Modes :
       /\ argv[i] = <<m>>
       /\ args' = [args EXCEPT !.mode = m, !.json = report(m), !.markdown = report(m)]
  /\ Advances
  /\ UNCHANGED <<argv, provider, openssl, key, sig, answer>>

Takes(name) == argv[i] = <<name>> /\ i < Len(argv)

\* The next argument is the value, whatever it is.
ParseValue ==
  /\ pc = "parse_args" /\ i <= Len(argv)
  /\ \/ Takes("--json") /\ args' = [args EXCEPT !.json = argv[i + 1]]
     \/ Takes("--markdown") /\ args' = [args EXCEPT !.markdown = argv[i + 1]]
     \/ Takes("--only") /\ args' = [args EXCEPT !.only = argv[i + 1][1]]
  /\ i' = i + 2
  /\ UNCHANGED <<argv, provider, openssl, pc, key, sig, answer, exit>>

\* --help ends the program; what is not known, or lacks its value, throws.
ParseStops ==
  /\ pc = "parse_args" /\ i <= Len(argv)
  /\ argv[i] \notin {<<m>> : m \in Modes}
  /\ ~\E name \in {"--json", "--markdown", "--only"} : Takes(name)
  /\ Exits(IF argv[i] \in {<<"--help">>, <<"-h">>} THEN 0 ELSE 1)
  /\ UNCHANGED <<argv, provider, openssl, i, args, key, sig, answer>>

\* From here on it is BenchReport's run; it ends with 0 or 1.
Benchmark ==
  /\ pc = "parse_args" /\ i > Len(argv)
  /\ \E code \in {0, 1} : Exits(code)
  /\ UNCHANGED <<argv, provider, openssl, i, args, key, sig, answer>>

DigestVector ==
  /\ pc = "digest"
  /\ \E code \in {0, 2} : Exits(code) /\ answer' = IF code = 0 THEN "digest" ELSE "none"
  /\ UNCHANGED <<argv, provider, openssl, i, args, key, sig>>

-----------------------------------------------------------------------------
(* The SLH-DSA commands.  Whatever throws ends them with 2: an OpenSSL call *)
(* that fails, an argument that is missing or no hex, a wrong length.      *)
Step == Steps(argv[1][1])
At(step) == pc = "slh" /\ i <= Len(Step) /\ Step[i] = step

SlhThrows ==
  /\ pc = "slh" /\ i <= Len(Step) /\ Step[i] # "mutate"
  /\ Exits(2)
  /\ UNCHANGED <<argv, provider, openssl, i, args, key, sig, answer>>

\* A generated key of another length is refused.
GenerateKey ==
  /\ At("generate_key") /\ provider # "long_key"
  /\ key' \in {<<"priv", k>> : k \in Keys}
  /\ Advances
  /\ UNCHANGED <<argv, provider, openssl, args, sig, answer>>

ImportPrivate ==
  /\ At("import_private")
  /\ arg_value("--private-key-hex")[1] = "priv" /\ IsHex(arg_value("--message-hex"))
  /\ key' = arg_value("--private-key-hex")
  /\ Advances
  /\ UNCHANGED <<argv, provider, openssl, args, sig, answer>>

\* Any 32 bytes are taken as a public key, those of a message, too.
ImportPublic ==
  /\ At("import_public")
  /\ arg_value("--public-key-hex")[1] \in {"pub", "msg"}
  /\ IsHex(arg_value("--message-hex")) /\ IsHex(arg_value("--signature-hex"))
  /\ key' = arg_value("--public-key-hex")
  /\ sig' = arg_value("--signature-hex")
  /\ Advances
  /\ UNCHANGED <<argv, provider, openssl, args, answer>>

message == IF argv[1] = <<"--slh-probe">> THEN ProbeMessage ELSE arg_value("--message-hex")

\* A signature of another length is refused.
Sign ==
  /\ At("sign") /\ provider # "long_signature"
  /\ sig' = <<"sig", key[2], message>>
  /\ Advances
  /\ UNCHANGED <<argv, provider, openssl, args, key, answer>>

\* Mutant: a copy of the signature is flipped.
MutateCopy ==
  /\ At("mutate")
  /\ Advances
  /\ UNCHANGED <<argv, provider, openssl, args, key, sig, answer>>

Mutate ==
  /\ At("mutate")
  /\ sig' = <<"flipped", sig>>
  /\ Advances
  /\ UNCHANGED <<argv, provider, openssl, args, key, answer>>

\* key is the signer's, too, when the probe imports its public half.
SignedBy(k) == sig = <<"sig", k[2], message>> /\ k[1] \in {"pub", "priv"}

\* Mutant: an error of the verifier is a refusal, too.
throws_never(rc) == FALSE

\* EVP_DigestVerify is wrong with the call, not with the signature.
throws(rc) == rc < 0

\* The probe goes on when the signature is accepted, and the flipped one refused.
Verify ==
  /\ At("verify")
  /\ \E rc \in Answers(SignedBy(key)) :
       IF throws(rc) \/ (argv[1] = <<"--slh-probe">> /\ (rc = 1) # (sig[1] = "sig"))
         THEN Exits(2) /\ UNCHANGED <<i, answer>>
         ELSE /\ answer' = IF rc = 1 THEN "valid" ELSE "invalid"
              /\ Advances
  /\ UNCHANGED <<argv, provider, openssl, args, key, sig>>

\* What the command prints: a verdict, a signature, a key pair, "available".
PrintAnswer ==
  /\ pc = "slh" /\ i > Len(Step)
  /\ answer' = CASE argv[1] = <<"--slh-verify">> -> answer
                 [] argv[1] = <<"--slh-sign">>   -> "signature"
                 [] argv[1] = <<"--slh-keygen">> -> "key"
                 [] argv[1] = <<"--slh-probe">>  -> "available"
  /\ Exits(0)
  /\ UNCHANGED <<argv, provider, openssl, i, args, key, sig>>

Next ==
  \/ Dispatch \/ ParseMode \/ ParseValue \/ ParseStops \/ Benchmark \/ DigestVector
  \/ SlhThrows \/ GenerateKey \/ ImportPrivate \/ ImportPublic
  \/ Sign \/ Mutate \/ Verify \/ PrintAnswer

Spec == Init /\ [][Next]_vars

-----------------------------------------------------------------------------
(* Report paths are the modes' defaults or paths of the command line.      *)
TypeOK ==
  /\ pc \in {"main", "parse_args", "digest", "slh", "end"}
  /\ i \in Nat
  /\ args.mode \in Modes
  /\ args.json \in Range(argv) \cup {report(m) : m \in Modes}
  /\ args.markdown \in Range(argv) \cup {report(m) : m \in Modes}
  /\ answer \in {"none", "valid", "invalid", "signature", "key", "available", "digest"}
  /\ exit \in -1..3 /\ (exit = -1 <=> pc # "end")

(* A run never writes its numbers over the default report of another mode: *)
(* each report goes to the path of its own mode or to one that was named,  *)
(* whatever the order of the arguments.                                    *)
ReportsOfItsMode ==
  pc = "parse_args" =>
    \A path \in {args.json, args.markdown} : path = report(args.mode) \/ path \in Range(argv)

(* A verdict on a signature is about the key, the message and the          *)
(* signature that were named.  A working provider's "invalid" is never the *)
(* trace of an error, and without a verdict the exit code tells.           *)
VerdictHolds ==
  exit # -1 /\ argv # <<>> /\ argv[1] = <<"--slh-verify">> =>
    /\ exit = 0 <=> answer \in {"valid", "invalid"}
    /\ exit = 0 /\ provider \notin {"accepts_all", "rejects_all"} =>
         LET named == arg_value("--public-key-hex")
         IN  answer = "valid" <=>
               /\ named[1] = "pub"
               /\ arg_value("--signature-hex") =
                    <<"sig", named[2], arg_value("--message-hex")>>

(* The backend is called available only if it makes keys and signatures of *)
(* the length of the rule, and tells a signature from a flipped one.       *)
AvailableIsSound == answer = "available" => exit = 0 /\ openssl /\ provider = "sound"

(* The answers of the SLH-DSA commands hold: the verdict on a signature,   *)
(* and the probe's word that the provider can be relied on.                *)
AnswerHolds == VerdictHolds /\ AvailableIsSound

=============================================================================
