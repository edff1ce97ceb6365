-------------------------- MODULE CommandLineProofs --------------------------
(***************************************************************************)
(* Theorems of CommandLine for all argument lists, keys and providers:     *)
(* where the reports of a benchmark go, and that the answers of the        *)
(* SLH-DSA commands hold.                                                  *)
(***************************************************************************)
EXTENDS CommandLine, TLAPS

Paths == Range(argv) \cup {report(m) : m \in Modes}

(* The report paths stay those of the mode or of the command line.         *)
Parsed ==
  /\ args = [mode |-> args.mode, json |-> args.json, markdown |-> args.markdown,
             only |-> args.only]
  /\ args.mode \in Modes
  /\ \A path \in {args.json, args.markdown} : path = report(args.mode) \/ path \in Range(argv)

Sound == provider \notin {"accepts_all", "rejects_all"}

(* What each step of an SLH-DSA command has behind it.                     *)
Commanded ==
  pc = "slh" =>
    /\ IsSlhCall /\ openssl /\ i \in 1..(Len(Step) + 1)
    /\ answer = "none" \/ (i > 2 /\ argv[1] = <<"--slh-verify">>) \/ argv[1] = <<"--slh-probe">>
    /\ answer \in {"none", "valid", "invalid"}
    /\ argv[1] = <<"--slh-verify">> =>
         /\ i > 1 => /\ key = arg_value("--public-key-hex") /\ key[1] \in {"pub", "msg"}
                     /\ sig = arg_value("--signature-hex")
         /\ i > 2 => /\ answer \in {"valid", "invalid"}
                     /\ Sound => (answer = "valid" <=> SignedBy(key))
    /\ argv[1] = <<"--slh-probe">> =>
         /\ i > 1 => provider # "long_key" /\ key[1] = "priv"
         /\ i > 2 => provider # "long_signature"
         /\ i \in {3, 4} => sig[1] = "sig"
         /\ i > 3 => provider # "rejects_all"
         /\ i > 4 => sig[1] = "flipped"
         /\ i > 5 => provider # "accepts_all"

(* Where the program is, and that only an answer comes with 0.             *)
Located ==
  /\ argv \in Calls /\ provider \in Providers /\ openssl \in Available
  /\ pc \in {"main", "parse_args", "digest", "slh", "end"}
  /\ i \in Nat /\ exit \in -1..3 /\ (exit = -1 <=> pc # "end")
  /\ pc = "main" => i = 1
  /\ pc \in {"main", "parse_args", "digest"} => answer = "none"
  /\ pc = "parse_args" => ~IsSlhCall /\ i \in 1..(Len(argv) + 1)
  /\ pc = "digest" => IsDigestCall
  /\ answer \in {"none", "valid", "invalid", "signature", "key", "available", "digest"}

IInv == Located /\ Parsed /\ Commanded /\ AnswerHolds

-----------------------------------------------------------------------------
(* The steps of each command.                                              *)
LEMMA StepsOf ==
  ASSUME argv \in Calls, IsSlhCall
  PROVE  \/ argv[1] = <<"--slh-keygen">> /\ Step = <<"generate_key">>
         \/ /\ argv[1] = <<"--slh-probe">>
            /\ Step = <<"generate_key", "sign", "verify", "mutate", "verify">>
         \/ argv[1] = <<"--slh-sign">> /\ Step = <<"import_private", "sign">>
         \/ argv[1] = <<"--slh-verify">> /\ Step = <<"import_public", "verify">>
<1>1. argv[1] = <<argv[1][1]>> /\ argv[1][1] \in SlhCommands
  BY CallsAssumption DEF IsSlhCall
<1>. QED
  BY <1>1 DEF SlhCommands, Step, Steps

(* Nothing is parsed, made or answered yet.                                *)
LEMMA Initially == Init => IInv
<1>. SUFFICES ASSUME Init PROVE IInv
  OBVIOUS
<1>1. Parsed
  BY DEF Init, Parsed, Modes
<1>2. Located
  BY DEF Init, Located
<1>3. Commanded /\ AnswerHolds
  BY DEF Init, Commanded, AnswerHolds, VerdictHolds, AvailableIsSound
<1>. QED
  BY <1>1, <1>2, <1>3 DEF IInv

(* Only arguments that are parsed move the report paths.                   *)
LEMMA KeepsPaths == ASSUME Parsed, UNCHANGED <<argv, args>> PROVE Parsed'
BY DEF Parsed

(* The first argument decides which part of the program goes on.           *)
LEMMA DispatchStep == ASSUME IInv, Dispatch PROVE IInv'
<1>1. Parsed'
  BY KeepsPaths DEF IInv, Dispatch
<1>2. Located'
  BY CallsAssumption DEF IInv, Located, Dispatch, Exits, IsSlhCall, IsDigestCall
<1>3. Commanded'
  <2>. SUFFICES ASSUME pc' = "slh" PROVE Commanded'
    BY DEF Commanded
  <2>1. IsSlhCall /\ openssl /\ i = 1 /\ answer = "none" /\ argv \in Calls
        /\ UNCHANGED <<argv, provider, openssl, i, key, sig, answer>>
    BY DEF IInv, Located, Dispatch, Exits
  <2>2. 1 \in 1..(Len(Step) + 1)
    BY <2>1, StepsOf
  <2>. QED
    BY <2>1, <2>2 DEF Commanded, IsSlhCall, Step
<1>4. AnswerHolds'
  <2>1. answer' = "none" /\ exit' \in {-1, 2, 3}
    BY DEF IInv, Located, Dispatch, Exits
  <2>. QED
    BY <2>1 DEF AnswerHolds, VerdictHolds, AvailableIsSound
<1>. QED
  BY <1>1, <1>2, <1>3, <1>4 DEF IInv

(* What ends without an SLH-DSA command leaves nothing to answer for.      *)
LEMMA NotSlh ==
  ASSUME pc' # "slh", ~IsSlhCall, answer' \in {"none", "digest"}, UNCHANGED argv
  PROVE  Commanded' /\ AnswerHolds'
BY DEF Commanded, AnswerHolds, VerdictHolds, AvailableIsSound, IsSlhCall, SlhCommands

(* Parsing keeps the report paths those of the mode.                       *)
LEMMA ParseStep ==
  ASSUME IInv, ParseMode \/ ParseValue \/ ParseStops \/ Benchmark
  PROVE  IInv'
<1>1. /\ pc = "parse_args" /\ argv \in Calls /\ ~IsSlhCall /\ answer = "none" /\ exit = -1
      /\ i \in 1..(Len(argv) + 1) /\ UNCHANGED <<argv, provider, openssl, answer>>
      /\ Len(argv) \in Nat /\ DOMAIN argv = 1..Len(argv)
  BY CallsAssumption DEF IInv, Located, ParseMode, ParseValue, ParseStops, Benchmark
<1>2. Parsed
  BY DEF IInv
<1>3. Parsed' /\ Located'
  <2>1. CASE ParseMode
    <3>1. PICK m \in Modes :
            args' = [args EXCEPT !.mode = m, !.json = report(m), !.markdown = report(m)]
      BY <2>1 DEF ParseMode
    <3>2. Parsed'
      BY <1>1, <1>2, <3>1 DEF Parsed
    <3>3. pc' = pc /\ exit' = exit /\ i' = i + 1 /\ i <= Len(argv)
      BY <2>1 DEF ParseMode, Advances
    <3>. QED
      BY <1>1, <3>2, <3>3 DEF IInv, Located, IsSlhCall
  <2>2. CASE ParseValue
    <3>1. /\ i' = i + 2 /\ i < Len(argv) /\ UNCHANGED <<pc, exit>>
          /\ \/ args' = [args EXCEPT !.json = argv[i + 1]]
             \/ args' = [args EXCEPT !.markdown = argv[i + 1]]
             \/ args' = [args EXCEPT !.only = argv[i + 1][1]]
      BY <2>2 DEF ParseValue, Takes
    <3>2. argv[i + 1] \in Range(argv)
      BY <1>1, <3>1 DEF Range
    <3>3. Parsed'
      BY <1>1, <1>2, <3>1, <3>2 DEF Parsed
    <3>. QED
      BY <1>1, <3>1, <3>3 DEF IInv, Located, IsSlhCall
  <2>3. CASE ParseStops \/ Benchmark
    <3>1. pc' = "end" /\ exit' \in {0, 1} /\ UNCHANGED <<i, args>>
      BY <2>3 DEF ParseStops, Benchmark, Exits
    <3>. QED
      BY <1>1, <1>2, <3>1, KeepsPaths DEF IInv, Located
  <2>. QED
    BY <2>1, <2>2, <2>3
<1>4. pc' # "slh"
  BY <1>1 DEF ParseMode, ParseValue, ParseStops, Benchmark, Exits, Advances
<1>. QED
  BY <1>1, <1>3, <1>4, NotSlh DEF IInv

(* The digest of a vector has nothing to do with a signature.              *)
LEMMA DigestStep == ASSUME IInv, DigestVector PROVE IInv'
<1>1. /\ pc' = "end" /\ exit' \in {0, 2} /\ answer' \in {"none", "digest"}
      /\ UNCHANGED <<argv, provider, openssl, i, args>>
  BY DEF DigestVector, Exits
<1>2. ~IsSlhCall
  BY DEF IInv, Located, DigestVector, IsDigestCall, IsSlhCall, SlhCommands
<1>3. Parsed' /\ Located'
  BY <1>1, KeepsPaths DEF IInv, Located
<1>. QED
  BY <1>1, <1>2, <1>3, NotSlh DEF IInv

-----------------------------------------------------------------------------
(* An SLH-DSA command goes on to its next step.                            *)
LEMMA SlhLocated ==
  ASSUME IInv, pc = "slh", UNCHANGED <<argv, provider, openssl, args>>,
         answer' \in {answer, "valid", "invalid", "signature", "key", "available"},
         \/ i' = i + 1 /\ UNCHANGED <<pc, exit>>
         \/ UNCHANGED i /\ pc' = "end" /\ exit' \in {0, 2}
  PROVE  Located' /\ Parsed'
BY KeepsPaths DEF IInv, Located

(* An exception ends a command without an answer.                          *)
LEMMA SlhThrowsStep == ASSUME IInv, SlhThrows PROVE IInv'
<1>1. /\ pc = "slh" /\ pc' = "end" /\ exit' = 2 /\ i <= Len(Step)
      /\ UNCHANGED <<argv, provider, openssl, i, args, answer>>
  BY DEF SlhThrows, Exits
<1>2. Located' /\ Parsed' /\ Commanded'
  BY <1>1, SlhLocated DEF Commanded
<1>3. answer # "available" /\ (argv[1] = <<"--slh-verify">> => answer = "none")
  <2>1. /\ argv \in Calls /\ IsSlhCall /\ answer \in {"none", "valid", "invalid"} /\ i \in Nat
        /\ answer = "none" \/ (i > 2 /\ argv[1] = <<"--slh-verify">>) \/ argv[1] = <<"--slh-probe">>
    BY <1>1 DEF IInv, Located, Commanded
  <2>2. ASSUME argv[1] = <<"--slh-verify">> PROVE answer = "none"
    <3>1. Len(Step) = 2
      BY <2>1, <2>2, StepsOf
    <3>. QED
      BY <1>1, <2>1, <2>2, <3>1
  <2>. QED
    BY <2>1, <2>2
<1>4. AnswerHolds'
  BY <1>1, <1>3 DEF AnswerHolds, VerdictHolds, AvailableIsSound
<1>. QED
  BY <1>2, <1>4 DEF IInv

(* The steps before a verdict.                                             *)
LEMMA WorkStep ==
  ASSUME IInv, GenerateKey \/ ImportPrivate \/ ImportPublic \/ Sign \/ Mutate
  PROVE  IInv'
<1>1. /\ pc = "slh" /\ i' = i + 1 /\ UNCHANGED <<pc, exit, argv, provider, openssl, args, answer>>
      /\ i <= Len(Step) /\ exit = -1 /\ argv \in Calls /\ i \in Nat
  BY DEF IInv, Located, GenerateKey, ImportPrivate, ImportPublic, Sign, Mutate, At, Advances
<1>2. IsSlhCall /\ openssl /\ i \in 1..(Len(Step) + 1)
  BY <1>1 DEF IInv, Commanded
<1>3. Located' /\ Parsed'
  BY <1>1, SlhLocated
<1>4. AnswerHolds'
  <2>1. answer' # "available" /\ exit' = -1
    BY <1>1 DEF IInv, Commanded
  <2>. QED
    BY <2>1 DEF AnswerHolds, VerdictHolds, AvailableIsSound
<1>5. UNCHANGED Step /\ IsSlhCall'
  BY <1>1, <1>2 DEF Step, IsSlhCall
<1>6. Commanded'
  <2>1. CASE argv[1] \in {<<"--slh-keygen">>, <<"--slh-sign">>}
    <3>1. Len(Step) \in {1, 2}
      BY <1>1, <1>2, <2>1, StepsOf
    <3>. QED
      BY <1>1, <1>2, <1>5, <2>1, <3>1 DEF IInv, Commanded
  <2>2. CASE argv[1] = <<"--slh-verify">>
    <3>1. Step = <<"import_public", "verify">>
      BY <1>1, <1>2, <2>2, StepsOf
    <3>2. i = 1 /\ ImportPublic
      BY <1>1, <1>2, <3>1 DEF GenerateKey, ImportPrivate, ImportPublic, Sign, Mutate, At
    <3>3. /\ key' = arg_value("--public-key-hex") /\ key'[1] \in {"pub", "msg"}
          /\ sig' = arg_value("--signature-hex")
      BY <3>2 DEF ImportPublic
    <3>4. arg_value("--public-key-hex")' = arg_value("--public-key-hex")
          /\ arg_value("--signature-hex")' = arg_value("--signature-hex")
      BY <1>1 DEF arg_value, named_at
    <3>. QED
      BY <1>1, <1>2, <1>5, <2>2, <3>1, <3>2, <3>3, <3>4 DEF IInv, Commanded
  <2>3. CASE argv[1] = <<"--slh-probe">>
    <3>1. Step = <<"generate_key", "sign", "verify", "mutate", "verify">>
      BY <1>1, <1>2, <2>3, StepsOf
    <3>2. \/ i = 1 /\ GenerateKey
          \/ i = 2 /\ Sign
          \/ i = 4 /\ Mutate
      BY <1>1, <1>2, <3>1 DEF GenerateKey, ImportPrivate, ImportPublic, Sign, Mutate, At
    <3>3. /\ GenerateKey => provider # "long_key" /\ key'[1] = "priv"
          /\ Sign => provider # "long_signature" /\ sig'[1] = "sig" /\ key' = key
          /\ Mutate => sig'[1] = "flipped" /\ key' = key
      BY DEF GenerateKey, Sign, Mutate
    <3>. QED
      BY <1>1, <1>2, <1>5, <2>3, <3>1, <3>2, <3>3 DEF IInv, Commanded
  <2>. QED
    BY <1>1, <1>2, <2>1, <2>2, <2>3, StepsOf
<1>. QED
  BY <1>3, <1>4, <1>6 DEF IInv

(* A verdict, or the end of the command.                                   *)
LEMMA VerifyStep == ASSUME IInv, Verify PROVE IInv'
<1>1. /\ pc = "slh" /\ UNCHANGED <<argv, provider, openssl, args, key, sig>>
      /\ i \in Nat /\ i <= Len(Step) /\ Step[i] = "verify" /\ exit = -1 /\ argv \in Calls
  BY DEF IInv, Located, Verify, At
<1>2. IsSlhCall /\ openssl /\ i \in 1..(Len(Step) + 1) /\ answer \in {"none", "valid", "invalid"}
  BY <1>1 DEF IInv, Commanded
<1>3. PICK rc \in Answers(SignedBy(key)) :
        IF throws(rc) \/ (argv[1] = <<"--slh-probe">> /\ (rc = 1) # (sig[1] = "sig"))
          THEN Exits(2) /\ UNCHANGED <<i, answer>>
          ELSE /\ answer' = IF rc = 1 THEN "valid" ELSE "invalid"
               /\ Advances
  BY DEF Verify
<1>4. rc \in {-1, 0, 1} /\ (throws(rc) <=> rc = -1)
  BY <1>3 DEF Answers, throws
<1>5. \/ argv[1] = <<"--slh-verify">> /\ i = 2 /\ Len(Step) = 2
      \/ argv[1] = <<"--slh-probe">> /\ i \in {3, 5} /\ Len(Step) = 5
  BY <1>1, <1>2, StepsOf
<1>6. CASE throws(rc) \/ (argv[1] = <<"--slh-probe">> /\ (rc = 1) # (sig[1] = "sig"))
  <2>1. pc' = "end" /\ exit' = 2 /\ UNCHANGED <<i, answer>>
    BY <1>3, <1>6 DEF Exits
  <2>2. argv[1] = <<"--slh-verify">> => answer = "none"
    BY <1>1, <1>5 DEF IInv, Commanded
  <2>3. AnswerHolds'
    BY <1>1, <1>2, <2>1, <2>2 DEF AnswerHolds, VerdictHolds, AvailableIsSound
  <2>4. Located' /\ Parsed'
    BY <1>1, <2>1, SlhLocated
  <2>. QED
    BY <2>1, <2>3, <2>4 DEF IInv, Commanded
<1>7. CASE ~(throws(rc) \/ (argv[1] = <<"--slh-probe">> /\ (rc = 1) # (sig[1] = "sig")))
  <2>1. /\ answer' = (IF rc = 1 THEN "valid" ELSE "invalid")
        /\ i' = i + 1 /\ UNCHANGED <<pc, exit>> /\ rc # -1
    BY <1>3, <1>4, <1>7 DEF Advances
  <2>2. Located' /\ Parsed'
    BY <1>1, <2>1, SlhLocated
  <2>3. AnswerHolds'
    BY <1>1, <2>1 DEF AnswerHolds, VerdictHolds, AvailableIsSound
  <2>4. Sound => (rc = 1 <=> SignedBy(key))
    BY <1>3, <1>4, <2>1 DEF Answers, Sound
  <2>5. UNCHANGED Step /\ IsSlhCall'
    BY <1>1, <1>2 DEF Step, IsSlhCall
  <2>6. Commanded'
    <3>1. CASE argv[1] = <<"--slh-verify">>
      <4>1. /\ SignedBy(key)' <=> SignedBy(key)
            /\ arg_value("--public-key-hex")' = arg_value("--public-key-hex")
            /\ arg_value("--signature-hex")' = arg_value("--signature-hex")
        BY <1>1 DEF SignedBy, message, arg_value, named_at
      <4>2. /\ key = arg_value("--public-key-hex") /\ key[1] \in {"pub", "msg"}
            /\ sig = arg_value("--signature-hex") /\ i = 2 /\ Len(Step) = 2
        BY <1>1, <1>5, <3>1 DEF IInv, Commanded
      <4>3. Sound' <=> Sound
        BY <1>1 DEF Sound
      <4>. QED
        BY <1>1, <1>2, <2>1, <2>4, <2>5, <3>1, <4>1, <4>2, <4>3 DEF Commanded
    <3>2. CASE argv[1] = <<"--slh-probe">>
      <4>1. (rc = 1 <=> sig[1] = "sig") /\ i \in {3, 5} /\ Len(Step) = 5
        BY <1>5, <1>7, <3>2
      <4>2. /\ i = 3 => rc = 1 /\ provider # "rejects_all"
            /\ i = 5 => rc # 1 /\ provider # "accepts_all"
        BY <1>1, <1>3, <1>4, <2>1, <3>2, <4>1 DEF IInv, Commanded, Answers
      <4>. QED
        BY <1>1, <1>2, <2>1, <2>5, <3>2, <4>1, <4>2 DEF IInv, Commanded
    <3>. QED
      BY <1>5, <3>1, <3>2
  <2>. QED
    BY <2>2, <2>3, <2>6 DEF IInv
<1>. QED
  BY <1>6, <1>7

(* What is printed in the end rests on all steps of the command.           *)
LEMMA AnswerStep == ASSUME IInv, PrintAnswer PROVE IInv'
<1>1. /\ pc = "slh" /\ i > Len(Step) /\ pc' = "end" /\ exit' = 0
      /\ UNCHANGED <<argv, provider, openssl, i, args, key, sig>>
      /\ i \in Nat /\ argv \in Calls /\ provider \in Providers
  BY DEF IInv, Located, PrintAnswer, Exits
<1>2. IsSlhCall /\ openssl /\ i \in 1..(Len(Step) + 1)
  BY <1>1 DEF IInv, Commanded
<1>3. Located' /\ Parsed' /\ Commanded'
  <2>1. answer' \in {answer, "signature", "key", "available"}
    BY <1>1, <1>2, StepsOf DEF PrintAnswer
  <2>. QED
    BY <1>1, <2>1, SlhLocated DEF Commanded
<1>4. VerdictHolds'
  <2>. SUFFICES ASSUME argv[1] = <<"--slh-verify">> PROVE VerdictHolds'
    BY <1>1 DEF VerdictHolds
  <2>1. answer' = answer
    BY DEF PrintAnswer
  <2>2. i = 3
    <3>1. Len(Step) = 2
      BY <1>1, <1>2, StepsOf
    <3>. QED
      BY <1>1, <1>2, <3>1
  <2>3. /\ key = arg_value("--public-key-hex") /\ key[1] \in {"pub", "msg"}
        /\ sig = arg_value("--signature-hex") /\ answer \in {"valid", "invalid"}
        /\ Sound => (answer = "valid" <=> SignedBy(key))
    BY <1>1, <2>2 DEF IInv, Commanded
  <2>4. message = arg_value("--message-hex")
    BY DEF message
  <2>5. \A name \in {"--public-key-hex", "--signature-hex", "--message-hex"} :
          arg_value(name)' = arg_value(name)
    BY <1>1 DEF arg_value, named_at
  <2>. QED
    BY <1>1, <2>1, <2>3, <2>4, <2>5 DEF VerdictHolds, SignedBy, Sound
<1>5. AvailableIsSound'
  <2>1. CASE argv[1] = <<"--slh-probe">>
    <3>1. i = 6
      <4>1. Len(Step) = 5
        BY <1>1, <1>2, <2>1, StepsOf
      <4>. QED
        BY <1>1, <1>2, <4>1
    <3>2. provider \notin {"long_key", "long_signature", "rejects_all", "accepts_all"}
      BY <1>1, <2>1, <3>1 DEF IInv, Commanded
    <3>. QED
      BY <1>1, <1>2, <3>2, ProviderAssumption DEF AvailableIsSound
  <2>2. CASE argv[1] # <<"--slh-probe">>
    <3>1. answer' # "available"
      BY <1>1, <1>2, <2>2, StepsOf DEF PrintAnswer, IInv, Commanded
    <3>. QED
      BY <3>1 DEF AvailableIsSound
  <2>. QED
    BY <2>1, <2>2
<1>. QED
  BY <1>3, <1>4, <1>5 DEF IInv, AnswerHolds

-----------------------------------------------------------------------------
(* What each program point has behind it.                                  *)
THEOREM Inductive == Spec => []IInv
<1>1. ASSUME IInv, [Next]_vars PROVE IInv'
  <2>1. CASE UNCHANGED vars
    <3>1. /\ UNCHANGED <<argv, provider, openssl, pc, i, args, key, sig, answer, exit>>
      BY <2>1 DEF vars
    <3>2. Located' /\ Parsed'
      BY <1>1, <3>1 DEF IInv, Located, Parsed, IsSlhCall, IsDigestCall
    <3>3. \A name : arg_value(name)' = arg_value(name)
      BY <3>1 DEF arg_value, named_at
    <3>4. AnswerHolds'
      BY <1>1, <3>1, <3>3 DEF IInv, AnswerHolds, VerdictHolds, AvailableIsSound
    <3>5. Commanded'
      BY <1>1, <3>1 DEF IInv, Commanded, arg_value, named_at, IsSlhCall, Step, Sound, SignedBy,
                        message
    <3>. QED
      BY <3>2, <3>4, <3>5 DEF IInv
  <2>. QED
    BY <1>1, <2>1, DispatchStep, ParseStep, DigestStep, SlhThrowsStep, WorkStep, VerifyStep,
       AnswerStep DEF Next
<1>. QED
  BY <1>1, Initially, PTL DEF Spec

(* Report paths are defaults of a mode or paths of the command line.       *)
THEOREM TypeCorrect == Spec => []TypeOK
<1>1. IInv => TypeOK
  BY DEF IInv, Located, Parsed, TypeOK
<1>. QED
  BY <1>1, Inductive, PTL

(* A run never writes its numbers over the default report of another mode. *)
THEOREM ReportPaths == Spec => []ReportsOfItsMode
<1>1. IInv => ReportsOfItsMode
  BY DEF IInv, Parsed, ReportsOfItsMode
<1>. QED
  BY <1>1, Inductive, PTL

(* The verdict on a signature is about what was named, and a provider that *)
(* is called available passed every step of the probe.                     *)
THEOREM AnswersHold == Spec => []AnswerHolds
<1>1. IInv => AnswerHolds
  BY DEF IInv
<1>. QED
  BY <1>1, Inductive, PTL

=============================================================================
