----------------------------- MODULE Configuration -----------------------------
(***************************************************************************)
(* From the environment to what a process runs with: validateConfig        *)
(* when it starts, AppConfigService, and the uses of the numbers: the port *)
(* of the HTTP process, the batch size, waiting time and polling interval  *)
(* of the queue process.                                                   *)
(*                                                                         *)
(* A number is a string of characters until it is parsed, as which strings *)
(* are accepted and what becomes of them is the question.  Other values    *)
(* are what their schema tells apart.                                      *)
(***************************************************************************)
EXTENDS Integers, SequencesExt

CONSTANTS
  Characters,  \* of the strings to try
  MaxLength,   \* bound: length of these strings
  Unset,       \* a variable that is not set
  Undefined,   \* JavaScript's undefined
  NaN          \* JavaScript's NaN

ASSUME ConfigurationAssumption == MaxLength \in Nat

Numeric == {"APP_PORT", "LOGGING_ASYNC_MIN_LENGTH", "SQS_QUEUE_BATCH_CONSUMER_SIZE",
            "SQS_QUEUE_WAIT_TIME_SECONDS", "SQS_QUEUE_POLLING_INTERVAL_MILLIS"}

(* What a string may be to the schema of the variable; Unset is added.      *)
Texts == [APP_NAME |-> {"name", "blank"},
          SQS_QUEUE_BASE_URL |-> {"url", "other"},
          LOGGING_TYPE |-> {"sync", "async", "lambda", "other"},
          USE_IN_MEMORY_REPOSITORY |-> {"0", "1", "true", "false", "other"}]

Variables == Numeric \cup DOMAIN Texts

Input(v) == {Unset} \cup
  IF v \in Numeric THEN BoundedSeq(Characters, MaxLength) ELSE Texts[v]

VARIABLES
  env,      \* env[v]: the environment variable v
  kind,     \* the process: http (main.ts) or queue (queue.ts)
  process,  \* where it is
  config    \* AppConfigService, by the variable a value comes from

configuration == <<env, kind, process, config>>

(* Only what has no default is set.                                         *)
Plain == [v \in Variables |-> CASE v = "APP_NAME" -> "name"
                              [] v = "SQS_QUEUE_BASE_URL" -> "url"
                              [] OTHER -> Unset]

(* A plain deployment in which any one variable is set to anything.         *)
ConfigurationInit ==
  /\ \E v \in Variables : \E s \in Input(v) : env = [Plain EXCEPT ![v] = s]
  /\ kind \in {"http", "queue"}
  /\ process = "starting"
  /\ config = Undefined

--------------------------------------------------------------------------------
Digits == <<"0", "1", "2", "3", "4", "5", "6", "7", "8", "9">>
DigitOf == [c \in Range(Digits) |-> (CHOOSE n \in DOMAIN Digits : Digits[n] = c) - 1]
AllDigits(s) == Range(s) \subseteq Range(Digits)
Number(s) ==
  LET value[n \in 0..Len(s)] ==
        IF n = 0 THEN 0 ELSE 10 * value[n - 1] + DigitOf[s[n]]
  IN value[Len(s)]

Signed(s) == s # <<>> /\ Head(s) \in {"+", "-"}
Magnitude(s) == IF Signed(s) THEN Tail(s) ELSE s

(* validator.isNumeric: [+-]?([0-9]*[.])?[0-9]+                             *)
IsNumeric(s) ==
  LET m == Magnitude(s) IN
    /\ m # <<>>
    /\ \/ AllDigits(m)
       \/ \E n \in 1..Len(m) - 1 :
            /\ m[n] = "."
            /\ AllDigits(SubSeq(m, 1, n - 1))
            /\ AllDigits(SubSeq(m, n + 1, Len(m)))

(* Defect: the digits after the dot are digits of the number.               *)
ParseIntIgnoringDot(s) ==
  LET m == SelectSeq(Magnitude(s), LAMBDA c : c # ".") IN
    IF Head(s) = "-" THEN -Number(m) ELSE Number(m)

(* parseInt reads digits as long as there are some, and gives NaN for none. *)
ParseInt(s) ==
  LET m == Magnitude(s)
      read == CHOOSE n \in 0..Len(m) :
                /\ AllDigits(SubSeq(m, 1, n))
                /\ n < Len(m) => ~AllDigits(SubSeq(m, 1, n + 1))
  IN CASE read = 0 -> NaN
     [] read # 0 /\ Head(s) = "-" -> -Number(SubSeq(m, 1, read))
     [] OTHER -> Number(SubSeq(m, 1, read))

(* Defect: a batch of the size SQS allows for a queue in flight.            *)
DefaultOver ==
  [APP_PORT |-> <<"3", "0", "0", "0">>,
   SQS_QUEUE_BATCH_CONSUMER_SIZE |-> <<"1", "0", "0">>,
   SQS_QUEUE_POLLING_INTERVAL_MILLIS |-> <<"0">>]

(* The optional ones have none: minLength's 4096 stands inside its          *)
(* optional(), which answers for an undefined value.                        *)
Default ==
  [APP_PORT |-> <<"3", "0", "0", "0">>,
   SQS_QUEUE_BATCH_CONSUMER_SIZE |-> <<"1", "0">>,
   SQS_QUEUE_POLLING_INTERVAL_MILLIS |-> <<"0">>]

(* Defect: the flag is not refined to be a Boolean.                         *)
AcceptedTextsUnrefined ==
  [Texts EXCEPT !.APP_NAME = {"name"},
                !.SQS_QUEUE_BASE_URL = {"url"},
                !.LOGGING_TYPE = {Unset, "sync", "async", "lambda"},
                !.USE_IN_MEMORY_REPOSITORY = @ \cup {Unset}]

(* What the schemas of the texts accept.                                    *)
AcceptedTexts ==
  [Texts EXCEPT !.APP_NAME = {"name"},
                !.SQS_QUEUE_BASE_URL = {"url"},
                !.LOGGING_TYPE = {Unset, "sync", "async", "lambda"},
                !.USE_IN_MEMORY_REPOSITORY = {Unset, "0", "1", "true", "false"}]

(* The schema of v accepts what v is set to, or that it is not set.         *)
Accepted(v) ==
  IF v \in Numeric THEN env[v] = Unset \/ IsNumeric(env[v])
                   ELSE env[v] \in AcceptedTexts[v]

(* What becomes of it.  toBoolean takes for true all but 0 and false.       *)
Transformed(v) ==
  CASE v = "USE_IN_MEMORY_REPOSITORY" -> env[v] \notin {Unset, "0", "false"}
  [] v = "LOGGING_TYPE" -> IF env[v] = Unset THEN "sync" ELSE env[v]
  [] v \in Numeric /\ env[v] = Unset ->
       IF v \in DOMAIN Default THEN ParseInt(Default[v]) ELSE Undefined
  [] v \in Numeric /\ env[v] # Unset -> ParseInt(env[v])
  [] OTHER -> env[v]

Valid == \A v \in Variables : Accepted(v)
Configured == [v \in Variables |-> Transformed(v)]

(* validateConfig parses, or throws before anything else has started.  The  *)
(* queue process validates twice: queue.ts gives it a name of its own, but  *)
(* CommonModule, which it imports, does not.                                *)
Start ==
  /\ process = "starting"
  /\ IF Valid
     THEN process' = "started" /\ config' = Configured
     ELSE process' = "refused" /\ UNCHANGED config
  /\ UNCHANGED <<env, kind>>

(* The repository that ExampleModule makes.                                 *)
Repository == IF config["USE_IN_MEMORY_REPOSITORY"] THEN "memory" ELSE "DynamoDB"

(* Node.js opens a port of 16 bits, and throws for another.                 *)
Ports == {port \in Nat : port < 65536}

Listen ==
  /\ process = "started" /\ kind = "http"
  /\ process' = IF config["APP_PORT"] \in Ports THEN "listening" ELSE "exited"
  /\ UNCHANGED <<env, kind, config>>

(* SQS receives up to 10 messages and waits up to 20 seconds.               *)
ReceivesWith(size, wait) == size \in 1..10 /\ wait \in {Undefined} \cup 0..20

(* One round of the loop.  A receive that SQS refuses brings no messages,   *)
(* and the loop goes on.                                                    *)
Poll ==
  /\ process \in {"started", "receiving", "erring"} /\ kind = "queue"
  /\ process' = IF ReceivesWith(config["SQS_QUEUE_BATCH_CONSUMER_SIZE"],
                                config["SQS_QUEUE_WAIT_TIME_SECONDS"])
                THEN "receiving" ELSE "erring"
  /\ UNCHANGED <<env, kind, config>>

ConfigurationNext == Start \/ Listen \/ Poll

ConfigurationSpec == ConfigurationInit /\ [][ConfigurationNext]_configuration

--------------------------------------------------------------------------------
TenTo[n \in Nat] == IF n = 0 THEN 1 ELSE 10 * TenTo[n - 1]

(* What a started process has for a number is the number written, cut       *)
(* towards zero, unless nothing is written before the dot: then it is NaN,  *)
(* and no default takes its place.                                          *)
NumbersAreTruncated ==
  config # Undefined => \A v \in {w \in Numeric : env[w] # Unset} :
    LET m == Magnitude(env[v])
        dot == IF "." \in Range(m) THEN CHOOSE n \in DOMAIN m : m[n] = "." ELSE Len(m) + 1
        whole == SubSeq(m, 1, dot - 1)
        decimals == SubSeq(m, dot + 1, Len(m))
        cut == Number(whole \o decimals) \div TenTo[Len(decimals)]
    IN config[v] = CASE whole = <<>> -> NaN
                   [] whole # <<>> /\ Head(env[v]) = "-" -> -cut
                   [] OTHER -> cut

(* A process that starts and then cannot do its work, the HTTP process for  *)
(* its port or the queue process for what SQS refuses, was told so: its     *)
(* defaults work.                                                           *)
DefaultsWork ==
  /\ process = "exited" => env["APP_PORT"] # Unset
  /\ process = "erring" => \/ env["SQS_QUEUE_BATCH_CONSUMER_SIZE"] # Unset
                           \/ env["SQS_QUEUE_WAIT_TIME_SECONDS"] # Unset

(* A process keeps its examples in memory, where they end with it, only if  *)
(* it was told to in one of the two ways: whatever else toBoolean would     *)
(* take for true does not get that far.                                     *)
InMemoryOnlyIfAsked ==
  config # Undefined /\ Repository = "memory" =>
    env["USE_IN_MEMORY_REPOSITORY"] \in {"1", "true"}
================================================================================
