------------------------------ MODULE Arguments ------------------------------
(***************************************************************************)
(* The command line (parseArgs of main.cpp).  An argument is abstracted to *)
(* the option its author means (what is before the '='), the keywords that *)
(* its whole text contains, and what follows the first '=': the text, the  *)
(* number that stol reads there (<<>> if it throws) and its characters as  *)
(* hexadecimal digits.                                                     *)
(***************************************************************************)
EXTENDS Integers, Sequences

\* A character that is no hexadecimal digit (but for a sign, a blank and an x,
\* which the code takes in front of a number; they are left out).
NoDigit == 16

Argument ==
  [option : STRING, contains : SUBSET STRING, text : STRING,
   number : Seq(Int), digits : Seq(0 .. NoDigit)]

\* parseArgs looks for these in the whole argument, in this order.
Keywords ==
  << "base-isa", "extensions", "memory-size", "hardware-threads", "branch-predictor",
     "binary", "pause", "runningOutput", "halt", "help" >>

\* The default configuration (struct Config), and the one a refused command
\* line returns: main prints the arguments and ends.
Config ==
  [ XLEN |-> 0, extensionSet |-> {}, memorySize |-> 0, numberOfHardwareThreads |-> 0,
    fileLocation |-> "", pauseOnEntry |-> FALSE, haltAddr |-> <<>>, returned |-> FALSE ]
\* Mutant: what was set before the malformed argument is kept.
RefuseKeeps(config) == [config EXCEPT !.returned = TRUE]
Refuse(config) ==
  [config EXCEPT !.memorySize = 0, !.numberOfHardwareThreads = 0, !.returned = TRUE]

\* The option the argument is taken for, "" if none.
OptionFound(arg) ==
  LET Found(i) == Keywords[i] \in arg.contains
  IN  IF \E i \in DOMAIN Keywords : Found(i)
        THEN Keywords[CHOOSE i \in DOMAIN Keywords : Found(i) /\ \A j \in 1 .. i - 1 : ~Found(j)]
        ELSE ""

\* Mutant: the last pair of digits is taken for the lowest byte.
haltAddrReversed(digits) ==
  [k \in 1 .. 8 |-> LET end == Len(digits) - 2 * (k - 1)
                    IN  IF end > 1 THEN 16 * digits[end - 1] + digits[end] ELSE 0]
\* The byte of a hexadecimal number: the last two of the digits from first to
\* last.  Reading stops at what is no digit, and 0 is read if there is none.
ByteRead(digits, first, last) ==
  LET stop == IF \E j \in first .. last : digits[j] = NoDigit
                THEN CHOOSE j \in first .. last :
                       digits[j] = NoDigit /\ \A k \in first .. j - 1 : digits[k] # NoDigit
                ELSE last + 1
  IN  CASE stop = first     -> 0
        [] stop = first + 1 -> digits[first]
        [] OTHER            -> 16 * digits[stop - 2] + digits[stop - 1]

\* substr(i, i+2) takes i+2 digits from the i-th: byte k is read from those that
\* end at digit 4k - 2 or at the last.
haltAddr(digits) ==
  [k \in 1 .. 8 |->
     LET i == 2 * (k - 1)
         end == IF i + i + 2 <= Len(digits) THEN i + i + 2 ELSE Len(digits)
     IN  IF i < Len(digits) THEN ByteRead(digits, i + 1, end) ELSE 0]

\* Only the length is looked at: a text that is not hexadecimal is accepted.
WithHalt(config, arg) ==
  CASE arg.text = "" -> config
    [] arg.text # "" /\ (Len(arg.digits) % 2 # 0 \/ Len(arg.digits) > 16) -> Refuse(config)
    [] OTHER -> [config EXCEPT !.haltAddr = haltAddr(arg.digits)]

WithMemory(config, arg) ==
  CASE arg.text = "" -> config
    [] arg.text # "" /\ arg.number = <<>> -> Refuse(config)
    [] OTHER -> [config EXCEPT !.memorySize = arg.number[1]]

WithThreads(config, arg) ==
  CASE arg.text = "" -> config
    [] arg.text # "" /\ arg.number = <<>> -> Refuse(config)
    [] OTHER -> [config EXCEPT !.numberOfHardwareThreads = arg.number[1] % 2^16]

\* One argument, taken for the given option.
Apply(config, option, arg) ==
  CASE option = "base-isa" ->
         IF arg.text = "RV32I" THEN [config EXCEPT !.XLEN = 4] ELSE config
    [] option = "extensions" ->
         IF arg.text = "T" THEN [config EXCEPT !.extensionSet = @ \cup {"T"}] ELSE config
    [] option = "memory-size"      -> WithMemory(config, arg)
    [] option = "hardware-threads" -> WithThreads(config, arg)
    [] option \in {"branch-predictor", "runningOutput"} -> config
    [] option = "binary" -> [config EXCEPT !.fileLocation = arg.text]
    [] option = "pause"  -> [config EXCEPT !.pauseOnEntry = TRUE]
    [] option = "halt"   -> WithHalt(config, arg)
    [] option \in {"help", ""} -> Refuse(config)

\* What the loop does with its next argument.
Parse(config, arg) == Apply(config, OptionFound(arg), arg)

\* main goes on with this configuration.
Usable(config) ==
  /\ config.numberOfHardwareThreads # 0 /\ config.memorySize # 0
  /\ config.XLEN # 0 /\ config.fileLocation # ""

=============================================================================
