--------------------------------- MODULE Tau ---------------------------------
(***************************************************************************)
(* The program (main in tau.cpp): takes --level and the flags out of its   *)
(* arguments, wherever they stand, tests its prover and runs the command   *)
(* that is left; with none left, prove.  What the commands do is in        *)
(* Loading.tla and Conversion.tla.  prove reads both its texts from the    *)
(* standard input, whatever files are named.                               *)
(*                                                                         *)
(* exit is the status of the process; "undefined" where the program uses a *)
(* null pointer or reads past its arguments.                               *)
(***************************************************************************)
EXTENDS Loading

CONSTANTS
    ArgsFor(_),  \* the command lines a job is given with
    Number       \* the words that are numbers, and the numbers

VARIABLES
    argv,   \* the command line; argv[1] is the program's name
    args,   \* what is left of it
    at,     \* what main is at
    left,   \* process_flags: the flags it has still to look for
    flags,  \* the flags' variables
    level,
    exit    \* the status, Running before the end

mainVars == <<argv, args, at, left, flags, level, exit>>
tauVars == <<mainVars, vars>>
commandVars == <<readerVars, job, phase, qkb, ruleBaseVars, pending, c>>

\* cmds.second, in the order of a std::map.
Flags == <<"--base", "--no-deref", "--nocolor", "--pause", "--quads", "--shorten">>
FlagsSet == [f \in ToSet(Flags) |-> f \in {"--base", "--no-deref"}]
Options == ToSet(Flags) \cup {"--level"}
Commands == {"convert", "prove"}
Running == "running"

\* A word that is an option is no number.
ASSUME ArgsAssumption ==
    /\ \A j \in Jobs : ArgsFor(j) \subseteq Seq(STRING)
    /\ DOMAIN Number \cap Options = {}

TauInit ==
    /\ Init
    /\ argv \in ArgsFor(job)
    /\ args = argv
    /\ at = "level"
    /\ left = Flags
    /\ flags = FlagsSet
    /\ level = 1
    /\ exit = Running

\* The place of a word in the arguments, 0 for none.
Find(word) ==
    LET found == {n \in DOMAIN args : args[n] = word}
    IN  IF found = {} THEN 0 ELSE CHOOSE n \in found : \A m \in found : n <= m

Exit(code) == at' = "exited" /\ exit' = code

\* --level without a number after it, or with another word.
LevelRefused ==
    /\ at = "level"
    /\ Contains(args, "--level")
    /\ LET n == Find("--level")
       IN  \/ n = Len(args) /\ Exit(1)
           \/ n < Len(args) /\ args[n + 1] \notin DOMAIN Number /\ Exit("aborted")
    /\ UNCHANGED <<argv, args, left, flags, level, vars>>

\* Altered LevelTaken: the number stays.
LevelWordTaken ==
    /\ at = "level"
    /\ LET n == Find("--level")
       IN  IF n = 0 THEN UNCHANGED <<args, level>>
           ELSE /\ n < Len(args)
                /\ args[n + 1] \in DOMAIN Number
                /\ level' = Number[args[n + 1]]
                /\ args' = RemoveAt(args, n)
    /\ at' = "flags"
    /\ UNCHANGED <<argv, left, flags, exit, vars>>

LevelTaken ==
    /\ at = "level"
    /\ LET n == Find("--level")
       IN  IF n = 0 THEN UNCHANGED <<args, level>>
           ELSE /\ n < Len(args)
                /\ args[n + 1] \in DOMAIN Number
                /\ level' = Number[args[n + 1]]
                /\ args' = RemoveAt(RemoveAt(args, n + 1), n)
    /\ at' = "flags"
    /\ UNCHANGED <<argv, left, flags, exit, vars>>

\* process_flags: the first occurrence of a flag negates it.
FlagTaken ==
    /\ at = "flags"
    /\ left # <<>>
    /\ LET n == Find(Head(left))
       IN  IF n = 0 THEN UNCHANGED <<args, flags>>
           ELSE /\ flags' = [flags EXCEPT ![Head(left)] = ~@]
                /\ args' = RemoveAt(args, n)
    /\ left' = Tail(left)
    /\ UNCHANGED <<argv, at, level, exit, vars>>

Commanded(n, command) == Len(args) = n /\ args[2] = command

---------------------------------------------------------------------------
(* The unit test: before any command, a prover of one fact is asked a      *)
(* question that the fact does not answer, and thrown away.                *)

TestBase == FlatBody(TermSet(<<Quad("x", "x", "y", Default)>>, EmptyQdb.second))
TestGoal == FlatBody(TermSet(<<Quad("?a", "x", "?a", Default)>>, EmptyQdb.second))

StartTest ==
    /\ at = "flags"
    /\ left = <<>>
    /\ at' = "unittest"
    /\ kb' = [i \in DOMAIN TestBase |-> [head |-> TestBase[i], body |-> <<>>]]
    /\ UNCHANGED <<argv, args, left, flags, level, exit, commandVars>>
    /\ UNCHANGED <<frames, subst, lastp, cur, rec, gnd, e, pstatus>>

RunTest ==
    /\ at = "unittest"
    /\ P!Step \/ P!PushEv \/ (~Asked /\ P!DoQuery(TestGoal))
    /\ UNCHANGED <<mainVars, commandVars>>

Tested ==
    /\ at = "unittest"
    /\ Over
    /\ at' = "commands"
    /\ FreshProver
    /\ UNCHANGED <<argv, args, left, flags, level, exit, commandVars>>

---------------------------------------------------------------------------
(* The command.                                                            *)

Ready == at = "commands"

StartProve ==
    /\ Ready
    /\ Len(args) = 1 \/ Commanded(2, "prove") \/ Commanded(4, "prove")
    /\ flags' = IF Len(args) = 1 THEN [flags EXCEPT !["--quads"] = TRUE] ELSE flags
    /\ at' = "prove"
    /\ UNCHANGED <<argv, args, left, level, exit, vars>>

StartConvert ==
    /\ Ready
    /\ Commanded(3, "convert")
    /\ at' = "convert"
    /\ UNCHANGED <<argv, args, left, flags, level, exit, vars>>

\* Usage, the help of a command, or no such command.
Helped ==
    /\ Ready
    /\ Len(args) > 1
    /\ \/ args[2] \notin Commands \cup {"help"} /\ Exit(1)
       \/ Commanded(2, "help") /\ Exit(0)
       \/ Commanded(3, "help") /\ Exit(IF args[3] \in Commands THEN 0 ELSE "undefined")
       \/ Len(args) > 3 /\ args[2] = "help" /\ Exit("undefined")
       \/ args[2] = "prove" /\ Len(args) \notin {2, 4} /\ Exit(1)
       \/ Commanded(2, "convert") /\ Exit("undefined")
       \/ args[2] = "convert" /\ Len(args) > 3 /\ Exit(1)
    /\ UNCHANGED <<argv, args, left, flags, level, vars>>

RunProve ==
    /\ at = "prove"
    /\ phase \notin Ends
    /\ Next
    /\ UNCHANGED mainVars

\* A text that could not be read is no error of the command.  An exception
\* that is no std::exception ends the program.
Proved ==
    /\ at = "prove"
    /\ phase \in Ends
    /\ Exit(CASE status = "overrun" -> "undefined"
              [] pstatus = "threw" -> "aborted"
              [] phase = "refused" -> 1
              [] OTHER -> 0)
    /\ UNCHANGED <<argv, args, left, flags, level, vars>>

Exited == at \in {"exited", "convert"} /\ UNCHANGED tauVars

TauNext ==
    \/ LevelRefused \/ LevelTaken \/ FlagTaken
    \/ StartTest \/ RunTest \/ Tested
    \/ StartProve \/ StartConvert \/ Helped
    \/ RunProve \/ Proved \/ Exited

\* One thread, without waiting.
TauSpec == TauInit /\ [][TauNext]_tauVars /\ WF_tauVars(TauNext)

---------------------------------------------------------------------------
(* The arguments.                                                          *)

\* The arguments say everything once, and a level has its number.
PlainlySaid ==
    /\ \A i, j \in DOMAIN argv : argv[i] = argv[j] /\ argv[i] \in Options => i = j
    /\ \A i \in DOMAIN argv : argv[i] = "--level" =>
                i < Len(argv) /\ argv[i + 1] \in DOMAIN Number

LevelAt == {i \in DOMAIN argv : argv[i] = "--level"}
Words == LET said == {i \in DOMAIN argv : /\ argv[i] \notin Options
                                          /\ i - 1 \notin LevelAt}
         IN  [k \in 1..Cardinality(said) |->
                argv[CHOOSE i \in said : Cardinality({j \in said : j <= i}) = k]]

\* Flags and level may stand anywhere, in any order, also between a command
\* and its arguments: the command and its arguments are what is left, every
\* flag given is negated and no other, and the level is the number given.
FlagsAnywhere ==
    Ready /\ PlainlySaid =>
        /\ args = Words
        /\ \A f \in ToSet(Flags) : (flags[f] # FlagsSet[f]) <=> Contains(argv, f)
        /\ level = IF LevelAt = {} THEN 1
                   ELSE Number[argv[1 + CHOOSE i \in LevelAt : TRUE]]
=============================================================================
