---------------------------- MODULE CommandLine ----------------------------
(***************************************************************************)
(* The arguments of texc: the parsers of args.c and the loop of argparse.c *)
(* that reads them, an argument at a time, and the reading they are meant  *)
(* to have.                                                                *)
(***************************************************************************)
EXTENDS Text

VARIABLES
    argv,         \* the arguments after the program's name
    command,      \* the name of the parser in use
    at,           \* the index in argv of the argument to read next
    options,      \* opt_values: for each option of the parser, whether it was found and its value
    positionals,  \* pos_values so far
    status        \* "start" before the parser is chosen, "parsing", "args", or why it stopped

arguments == <<argv, command, at, options, positionals, status>>

NoValue == {}

Option(short, long, hasValue, default) ==
    [flags |-> <<<<"-", short>>, <<"-", "-", long>>>>, hasValue |-> hasValue, default |-> default]

\* The default command and the sub commands; no option is required and none
\* excludes another.
Options ==
    [texc |-> <<Option("p", "port", TRUE, {<<"8000">>}), Option("v", "version", FALSE, NoValue)>>,
     add |-> <<Option("e", "enable", TRUE, {<<"true">>}), Option("g", "group", TRUE, {<<"all">>})>>,
     remove |-> <<Option("i", "id", FALSE, NoValue), Option("g", "group", FALSE, NoValue)>>,
     close |-> <<>>,
     list |-> <<Option("c", "columns", TRUE, NoValue), Option("w", "where", TRUE, NoValue)>>,
     config |-> <<Option("i", "id", FALSE, NoValue), Option("g", "group", FALSE, NoValue),
                  Option("e", "enable", TRUE, NoValue)>>]

\* How many positional arguments a command has; all of them are required.
Arity == [texc |-> 0, add |-> 2, remove |-> 1, close |-> 0, list |-> 0, config |-> 1]

SubCommands == DOMAIN Options \ {"texc"}

Help == <<<<"-", "h">>, <<"-", "-", "help">>>>
Dashes == <<"-", "-">>

\* __flag_matches: the argument may be a list of flags too, but its list is cut
\* up by the first comparison, and only its first flag is left for the next ones.
FlagMatches(flags, arg) ==
    LET given == Tokens(arg, Comma)
    IN given # <<>> /\ (flags[1] \in ToSet(given) \/ \E k \in 2 .. Len(flags) : flags[k] = given[1])

Unset == [found |-> FALSE, value |-> NoValue]

-----------------------------------------------------------------------------
(* Reading argument by argument *)

Arg == argv[at]

Reading == status = "parsing" /\ at <= Len(argv)

ChooseParser ==
    /\ status = "start"
    /\ LET named == argv # <<>> /\ \E name \in SubCommands : argv[1] = <<name>>
       IN /\ command' = IF named THEN argv[1][1] ELSE "texc"
          /\ at' = IF named THEN 2 ELSE 1
    /\ options' = [k \in DOMAIN Options[command'] |-> Unset]
    /\ status' = "parsing"
    /\ UNCHANGED <<argv, positionals>>

Refuse(why) == status' = why /\ UNCHANGED <<argv, command, at, options, positionals>>

\* Mutant: the argument after "--" is read once more.
TakeOnce(value, width) ==
    /\ positionals' = Append(positionals, value) /\ at' = at + 1
    /\ UNCHANGED <<argv, command, options, status>>

TakePositional(value, width) ==
    /\ positionals' = Append(positionals, value) /\ at' = at + width
    /\ UNCHANGED <<argv, command, options, status>>

\* __handle_pos
ReadPositional ==
    /\ Reading /\ ~Dashed(Arg)
    /\ IF Len(positionals) < Arity[command] THEN TakePositional(Arg, 1)
       ELSE Refuse("positional_excess")

ReadProtected ==
    /\ Reading /\ Arg = Dashes
    /\ CASE at = Len(argv) -> Refuse("positional_not_found")
         [] at < Len(argv) /\ Len(positionals) < Arity[command] -> TakePositional(argv[at + 1], 2)
         [] OTHER -> Refuse("positional_excess")

ReadHelp ==
    /\ Reading /\ Dashed(Arg) /\ Arg # Dashes /\ FlagMatches(Help, Arg)
    /\ Refuse("help")

Matching(arg) == {k \in DOMAIN Options[command] : FlagMatches(Options[command][k].flags, arg)}

\* __handle_flag
ReadFlag ==
    /\ Reading /\ Dashed(Arg) /\ Arg # Dashes /\ ~FlagMatches(Help, Arg)
    /\ Matching(Arg) # {}
    /\ LET k == Least(Matching(Arg))
           valued == Options[command][k].hasValue
       IN CASE options[k].found -> Refuse("flag_repeated")
            [] ~options[k].found /\ valued /\ at = Len(argv) -> Refuse("value_not_found")
            [] OTHER ->
                 /\ options' = [options EXCEPT ![k] =
                        [found |-> TRUE, value |-> IF valued THEN {argv[at + 1]} ELSE NoValue]]
                 /\ at' = IF valued THEN at + 2 ELSE at + 1
                 /\ UNCHANGED <<argv, command, positionals, status>>

ReadUnknown ==
    /\ Reading /\ Dashed(Arg) /\ Arg # Dashes /\ ~FlagMatches(Help, Arg)
    /\ Matching(Arg) = {}
    /\ Refuse("flag_invalid")

\* __endparse_validate
EndParse ==
    /\ status = "parsing" /\ at > Len(argv)
    /\ IF Len(positionals) < Arity[command] THEN Refuse("positional_required")
       ELSE /\ status' = "args"
            /\ options' = [k \in DOMAIN options |->
                  IF options[k].found THEN options[k]
                  ELSE [options[k] EXCEPT !.value = Options[command][k].default]]
            /\ UNCHANGED <<argv, command, at, positionals>>

ReadArguments ==
    \/ ChooseParser \/ ReadPositional \/ ReadProtected \/ ReadHelp \/ ReadFlag \/ ReadUnknown
    \/ EndParse

ArgumentsInit(inputs) ==
    /\ argv \in inputs
    /\ command = "texc" /\ at = 1 /\ options = <<>> /\ positionals = <<>> /\ status = "start"

\* argparse_flag_found and argparse_flag_get, by the long name of the option
IndexOf(long) ==
    CHOOSE k \in DOMAIN Options[command] : Options[command][k].flags[2] = <<"-", "-", long>>
Found(long) == options[IndexOf(long)].found
Get(long) == options[IndexOf(long)].value

-----------------------------------------------------------------------------
(* What arguments mean *)

CommandOf(args) ==
    IF args # <<>> /\ \E name \in SubCommands : args[1] = <<name>> THEN args[1][1] ELSE "texc"

Rest(args) == IF CommandOf(args) = "texc" THEN args ELSE Tail(args)

OptionsFor(name, arg) ==
    {k \in DOMAIN Options[name] : arg \in ToSet(Options[name][k].flags)}

Valued(name, arg) == \E k \in OptionsFor(name, arg) : Options[name][k].hasValue

\* The arguments that belong to the one before them: a value to its flag, a
\* positional argument to the two dashes that protect it
TakenIn(name, args) ==
    LET taken[i \in 0 .. Len(args)] ==
            i > 1 /\ ~taken[i - 1] /\ (args[i - 1] = Dashes \/ Valued(name, args[i - 1]))
    IN {i \in DOMAIN args : taken[i]}

IsFlag(arg) == Dashed(arg) /\ arg # Dashes

Flags(name, args) == {i \in DOMAIN args \ TakenIn(name, args) : IsFlag(args[i])}

PositionalsOf(name, args) ==
    {i \in DOMAIN args : IF i \in TakenIn(name, args) THEN args[i - 1] = Dashes
                         ELSE ~Dashed(args[i])}

\* Every flag is one of the command's and given once, nothing that takes the next
\* argument comes last, and there are as many positional arguments as there should be.
WellFormed(name, args) ==
    /\ \A i \in Flags(name, args) : OptionsFor(name, args[i]) # {}
    /\ \A i, j \in Flags(name, args) :
          i # j => OptionsFor(name, args[i]) \cap OptionsFor(name, args[j]) = {}
    /\ LET last == Len(args)
       IN last > 0 /\ last \notin TakenIn(name, args)
            => args[last] # Dashes /\ ~Valued(name, args[last])
    /\ Len(InOrder(PositionalsOf(name, args), args)) = Arity[name]

\* The value an option has been given, or the one it has without
ValueOf(name, k, args) ==
    LET given == {i \in Flags(name, args) : k \in OptionsFor(name, args[i])}
    IN CASE given = {} -> Options[name][k].default
         [] given # {} /\ Options[name][k].hasValue -> {args[Least(given) + 1]}
         [] OTHER -> NoValue

GivenIn(name, k, args) == \E i \in Flags(name, args) : k \in OptionsFor(name, args[i])

\* FlagMatches takes a list of flags for one of them, which nobody would write.
OneFlagEach == \A i \in DOMAIN argv : Dashed(argv[i]) => ~Contains(argv[i], Comma)

\* The arguments were accepted exactly if they are well formed, and read as they stand.
ReadAsWritten ==
    LET name == CommandOf(argv)
        args == Rest(argv)
    IN /\ status = "args" <=> WellFormed(name, args)
       /\ status = "args" =>
            /\ command = name
            /\ positionals = InOrder(PositionalsOf(name, args), args)
            /\ \A k \in DOMAIN Options[name] :
                  options[k] = [found |-> GivenIn(name, k, args),
                                value |-> ValueOf(name, k, args)]
============================================================================
