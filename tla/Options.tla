------------------------------- MODULE Options --------------------------------
(***************************************************************************)
(* options_parser and options_factory::parse_cmdline: the options are      *)
(* added with their defaults, the command line is read one option at a     *)
(* time, and the program runs, prints its help, or fails.                  *)
(***************************************************************************)
EXTENDS Naturals, Sequences, FiniteSets

CONSTANTS
    Declared,       \* the options of add_options in order: name, letter, boolean, required, fallback, accepts
    CommandLines    \* sequences of arguments: see Arguments

VARIABLES
    args,           \* argv without the command's name
    option_map,     \* the options added
    destination,    \* the value of each option added
    required_seen,           \* required: the required options met
    at,             \* i: the argument to read
    phase           \* "adds", "parses", "checks"; "runs", "help" or "fails" in the end

optionVars == <<args, option_map, destination, required_seen, at, phase>>

Options == {Declared[i] : i \in 1..Len(Declared)}

(* The help option of add_options. *)
Help == CHOOSE o \in Options : o.name = "help"

(* "--key" or "--key=text", "-key...", "--", or an argument without a dash. *)
Arguments == [form : {"full", "letter", "end", "plain"}, key : STRING, text : STRING]

Plain == "none"     \* the text of an option without "=", and a letter that is none

(* add_options gives every option a name or a letter of its own, and one is *)
(* the help option, a flag.  An argument with dashes names something.      *)
ASSUME OptionAssumption ==
    /\ Declared \in Seq(Options)
    /\ \A o \in Options :
          /\ o.boolean \in BOOLEAN /\ o.required \in BOOLEAN
          /\ o.boolean => o.fallback \in BOOLEAN
          /\ o.name # Plain \/ o.letter # Plain
    /\ \A i, j \in 1..Len(Declared) : i # j =>
          /\ Declared[i].name = Declared[j].name => Declared[i].name = Plain
          /\ Declared[i].letter = Declared[j].letter => Declared[i].letter = Plain
    /\ \E o \in Options : o.name = "help" /\ o.boolean
    /\ \A line \in CommandLines :
          /\ line \in Seq(Arguments)
          /\ \A i \in DOMAIN line : line[i].form \in {"full", "letter"} => line[i].key # Plain

OptionInit ==
    /\ args \in CommandLines
    /\ option_map = {} /\ destination = <<>>
    /\ required_seen = {} /\ at = 1 /\ phase = "adds"

OptionTypeOK ==
    /\ args \in Seq(Arguments)
    /\ option_map \subseteq Options /\ required_seen \subseteq option_map
    /\ DOMAIN destination = option_map
    /\ at \in 1..Len(args) + 2
    /\ phase \in {"adds", "parses", "checks", "runs", "help", "fails"}

-------------------------------------------------------------------------------

(* Mutant: what is not "true" counts as false. *)
FalseUnlessTrue(text) == text = "true"

(* string_to_bool: what is neither "true" nor "false" counts as true. *)
ToBool(text) == text # "false"

(* Mutant: only a flag gets its default. *)
FlagDefaulted(o) ==
    [p \in option_map \union {q \in {o} : q.boolean} |-> IF p = o THEN o.fallback ELSE destination[p]]

(* The destination of a new option gets the default. *)
Defaulted(o) == [p \in option_map \union {o} |-> IF p = o THEN o.fallback ELSE destination[p]]

(* add_option: the option has a name or a letter. *)
AddOption ==
    /\ phase = "adds" /\ Cardinality(option_map) < Len(Declared)
    /\ LET o == Declared[Cardinality(option_map) + 1]
       IN  /\ o.name # Plain \/ o.letter # Plain
           /\ option_map' = option_map \union {o}
           /\ destination' = Defaulted(o)
    /\ UNCHANGED <<args, required_seen, at, phase>>

OptionsAdded ==
    /\ phase = "adds" /\ Cardinality(option_map) = Len(Declared)
    /\ phase' = "parses"
    /\ UNCHANGED <<args, option_map, destination, required_seen, at>>

(* The options an argument names. *)
Named(arg) ==
    {o \in option_map : \/ arg.form = "full" /\ o.name = arg.key /\ o.name # Plain
                        \/ arg.form = "letter" /\ o.letter = arg.key /\ o.letter # Plain}

(* "--": the rest is not options. *)
EndOfOptions ==
    /\ phase = "parses" /\ at =< Len(args) /\ args[at].form = "end"
    /\ at' = at + 1 /\ phase' = "checks"
    /\ UNCHANGED <<args, option_map, destination, required_seen>>

EndOfArguments ==
    /\ phase = "parses" /\ at > Len(args)
    /\ phase' = "checks"
    /\ UNCHANGED <<args, option_map, destination, required_seen, at>>

UnknownOption ==
    /\ phase = "parses" /\ at =< Len(args) /\ args[at].form # "end" /\ Named(args[at]) = {}
    /\ phase' = "fails"
    /\ UNCHANGED <<args, option_map, destination, required_seen, at>>

(* option.parser: the text is converted, validated and stored. *)
Stores(o, text) ==
    /\ required_seen' = required_seen \union {p \in {o} : o.required}
    /\ IF o.boolean
       THEN destination' = [destination EXCEPT ![o] = ToBool(text)] /\ UNCHANGED phase
       ELSE IF text \in o.accepts
       THEN destination' = [destination EXCEPT ![o] = text] /\ UNCHANGED phase
       ELSE phase' = "fails" /\ UNCHANGED destination
    /\ UNCHANGED <<args, option_map>>

Reads(o) == phase = "parses" /\ at =< Len(args) /\ o \in Named(args[at])

(* An argument as a value. *)
AsValue(arg) == IF arg.form = "plain" THEN arg.text ELSE "-"

(* "--name=text" *)
GivenValue(o) ==
    /\ Reads(o) /\ args[at].form = "full" /\ args[at].text # Plain
    /\ Stores(o, args[at].text)
    /\ at' = at + 1

(* A boolean option without "=". *)
Flag(o) ==
    /\ Reads(o) /\ o.boolean /\ (args[at].form = "letter" \/ args[at].text = Plain)
    /\ Stores(o, "")
    /\ at' = at + 1

(* Any other option takes the next argument, whatever it looks like. *)
NextValue(o) ==
    /\ Reads(o) /\ ~o.boolean /\ (args[at].form = "letter" \/ args[at].text = Plain)
    /\ at < Len(args)
    /\ Stores(o, AsValue(args[at + 1]))
    /\ at' = at + 2

MissingValue(o) ==
    /\ Reads(o) /\ ~o.boolean /\ (args[at].form = "letter" \/ args[at].text = Plain)
    /\ at = Len(args)
    /\ phase' = "fails" /\ required_seen' = required_seen \union {p \in {o} : o.required}
    /\ UNCHANGED <<args, option_map, destination, at>>

(* The required options were all required_seen, and parse_cmdline looks for help. *)
CheckRequired ==
    /\ phase = "checks"
    /\ phase' = IF \E o \in option_map : o.required /\ o \notin required_seen THEN "fails"
                ELSE IF destination[Help] THEN "help" ELSE "runs"
    /\ UNCHANGED <<args, option_map, destination, required_seen, at>>

OptionNext ==
    \/ AddOption \/ OptionsAdded
    \/ EndOfOptions \/ EndOfArguments \/ UnknownOption \/ CheckRequired
    \/ \E o \in Options : GivenValue(o) \/ Flag(o) \/ NextValue(o) \/ MissingValue(o)

OptionSpec == OptionInit /\ [][OptionNext]_optionVars

-------------------------------------------------------------------------------

(***************************************************************************)
(* What a command line means, without reading it step by step.             *)
(***************************************************************************)

OptionOf(arg) ==
    {o \in Options : \/ arg.form = "full" /\ o.name = arg.key
                     \/ arg.form = "letter" /\ o.letter = arg.key}

OwnText(arg) == arg.form = "full" /\ arg.text # Plain

TakesNext(arg) == \E o \in OptionOf(arg) : ~o.boolean /\ ~OwnText(arg)

(* The arguments that are read as options: all but those that are the      *)
(* value of one, up to "--".                                               *)
IsOption[i \in 0..Len(args)] ==
    /\ i > 0
    /\ \A j \in 1..i - 1 : IsOption[j] => args[j].form # "end"
    /\ ~(i > 1 /\ IsOption[i - 1] /\ TakesNext(args[i - 1]))

Uses(o) == {i \in 1..Len(args) : IsOption[i] /\ o \in OptionOf(args[i])}

TextOf(o, i) ==
    IF OwnText(args[i]) THEN args[i].text ELSE IF o.boolean THEN "true" ELSE AsValue(args[i + 1])

Meant(o) ==
    IF Uses(o) = {} THEN o.fallback
    ELSE LET last == CHOOSE i \in Uses(o) : \A j \in Uses(o) : j =< i
         IN  IF o.boolean THEN TextOf(o, last) # "false" ELSE TextOf(o, last)

LegalCommand ==
    /\ \A i \in 1..Len(args) : IsOption[i] /\ args[i].form # "end" =>
         /\ OptionOf(args[i]) # {}
         /\ TakesNext(args[i]) => i < Len(args)
         /\ \A o \in OptionOf(args[i]) : o.boolean \/ TextOf(o, i) \in o.accepts
    /\ \A o \in Options : o.required => Uses(o) # {}

(* The program runs or prints its help exactly on a legal command line,    *)
(* and then every option has the value of its last use, or its default: a  *)
(* value is never taken for an option nor an option for a value, "--" ends *)
(* them, a flag takes no argument, and no required option is missing.      *)
ParsedAsMeant ==
    /\ phase \in {"runs", "help"} =>
         /\ LegalCommand
         /\ \A o \in Options : destination[o] = Meant(o)
         /\ phase = "help" <=> Meant(Help)
    /\ phase = "fails" => ~LegalCommand

===============================================================================
