---------------------------- MODULE CommandLine ----------------------------
(***************************************************************************)
(* AbstractCommandLine: the options a program declares, the ones it        *)
(* requires, and what parseArgs() makes of the arguments it is given, one  *)
(* call after another.                                                     *)
(*                                                                         *)
(* An argument that should name an option is a record: how many dashes it  *)
(* starts with, and the rest.  A value is the sequence of its parts        *)
(* between commas; a part is empty, blank or a word.  The arguments are    *)
(* pairs of a name and a value, and perhaps one argument left over.        *)
(***************************************************************************)
EXTENDS Integers, Sequences, FiniteSets, FiniteSetsExt

CONSTANTS
    Single,       \* m_options
    Multi,        \* m_multiOptions
    Pair,         \* bound: the pairs of a name and a value a call may contain
    MaxPairs      \* bound: pairs in a call

Part == STRING

\* A value has at least one part, if an empty one.
ASSUME PairAssumption == \A pair \in Pair : pair.dashes \in Nat /\ pair.value \in Seq(Part) \ {<< >>}
ASSUME MaxPairsAssumption == MaxPairs \in Nat

VARIABLES
    required,     \* m_requiredOptions
    args,         \* m_args
    multiArgs,    \* m_multiArgs
    given,        \* the arguments of the next call
    result,       \* what the last call returned
    early         \* history: the options whose value was stored when they were not required

options == <<required, args, multiArgs, given, result, early>>

Option == Single \cup Multi \cup {pair.name : pair \in Pair}

Blank == <<"">>

PairsUpTo(n) == UNION {[1 .. k -> Pair] : k \in 0 .. n}
Arguments == [pairs : PairsUpTo(MaxPairs), left : {FALSE}] \cup [pairs : PairsUpTo(1), left : {TRUE}]

None == [pairs |-> << >>, left |-> FALSE]

InitOptions ==
    /\ required = {}
    /\ args = << >>
    /\ multiArgs = << >>
    /\ given = None
    /\ result = TRUE
    /\ early = {}

-----------------------------------------------------------------------------
\* splitLine(value, ',', true): trimmed, and what is empty then is skipped.
Words(value) == {i \in DOMAIN value : value[i] \notin {"", " "}}
Nth(S, i) == CHOOSE n \in S : Cardinality({m \in S : m < n}) = i - 1
splitLine(value) == [i \in 1 .. Cardinality(Words(value)) |-> value[Nth(Words(value), i)]]

\* getArg() and getMultiArg().
getArg(name, def) == IF name \in DOMAIN args THEN args[name] ELSE def
getMultiArg(name) == IF name \in DOMAIN multiArgs THEN multiArgs[name] ELSE << >>

markRequired(names) ==
    /\ required' = names
    /\ UNCHANGED <<args, multiArgs, given, result, early>>

\* Arguments that are not pairs, or do not start with two dashes, are refused as a whole.
Malformed(a) == a.left \/ \E i \in DOMAIN a.pairs : a.pairs[i].dashes # 2

Named(a) == {a.pairs[i].name : i \in DOMAIN a.pairs}

\* The pairs that name an option.
Naming(a, name) == {i \in DOMAIN a.pairs : a.pairs[i].name = name}

\* Mutant: the first value given for an option counts.
FirstValue(a, name) == a.pairs[Min(Naming(a, name))].value

\* The last value given for an option counts.
ValueOf(a, name) == a.pairs[Max(Naming(a, name))].value

\* What one option of a call is refused for.  Mutant: a required option may be empty.
RefusesNothingEmpty(name, value) ==
    \/ name \in Single <=> name \in Multi
    \/ name \in Single /\ Len(splitLine(value)) > 1

Refuses(name, value) ==
    \/ name \in Single <=> name \in Multi
    \/ name \in Single /\ Len(splitLine(value)) > 1
    \/ name \in required /\ IF name \in Single THEN value = Blank ELSE splitLine(value) = << >>

\* The options that are stored, the refused ones left out, and what is required and has a value
\* by then: of this call or of an earlier one.
Stored(a) == {name \in Named(a) : ~Refuses(name, ValueOf(a, name))}

parseArgs ==
    /\ IF Malformed(given)
       THEN result' = FALSE /\ UNCHANGED <<args, multiArgs, early>>
       ELSE /\ args' = [n \in DOMAIN args \cup (Stored(given) \cap Single) |->
                            IF n \in Stored(given) THEN ValueOf(given, n) ELSE args[n]]
            /\ multiArgs' = [n \in DOMAIN multiArgs \cup (Stored(given) \ Single) |->
                                 IF n \in Stored(given) THEN splitLine(ValueOf(given, n)) ELSE multiArgs[n]]
            /\ result' = (Stored(given) = Named(given) /\ required \subseteq DOMAIN args' \cup DOMAIN multiArgs')
            /\ early' = (early \ Stored(given)) \cup (Stored(given) \ required)
    /\ given' = None
    /\ UNCHANGED required

\* The program is about to parse some arguments.
Give ==
    /\ given = None
    /\ given' \in Arguments
    /\ UNCHANGED <<required, args, multiArgs, result, early>>

NextOptions ==
    \/ given = None /\ \E names \in SUBSET (Single \cup Multi) : markRequired(names)
    \/ Give
    \/ parseArgs

SpecOptions == InitOptions /\ [][NextOptions]_options

-----------------------------------------------------------------------------
\* What the accessors give for an option.
Answer(name) == IF name \in Single THEN getArg(name, Blank) ELSE getMultiArg(name)

\* The pair that names an option last in a call.
Final(i) == i \in DOMAIN given.pairs /\ \A j \in DOMAIN given.pairs : j > i => given.pairs[j].name # given.pairs[i].name

\* A list has the words of a value, all of them, in their order, and nothing else.
Lists(list, value) ==
    \E place \in [DOMAIN list -> DOMAIN value] :
        /\ \A i, j \in DOMAIN list : i < j => place[i] < place[j]
        /\ \A i \in DOMAIN list : list[i] = value[place[i]]
        /\ {place[i] : i \in DOMAIN list} = {k \in DOMAIN value : value[k] \notin {"", " "}}

\* An answer is what a pair gives: a single option keeps its value as it is.
Gives(pair, answer) == IF pair.name \in Single THEN answer = pair.value ELSE Lists(answer, pair.value)

\* Arguments are accepted only if every required option has a value then, an empty one only if it
\* was stored before the option was required, and if every option given has the last value it was
\* given (AbstractCommandLine::parseArgs).
AcceptedIsComplete ==
    [][parseArgs /\ result' =>
          /\ \A n \in required :
                /\ n \in DOMAIN args' \cup DOMAIN multiArgs'
                /\ n \notin early' => Answer(n)' \notin {Blank, << >>}
          /\ \A n \in Option, i \in DOMAIN given.pairs :
                Final(i) /\ given.pairs[i].name = n => Gives(given.pairs[i], Answer(n)')]_options

\* Whether or not a call is accepted, an option keeps its value or gets the last one given, whole,
\* and a single option never gets several; arguments that are not pairs of an option and a value
\* change nothing (AbstractCommandLine::parseArgs).
ChangedOnlyAsGiven ==
    [][parseArgs =>
          /\ \A n \in Option :
                \/ Answer(n)' = Answer(n)
                \/ \E i \in DOMAIN given.pairs :
                      /\ Final(i) /\ given.pairs[i].name = n /\ Gives(given.pairs[i], Answer(n)')
                      /\ n \in Single => Cardinality({k \in DOMAIN Answer(n)' : Answer(n)'[k] \notin {"", " "}}) <= 1
          /\ (given.left \/ \E i \in DOMAIN given.pairs : given.pairs[i].dashes = 1) => UNCHANGED <<args, multiArgs>>]_options

-----------------------------------------------------------------------------
(* The invariant behind them. *)

OptionsTypeOK ==
    /\ required \subseteq Single \cup Multi
    /\ given \in Arguments
    /\ result \in BOOLEAN
    /\ args \in [DOMAIN args -> Seq(Part) \ {<< >>}] /\ DOMAIN args \subseteq Single
    /\ multiArgs \in [DOMAIN multiArgs -> Seq(Part \ {"", " "})] /\ DOMAIN multiArgs \cap Single = {}

\* What is empty was stored before it was required.
EmptyIsEarly ==
    /\ \A n \in DOMAIN args : args[n] = Blank => n \in early
    /\ \A n \in DOMAIN multiArgs : multiArgs[n] = << >> => n \in early

OptionsInvariant == OptionsTypeOK /\ EmptyIsEarly

=============================================================================
