--------------------------- MODULE FormulaCalculator ---------------------------
(***************************************************************************)
(* Calculation of a workbook's formulas.  A Calculator evaluates the cells *)
(* it is asked for one after the other, pulling the cells they read, and   *)
(* keeps what it learnt: the value of every cell that has one and the mark *)
(* of every cell being visited, by which it knows a cycle.                 *)
(*                                                                         *)
(* A formula is the sequence of its tokens and a sheet's key is its        *)
(* normalised form.  A number is a fraction in lowest terms; a text is the *)
(* sequence of its characters: blanks, digits, signs, a and b in both      *)
(* cases.  The clock, square roots, IRR and the overflow of a number that  *)
(* is not a division by zero are left out.                                 *)
(***************************************************************************)
EXTENDS Integers, Sequences, FiniteSets, SequencesExt, FiniteSetsExt, Folds

CONSTANTS
    Workbooks,      \* the workbooks calculated
    MaxRow,         \* bound on the rows and columns of a window
    None

VARIABLES
    book,           \* Calculator.model: its sheets, cells and date system
    mode,           \* "all": calculate, "errors", "window": the two with errors
    window,         \* the sheet and the cells asked for, or None
    targets,        \* the addresses still to be evaluated
    memo,           \* Calculator.values
    visiting,       \* Calculator.states that are Visiting
    result,         \* CalculationResult.values
    outcome,        \* "open", "done", or the error that ended it
    hits,           \* conditionalStyles: the rules each cell of the window meets
    hidden          \* filteredOutRows

vars ==
    <<book, mode, window, targets, memo, visiting, result, outcome, hits, hidden>>

--------------------------------------------------------------------------------
\* Numbers.

Size(n) == IF n < 0 THEN -n ELSE n

RECURSIVE CommonFactor(_, _)
CommonFactor(m, n) == IF n = 0 THEN m ELSE CommonFactor(n, m % n)

Fraction(n, d) ==
    LET f    == CommonFactor(Size(n), Size(d))
        sign == IF d < 0 THEN -1 ELSE 1
    IN  <<sign * (n \div f), sign * (d \div f)>>

Whole(n)    == <<n, 1>>
Plus(p, q)  == Fraction(p[1] * q[2] + q[1] * p[2], p[2] * q[2])
Minus(p, q) == Fraction(p[1] * q[2] - q[1] * p[2], p[2] * q[2])
Times(p, q) == Fraction(p[1] * q[1], p[2] * q[2])
Over(p, q)  == Fraction(p[1] * q[2], p[2] * q[1])
Below(p, q) == p[1] * q[2] < q[1] * p[2]
Floored(p)  == p[1] \div p[2]
Ceiled(p)   == -((-p[1]) \div p[2])

\* A cast to an unsigned or, below it, a signed integer.
Truncated(p) == IF p[1] < 0 THEN Ceiled(p) ELSE Floored(p)
Count(p)     == IF p[1] < 0 THEN 0 ELSE Floored(p)

RECURSIVE Powered(_, _)
Powered(p, n) ==
    IF n = 0 THEN Whole(1)
    ELSE IF n < 0 THEN Over(Whole(1), Powered(p, -n))
    ELSE Times(p, Powered(p, n - 1))

\* powf with a whole exponent; what a fraction's powers come to is left undefined.
PowerOf(p, exponent) == CASE exponent[2] = 1 -> Powered(p, exponent[1])

Summed(numbers) == FoldLeft(Plus, Whole(0), numbers)
Ordered(numbers) == SortSeq(numbers, Below)

\* f64::round: halves away from zero.
Nearest(p) ==
    LET half == Fraction(1, 2)
    IN  IF p[1] < 0 THEN Ceiled(Minus(p, half)) ELSE Floored(Plus(p, half))

--------------------------------------------------------------------------------
\* Texts.

Digit   == <<"0", "1", "2", "3", "4", "5", "6", "7", "8", "9">>
Marks   == <<" ", "-", "<", "=", ">">>
Letters == <<"A", "B", "a", "b">>

\* The characters, in the order strings compare by.
Alphabet == SubSeq(Marks, 1, 2) \o Digit \o SubSeq(Marks, 3, 5) \o Letters
RankOf(c) == CHOOSE i \in 1 .. Len(Alphabet) : Alphabet[i] = c

Lowered(t) == [i \in DOMAIN t |-> CASE t[i] = "A" -> "a" [] t[i] = "B" -> "b" [] OTHER -> t[i]]
Raised(t)  == [i \in DOMAIN t |-> CASE t[i] = "a" -> "A" [] t[i] = "b" -> "B" [] OTHER -> t[i]]

\* The words of a text, one blank between them.
Trimmed(t) ==
    LET kept(i) ==
          \/ t[i] # " "
          \/ i < Len(t) /\ t[i + 1] # " " /\ \E j \in 1 .. i : t[j] # " "
    IN  FoldLeft(LAMBDA s, i : IF kept(i) THEN Append(s, t[i]) ELSE s, <<>>,
                 [i \in DOMAIN t |-> i])

RECURSIVE DigitsOf(_)
DigitsOf(n) ==
    IF n < 10 THEN <<Digit[n + 1]>> ELSE DigitsOf(n \div 10) \o <<Digit[(n % 10) + 1]>>

\* An optional value is a sequence of at most one: the number a text reads as.
ReadDigits(digits, sign) ==
    IF digits # <<>> /\ \A i \in DOMAIN digits : digits[i] \in ToSet(Digit)
    THEN <<Whole(FoldLeft(LAMBDA n, c : 10 * n + sign * (RankOf(c) - 3), 0, digits))>>
    ELSE <<>>

ReadWord(t) ==
    IF t # <<>> /\ t[1] = "-" THEN ReadDigits(Tail(t), -1) ELSE ReadDigits(t, 1)

ReadNumber(t) == ReadWord(Trimmed(t))

Earlier(s, t) ==
    LET differ == {i \in DOMAIN s \cap DOMAIN t : s[i] # t[i]}
    IN  IF differ = {} THEN Len(s) < Len(t)
        ELSE RankOf(s[Min(differ)]) < RankOf(t[Min(differ)])

\* Where a needle lies in a text, from a position on.
Positions(needle, text, from) ==
    {i \in from .. Len(text) - Len(needle) + 1 : SubSeq(text, i, i + Len(needle) - 1) = needle}

RECURSIVE Substituted(_, _, _)
Substituted(text, search, by) ==
    LET found == Positions(search, text, 1)
        at    == Min(found)
    IN  IF found = {} THEN text
        ELSE SubSeq(text, 1, at - 1) \o by
             \o Substituted(SubSeq(text, at + Len(search), Len(text)), search, by)

--------------------------------------------------------------------------------
\* Dates.

DaysFromCivil(year, month, day) ==
    LET y   == IF month <= 2 THEN year - 1 ELSE year
        era == y \div 400
        yoe == y - era * 400
        doy == ((153 * (IF month > 2 THEN month - 3 ELSE month + 9) + 2) \div 5) + day - 1
    IN  era * 146097 + yoe * 365 + (yoe \div 4) - (yoe \div 100) + doy - 719468

CivilFromDays(days) ==
    LET z     == days + 719468
        era   == z \div 146097
        doe   == z - era * 146097
        yoe   == (doe - (doe \div 1460) + (doe \div 36524) - (doe \div 146096)) \div 365
        doy   == doe - (365 * yoe + (yoe \div 4) - (yoe \div 100))
        mp    == (5 * doy + 2) \div 153
        month == IF mp < 10 THEN mp + 3 ELSE mp - 9
    IN  <<yoe + era * 400 + (IF month <= 2 THEN 1 ELSE 0), month,
          doy - ((153 * mp + 2) \div 5) + 1>>

EpochDays == -25569
SystemOffset == IF book.system = 1904 THEN 1462 ELSE 0

SerialOffByOne(year, month, day) == DaysFromCivil(year, month, day) - EpochDays

\* Serial 60 is the 29 February 1900 that never was; before it serials lag by one.
SerialOf(year, month, day) ==
    LET days == DaysFromCivil(year, month, day) - EpochDays
    IN  IF <<year, month, day>> = <<1900, 2, 29>> THEN 60
        ELSE IF days <= 60 THEN days - 1 ELSE days

DateOf(serial) ==
    IF serial = 60 THEN <<1900, 2, 29>>
    ELSE CivilFromDays(EpochDays + serial + (IF serial < 60 THEN 1 ELSE 0))

--------------------------------------------------------------------------------
\* Values.

Number(p) == [num |-> p]
Text(t)   == [text |-> t]
Bool(b)   == [bool |-> b]
Blank     == [blank |-> TRUE]
Error(c)  == [error |-> c]

Is(v, kind) == kind \in DOMAIN v

AsNumber(v) ==
    CASE Is(v, "num")   -> <<v.num>>
      [] Is(v, "blank") -> <<Whole(0)>>
      [] Is(v, "text")  -> ReadNumber(v.text)
      [] Is(v, "bool")  -> <<Whole(IF v.bool THEN 1 ELSE 0)>>
      [] OTHER          -> <<>>

\* A fraction and an error are written as one character of their own.
AsText(v) ==
    CASE Is(v, "blank") -> <<>>
      [] Is(v, "num")   -> IF v.num[2] # 1 THEN <<ToString(v.num)>>
                           ELSE IF v.num[1] < 0 THEN <<"-">> \o DigitsOf(-v.num[1])
                           ELSE DigitsOf(v.num[1])
      [] Is(v, "text")  -> v.text
      [] Is(v, "bool")  -> <<IF v.bool THEN "TRUE" ELSE "FALSE">>
      [] OTHER          -> <<v.error>>

RangeNumber(v) == IF Is(v, "num") \/ Is(v, "bool") THEN AsNumber(v) ELSE <<>>

IsTruthyValue(v) ==
    \/ Is(v, "num") /\ v.num # Whole(0)
    \/ Is(v, "bool") /\ v.bool
    \/ Is(v, "text") /\ v.text # <<>>

\* As numbers if both read as one, else as texts.
Alike(p, t, q, u) == IF p # <<>> /\ q # <<>> THEN p = q ELSE Lowered(t) = Lowered(u)

EqualLoose(v, w) == Alike(AsNumber(v), AsText(v), AsNumber(w), AsText(w))

\* The comparison a criterion's text begins with, and its operand.
Criterion(t) ==
    LET signs == IF Len(t) > 1 /\ SubSeq(t, 1, 2) \in {<<">", "=">>, <<"<", "=">>, <<"<", ">">>}
                 THEN SubSeq(t, 1, 2)
                 ELSE IF t # <<>> /\ t[1] \in {">", "<", "="} THEN SubSeq(t, 1, 1)
                 ELSE <<>>
    IN  [signs |-> signs, operand |-> SubSeq(t, Len(signs) + 1, Len(t))]

Meets(p, t, signs, q, u) ==
    LET both == p # <<>> /\ q # <<>>
    IN  CASE signs \in {<<>>, <<"=">>} -> Alike(p, t, q, u)
          [] signs = <<"<", ">">>      -> ~Alike(p, t, q, u)
          [] signs = <<">">>           -> both /\ Below(q[1], p[1])
          [] signs = <<">", "=">>      -> both /\ ~Below(p[1], q[1])
          [] signs = <<"<">>           -> both /\ Below(p[1], q[1])
          [] signs = <<"<", "=">>      -> both /\ ~Below(q[1], p[1])

Judged(v, c) == Meets(AsNumber(v), AsText(v), c.signs, ReadNumber(c.operand), c.operand)

Matches(v, criteria) == Judged(v, Criterion(AsText(criteria)))

\* Values of one type compare; two blanks are equal.
Compared(v, op, w) ==
    LET less(x, y) == CASE Is(x, "num")  -> Below(x.num, y.num)
                        [] Is(x, "text") -> Earlier(x.text, y.text)
                        [] Is(x, "bool") -> ~x.bool /\ y.bool
                        [] OTHER         -> FALSE
    IN  IF DOMAIN v # DOMAIN w \/ Is(v, "error") THEN Error("typeMismatch")
        ELSE Bool(CASE op = "="  -> ~less(v, w) /\ ~less(w, v)
                    [] op = "!=" -> less(v, w) \/ less(w, v)
                    [] op = ">"  -> less(w, v)
                    [] op = "<"  -> less(v, w)
                    [] op = ">=" -> ~less(v, w)
                    [] op = "<=" -> ~less(w, v))

Counted(p, op, q) ==
    CASE op = "+" -> Number(Plus(p, q))
      [] op = "-" -> Number(Minus(p, q))
      [] op = "*" -> Number(Times(p, q))
      [] op = "/" -> IF q = Whole(0) THEN Error("divisionByZero") ELSE Number(Over(p, q))

--------------------------------------------------------------------------------
\* Parsing: what is left to read, and the tree read so far or the refusal.

TokenAt(tokens, at) == IF at <= Len(tokens) THEN tokens[at] ELSE [t |-> "end"]
Refused(tokens, code) == [at |-> Len(tokens) + 1, tree |-> [k |-> "refused", code |-> code]]
IsRefused(parsed) == parsed.tree.k = "refused"

\* Comparisons bind least, products most.
Operators == <<{"=", "!=", ">", "<", ">=", "<="}, {"+", "-"}, {"*", "/"}>>

\* The recursion of the parser is a function's, which its parts are given.
RECURSIVE Chained(_, _, _, _), ArgumentList(_, _, _, _)

\* parse_comparison, parse_expression and parse_term: to the left.
Chained(parsed, level, tokens, left) ==
    IF IsRefused(left) \/ TokenAt(tokens, left.at).t \notin Operators[level] THEN left
    ELSE LET right == parsed[level + 1, tokens, left.at + 1]
         IN  IF IsRefused(right) THEN right
             ELSE Chained(parsed, level, tokens,
                          [at |-> right.at,
                           tree |-> [k |-> "binary", op |-> tokens[left.at].t,
                                     left |-> left.tree, right |-> right.tree]])

Factor(parsed, tokens, at) ==
    LET token == TokenAt(tokens, at)
        next  == TokenAt(tokens, at + 1)
        read(tree) == [at |-> at + 1, tree |-> tree]
    IN  CASE token.t \in {"+", "-"} ->
               LET of == parsed[4, tokens, at + 1]
               IN  IF IsRefused(of) THEN of
                   ELSE [of EXCEPT !.tree = [k |-> "unary", op |-> token.t, of |-> @]]
          [] token.t = "num"  -> read([k |-> "value", value |-> Number(token.num)])
          [] token.t = "text" -> read([k |-> "value", value |-> Text(token.text)])
          [] token.t = "ref" /\ next.t # ":" -> read([k |-> "ref", ref |-> token.ref])
          [] token.t = "ref" /\ next.t = ":" ->
               IF TokenAt(tokens, at + 2).t # "ref" THEN Refused(tokens, "syntax")
               ELSE [at |-> at + 3, tree |-> [k |-> "range", from |-> token.ref,
                                              to |-> tokens[at + 2].ref]]
          [] token.t = "(" ->
               LET inner == parsed[1, tokens, at + 1]
               IN  IF IsRefused(inner) THEN inner
                   ELSE IF TokenAt(tokens, inner.at).t # ")" THEN Refused(tokens, "syntax")
                   ELSE [inner EXCEPT !.at = @ + 1]
          [] token.t = "name" /\ next.t = "(" ->
               IF TokenAt(tokens, at + 2).t = ")"
               THEN [at |-> at + 3, tree |-> [k |-> "call", name |-> token.name, args |-> <<>>]]
               ELSE LET list == ArgumentList(parsed, tokens, at + 2, <<>>)
                    IN  IF IsRefused(list) THEN list
                        ELSE [list EXCEPT !.tree = [k |-> "call", name |-> token.name,
                                                    args |-> @.args]]
          [] token.t = "name" /\ next.t # "(" ->
               IF token.name \in {"TRUE", "FALSE"}
               THEN read([k |-> "value",
                          value |-> Number(Whole(IF token.name = "TRUE" THEN 1 ELSE 0))])
               ELSE Refused(tokens, "syntax")
          [] token.t = "external" -> Refused(tokens, "unsupportedExternalWorkbook")
          [] OTHER -> Refused(tokens, "syntax")

ArgumentList(parsed, tokens, at, read) ==
    LET arg  == parsed[1, tokens, at]
        args == Append(read, arg.tree)
        next == TokenAt(tokens, arg.at).t
    IN  CASE IsRefused(arg)                     -> arg
          [] ~IsRefused(arg) /\ next = ","      -> ArgumentList(parsed, tokens, arg.at + 1, args)
          [] ~IsRefused(arg) /\ next = ")"      -> [at |-> arg.at + 1,
                                                    tree |-> [k |-> "args", args |-> args]]
          [] OTHER                              -> Refused(tokens, "syntax")

Parsed[level \in 1 .. 4, tokens \in Any, at \in Nat] ==
    IF level = 4 THEN Factor(Parsed, tokens, at)
    ELSE Chained(Parsed, level, tokens, Parsed[level + 1, tokens, at])

\* Parser::parse: all tokens have to be read.
Parse(tokens) ==
    LET parsed == Parsed[1, tokens, 1]
        next   == TokenAt(tokens, parsed.at).t
    IN  CASE IsRefused(parsed) \/ next = "end" -> parsed.tree
          [] next = ":"                        -> Refused(tokens, "unsupportedRange").tree
          [] next = "external"                 -> Refused(tokens, "unsupportedExternalWorkbook").tree
          [] OTHER                             -> Refused(tokens, "syntax").tree

--------------------------------------------------------------------------------
\* Functions of their arguments' values alone, by what each argument is taken as:
\* "number", "zero" and "one" (a number that may be absent), "text", "truth",
\* "value", "values" (a range's, too), "rest" and "numbers" (all that follow).

Default == [zero |-> Whole(0), one |-> Whole(1)]

Maths      == {"ROUND", "ROUNDUP", "ROUNDDOWN", "ABS", "INT", "MOD", "POWER", "CEILING", "FLOOR"}
Texts      == {"CONCAT", "LEFT", "RIGHT", "MID", "LEN", "UPPER", "LOWER", "TRIM", "SUBSTITUTE",
               "REPLACE", "FIND", "SEARCH", "EXACT", "TEXTJOIN"}
Logic      == {"AND", "OR", "NOT"}
Aggregates == {"SUM", "AVERAGE", "MIN", "MAX", "COUNT"}
Statistics == {"COUNTA", "COUNTIF", "SUMIF", "AVERAGEIF", "MEDIAN", "LARGE", "SMALL"}
Dates      == {"DATE", "YEAR", "MONTH", "DAY"}
Annuities  == {"PV", "FV", "PMT"}

Signature(name, given) ==
    CASE name \in {"ROUND", "ROUNDUP", "ROUNDDOWN"}      -> <<"number", "zero">>
      [] name \in {"CEILING", "FLOOR"}                   -> <<"number", "one">>
      [] name \in {"ABS", "INT", "YEAR", "MONTH", "DAY"} -> <<"number">>
      [] name \in {"MOD", "POWER"}                       -> <<"number", "number">>
      [] name \in {"AND", "OR", "CONCAT", "COUNTA"}      -> <<"rest">>
      [] name = "NOT"                                    -> <<"truth">>
      [] name \in {"LEFT", "RIGHT"}                      -> <<"text", "one">>
      [] name = "MID"                                    -> <<"text", "number", "number">>
      [] name \in {"LEN", "UPPER", "LOWER", "TRIM"}      -> <<"text">>
      [] name = "SUBSTITUTE"                             -> <<"text", "text", "text">>
      [] name = "REPLACE"                                -> <<"text", "number", "number", "text">>
      [] name \in {"FIND", "SEARCH"}                     -> <<"text", "text", "one">>
      [] name = "EXACT"                                  -> <<"text", "text">>
      [] name = "TEXTJOIN"                               -> <<"text", "truth", "rest">>
      [] name = "COUNTIF"                                -> <<"values", "value">>
      [] name \in {"SUMIF", "AVERAGEIF"}                 -> IF given < 3 THEN <<"values", "value">>
                                                            ELSE <<"values", "value", "values">>
      [] name \in {"LARGE", "SMALL"}                     -> <<"values", "number">>
      [] name = "MATCH"                                  -> <<"value", "values", "zero">>
      [] name = "NPV"                                    -> <<"number", "rest">>
      [] name = "DATE"                                   -> <<"number", "number", "number">>
      [] name \in Annuities                              -> <<"number", "number", "number", "zero", "zero">>
      [] OTHER                                           -> <<"numbers">>

\* Scaled up by the digits asked for, rounded one way or the other, and back.
Rounded(name, p, digits) ==
    LET factor == PowerOf(Whole(10), digits)
        scaled == Times(p, factor)
        away   == Below(Whole(0), scaled) = (name = "ROUNDUP")
        kept   == CASE name = "ROUND" -> Nearest(scaled)
                    [] name # "ROUND" /\ away  -> Ceiled(scaled)
                    [] name # "ROUND" /\ ~away -> Floored(scaled)
    IN  Over(Whole(kept), factor)

MathsValue(name, a) ==
    LET p == a[1]
        q == a[2]
        none == q = Whole(0)
        step == Over(p, q)
    IN  CASE name \in {"ROUND", "ROUNDUP", "ROUNDDOWN"} -> Number(Rounded(name, p, q))
          [] name = "ABS" -> Number(<<Size(p[1]), p[2]>>)
          [] name = "INT" -> Number(Whole(Floored(p)))
          [] name \in {"MOD", "FLOOR"} /\ none -> Error("divisionByZero")
          [] name = "MOD" /\ ~none -> Number(Minus(p, Times(q, Whole(Floored(step)))))
          [] name = "POWER" -> IF p = Whole(0) /\ q[1] < 0 THEN Error("nonFinite")
                               ELSE Number(PowerOf(p, q))
          [] name = "CEILING" /\ none  -> Number(Whole(0))
          [] name = "CEILING" /\ ~none -> Number(Times(Whole(Ceiled(step)), q))
          [] name = "FLOOR" /\ ~none   -> Number(Times(Whole(Floored(step)), q))

LogicValue(name, a) ==
    CASE name = "AND" -> IF a[1] = <<>> THEN Error("typeMismatch")
                         ELSE Bool(\A i \in DOMAIN a[1] : IsTruthyValue(a[1][i]))
      [] name = "OR"  -> Bool(\E i \in DOMAIN a[1] : IsTruthyValue(a[1][i]))
      [] name = "NOT" -> Bool(~a[1])

\* FIND looks through windows of at least one character, SEARCH in lower case.
Found(name, needle, text, start) ==
    LET from  == Min({Count(start), Len(text) + 1})
        where == IF name = "SEARCH" THEN Positions(Lowered(needle), Lowered(text), from)
                 ELSE IF needle = <<>> THEN {}
                 ELSE Positions(needle, text, from)
    IN  IF Below(start, Whole(1)) \/ where = {} THEN Error("typeMismatch")
        ELSE Number(Whole(Min(where)))

TextValue(name, a) ==
    LET t == a[1]
        n == Len(t)
        first(k) == SubSeq(t, 1, Min({k, n}))
        after(k) == SubSeq(t, k + 1, n)
        out == Below(a[2], Whole(1)) \/ Below(a[3], Whole(0))
        begin == Min({Count(a[2]) - 1, n})
        end == Min({begin + Count(a[3]), n})
    IN  CASE name = "CONCAT" -> Text(FlattenSeq([i \in DOMAIN t |-> AsText(t[i])]))
          [] name = "LEFT"  -> Text(first(Count(a[2])))
          [] name = "RIGHT" -> Text(after(n - Min({Count(a[2]), n})))
          [] name \in {"MID", "REPLACE"} /\ out -> Error("typeMismatch")
          [] name = "MID" /\ ~out     -> Text(SubSeq(t, begin + 1, end))
          [] name = "REPLACE" /\ ~out -> Text(first(begin) \o a[4] \o after(end))
          [] name = "LEN"   -> Number(Whole(n))
          [] name = "UPPER" -> Text(Raised(t))
          [] name = "LOWER" -> Text(Lowered(t))
          [] name = "TRIM"  -> Text(Trimmed(t))
          [] name = "SUBSTITUTE" -> Text(IF a[2] = <<>> THEN t ELSE Substituted(t, a[2], a[3]))
          [] name \in {"FIND", "SEARCH"} -> Found(name, t, a[2], a[3])
          [] name = "EXACT" -> Bool(t = a[2])
          [] name = "TEXTJOIN" ->
               LET all  == [i \in DOMAIN a[3] |-> AsText(a[3][i])]
                   kept == IF a[2] THEN SelectSeq(all, LAMBDA s : s # <<>>) ELSE all
               IN  Text(FlattenSeq([i \in DOMAIN kept |-> IF i = 1 THEN kept[i] ELSE t \o kept[i]]))

\* The numbers of those values whose partner meets the criterion.
Chosen(values, criteria, taken) ==
    FlattenSeq([i \in 1 .. Min({Len(values), Len(taken)}) |->
                IF Matches(values[i], criteria) THEN AsNumber(taken[i]) ELSE <<>>])

Mean(numbers) == Over(Summed(numbers), Whole(Len(numbers)))

Middle(numbers) ==
    LET n == Len(numbers)
    IN  IF n % 2 = 1 THEN Ordered(numbers)[(n \div 2) + 1]
        ELSE Mean(SubSeq(Ordered(numbers), n \div 2, (n \div 2) + 1))

Ranked(name, values, rank) ==
    LET numbers == Ordered(FlattenSeq([i \in DOMAIN values |-> AsNumber(values[i])]))
        n       == Len(numbers)
    IN  IF Count(rank) \notin 1 .. n THEN Error("typeMismatch")
        ELSE Number(numbers[IF name = "LARGE" THEN n + 1 - Count(rank) ELSE Count(rank)])

FirstEqual(values, needle) == {i \in DOMAIN values : EqualLoose(values[i], needle)}

AggregateValue(name, numbers) ==
    LET extreme(least) == IF numbers = <<>> THEN Whole(0)
                          ELSE Ordered(numbers)[IF least THEN 1 ELSE Len(numbers)]
    IN  Number(CASE name = "SUM"     -> Summed(numbers)
                 [] name = "AVERAGE" -> IF numbers = <<>> THEN Whole(0) ELSE Mean(numbers)
                 [] name = "MIN"     -> extreme(TRUE)
                 [] name = "MAX"     -> extreme(FALSE)
                 [] name = "COUNT"   -> Whole(Len(numbers)))

ChosenValue(name, numbers) ==
    CASE name = "SUMIF"     -> Number(Summed(numbers))
      [] name = "AVERAGEIF" -> IF numbers = <<>> THEN Error("divisionByZero")
                               ELSE Number(Mean(numbers))

StatisticValue(name, a) ==
    CASE name = "MEDIAN"  -> IF a[1] = <<>> THEN Error("typeMismatch") ELSE Number(Middle(a[1]))
      [] name = "COUNTA"  -> Number(Whole(Len(SelectSeq(a[1], LAMBDA v : ~Is(v, "blank")))))
      [] name = "COUNTIF" -> Number(Whole(Len(SelectSeq(a[1], LAMBDA v : Matches(v, a[2])))))
      [] name \in {"SUMIF", "AVERAGEIF"} ->
           ChosenValue(name, Chosen(a[1], a[2], IF Len(a) = 3 THEN a[3] ELSE a[1]))
      [] name \in {"LARGE", "SMALL"} -> Ranked(name, a[1], a[2])

\* MATCH: exact matches only.
Matched(needle, values, kind) ==
    IF kind # Whole(0) \/ FirstEqual(values, needle) = {} THEN Error("typeMismatch")
    ELSE Number(Whole(Min(FirstEqual(values, needle))))

NetPresentValue(rate, values) ==
    LET growth == Plus(Whole(1), rate)
        due(i) == IF AsNumber(values[i]) = <<>> THEN <<>>
                  ELSE <<Over(AsNumber(values[i])[1], Powered(growth, i))>>
    IN  IF growth = Whole(0) /\ \E i \in DOMAIN values : AsNumber(values[i]) # <<>>
        THEN Error("nonFinite")
        ELSE Number(Summed(FlattenSeq([i \in DOMAIN values |-> due(i)])))

DateValue(name, a) ==
    LET serial == Floored(a[1]) + SystemOffset
    IN  CASE name = "DATE" ->
               LET year == Truncated(a[1]) month == Truncated(a[2]) day == Truncated(a[3])
               IN  IF year \notin 1 .. 9999 \/ month \notin 1 .. 12 \/ day \notin 1 .. 31
                   THEN Error("typeMismatch")
                   ELSE Number(Whole(SerialOf(year, month, day) - SystemOffset))
          [] name = "YEAR"  -> Number(Whole(DateOf(serial)[1]))
          [] name = "MONTH" -> Number(Whole(DateOf(serial)[2]))
          [] name = "DAY"   -> Number(Whole(DateOf(serial)[3]))

AnnuityValue(name, a) ==
    LET rate == a[1] periods == a[2] third == a[3] fourth == a[4] timing == a[5]
        growth == PowerOf(Plus(Whole(1), rate), periods)
        factor == IF rate = Whole(0) THEN periods ELSE Over(Minus(growth, Whole(1)), rate)
        due    == Times(Plus(Whole(1), Times(rate, timing)), factor)
        owed   == CASE name = "PV"  -> Over(Plus(fourth, Times(third, due)), growth)
                    [] name = "FV"  -> Plus(Times(fourth, growth), Times(third, due))
                    [] name = "PMT" -> Over(Plus(fourth, Times(third, growth)), due)
    IN  IF \/ ~Below(Whole(0), periods) \/ ~Below(Whole(-1), rate)
           \/ timing \notin {Whole(0), Whole(1)}
        THEN Error("typeMismatch")
        ELSE Number(Minus(Whole(0), owed))

\* evaluate_function, for the functions of values.
Applied(name, a) ==
    CASE name \in Maths      -> MathsValue(name, a)
      [] name \in Logic      -> LogicValue(name, a)
      [] name \in Texts      -> TextValue(name, a)
      [] name \in Aggregates -> AggregateValue(name, a[1])
      [] name \in Statistics -> StatisticValue(name, a)
      [] name = "MATCH"      -> Matched(a[1], a[2], a[3])
      [] name = "NPV"        -> NetPresentValue(a[1], a[2])
      [] name \in Dates      -> DateValue(name, a)
      [] name \in Annuities  -> AnnuityValue(name, a)

--------------------------------------------------------------------------------
\* Evaluation.  It threads the values and the marks of the Calculator; what it
\* comes to is a value, or an error that the expressions around it return, too.

Ok(st, v)     == [st |-> st, ok |-> TRUE, v |-> v]
Err(st, code) == [st |-> st, ok |-> FALSE, v |-> Error(code)]

\* A value a function computed: of itself it never yields an error value.
Yield(st, v) == [st |-> st, ok |-> ~Is(v, "error"), v |-> v]

ConstantValue(st, content) ==
    IF content.constant = "unsupported" THEN Err(st, "unsupportedValue")
    ELSE Ok(st, content.value)

IsCell(address) == address \in DOMAIN book.cells

\* resolve_coordinate: the sheet a key names, by id or name; else its own sheet.
Sheet(current, ref) ==
    IF ref.sheet = None THEN current[1]
    ELSE IF \E i \in DOMAIN book.sheets : ref.sheet \in book.sheets[i]
    THEN CHOOSE i \in DOMAIN book.sheets : ref.sheet \in book.sheets[i]
    ELSE 0

Address(current, ref) == <<Sheet(current, ref), ref.row, ref.column>>

\* The corner of a range, its extent, and its cells row by row.
Corner(f, t) == <<f[1], Min({f[2], t[2]}), Min({f[3], t[3]})>>
Height(f, t) == Size(f[2] - t[2]) + 1
Width(f, t)  == Size(f[3] - t[3]) + 1
Offset(c, down, right) == <<c[1], c[2] + down, c[3] + right>>
Box(f, t) ==
    [i \in 1 .. Height(f, t) * Width(f, t) |->
       Offset(Corner(f, t), (i - 1) \div Width(f, t), (i - 1) % Width(f, t))]

SettledByValue(address, r) ==
    IF r.ok THEN [r EXCEPT !.st.memo = (address :> r.v) @@ @,
                           !.st.visiting = @ \ {address}]
    ELSE r

\* What a cell's evaluation leaves: its value or, after an error, no mark.
Settled(address, r) ==
    IF r.ok THEN [r EXCEPT !.st.memo = (address :> r.v) @@ @,
                           !.st.visiting = @ \ {address}]
    ELSE [r EXCEPT !.st.visiting = @ \ {address}]

\* The recursion is a function's, too, which its parts are given.  Besides an
\* expression it can be asked for the cell itself, for all values of an expression,
\* and for an argument, taken as what the function wants.
TheCell == [k |-> "cell"]
ValuesOf(e) == [k |-> "values", of |-> e]
ArgumentOf(args, i, kind) == [k |-> "argument", args |-> args, i |-> i, kind |-> kind]

RECURSIVE Visited(_, _, _, _), Gathered(_, _, _, _, _), Arguments(_, _, _, _, _, _),
          Scanned(_, _, _, _, _)

\* value_at, one address after the other: a cell that is not there is blank.
Visited(of, st, addresses, got) ==
    LET r == IF IsCell(Head(addresses)) THEN of[st, Head(addresses), TheCell] ELSE Ok(st, Blank)
    IN  IF addresses = <<>> THEN Ok(st, got)
        ELSE IF ~r.ok THEN r
        ELSE Visited(of, r.st, Tail(addresses), Append(got, r.v))

\* The ends of a range, or why it is none.
RangeError(current, e) ==
    LET from == Address(current, e.from) to == Address(current, e.to)
    IN  CASE e.k # "range"                              -> "unsupportedRange"
          [] e.k = "range" /\ (from[1] = 0 \/ to[1] = 0) -> "unknownSheet"
          [] e.k = "range" /\ 0 \notin {from[1], to[1]} ->
               IF from[1] # to[1] THEN "typeMismatch" ELSE "none"

\* evaluate_values.
Values(of, st, current, e) ==
    IF e.k # "range"
    THEN LET r == of[st, current, e] IN IF r.ok THEN Ok(r.st, <<r.v>>) ELSE r
    ELSE IF RangeError(current, e) # "none" THEN Err(st, RangeError(current, e))
    ELSE Visited(of, st, Box(Address(current, e.from), Address(current, e.to)), <<>>)

\* collect_all.
Gathered(of, st, current, args, got) ==
    LET r == of[st, current, ValuesOf(Head(args))]
    IN  IF args = <<>> THEN Ok(st, got)
        ELSE IF ~r.ok THEN r
        ELSE Gathered(of, r.st, current, Tail(args), got \o r.v)

\* A value taken as what the function wants.
Taken(r, kind) ==
    IF ~r.ok THEN r
    ELSE CASE kind = "value" -> r
           [] kind = "text"  -> [r EXCEPT !.v = AsText(@)]
           [] kind = "truth" ->
                IF Is(r.v, "text") \/ Is(r.v, "error") THEN Err(r.st, "typeMismatch")
                ELSE [r EXCEPT !.v = IsTruthyValue(@)]
           [] kind \in {"number", "zero", "one"} ->
                IF Is(r.v, "num") THEN [r EXCEPT !.v = @.num] ELSE Err(r.st, "typeMismatch")

Argument(of, st, current, args, i, kind) ==
    LET rest == Gathered(of, st, current, SubSeq(args, i, Len(args)), <<>>)
    IN  CASE kind = "rest" -> rest
          [] kind = "numbers" ->
               IF ~rest.ok THEN rest
               ELSE [rest EXCEPT !.v = FlattenSeq([j \in DOMAIN @ |-> RangeNumber(@[j])])]
          [] kind \in DOMAIN Default /\ i > Len(args) -> Ok(st, Default[kind])
          [] kind \notin DOMAIN Default \cup {"rest", "numbers"} /\ i > Len(args) ->
               Err(st, "typeMismatch")
          [] kind = "values" /\ i <= Len(args) -> of[st, current, ValuesOf(args[i])]
          [] kind \notin {"rest", "numbers", "values"} /\ i <= Len(args) ->
               Taken(of[st, current, args[i]], kind)

Arguments(of, st, current, args, kinds, got) ==
    LET i == Len(got) + 1
        r == of[st, current, ArgumentOf(args, i, kinds[i])]
    IN  IF i > Len(kinds) THEN Ok(st, got)
        ELSE IF ~r.ok THEN r
        ELSE Arguments(of, r.st, current, args, kinds, Append(got, r.v))

\* The first of the cells that equals the needle, or 0.
Scanned(of, st, cells, needle, i) ==
    LET r == Visited(of, st, <<cells[i]>>, <<>>)
    IN  IF i > Len(cells) THEN Ok(st, 0)
        ELSE IF ~r.ok THEN r
        ELSE IF EqualLoose(r.v[1], needle) THEN Ok(r.st, i)
        ELSE Scanned(of, r.st, cells, needle, i + 1)

\* value_at of one address.
At(of, st, address) ==
    LET r == Visited(of, st, <<address>>, <<>>) IN IF r.ok THEN Ok(r.st, r.v[1]) ELSE r

\* VLOOKUP goes down the first column, HLOOKUP along the first row.
LookedUp(of, st, current, name, args) ==
    LET needle == of[st, current, ArgumentOf(args, 1, "value")]
        from   == Address(current, args[2].from)
        to     == Address(current, args[2].to)
        down   == name = "VLOOKUP"
        index  == of[needle.st, current, ArgumentOf(args, 3, "number")]
        across == IF down THEN Width(from, to) ELSE Height(from, to)
        line   == [i \in 1 .. IF down THEN Height(from, to) ELSE Width(from, to) |->
                     IF down THEN Offset(Corner(from, to), i - 1, 0)
                     ELSE Offset(Corner(from, to), 0, i - 1)]
        found  == Scanned(of, index.st, line, needle.v, 1)
        step   == Count(index.v) - 1
    IN  IF ~needle.ok THEN needle
        ELSE IF Len(args) < 2 THEN Err(needle.st, "typeMismatch")
        ELSE IF args[2].k # "range" \/ RangeError(current, args[2]) # "none"
        THEN Err(needle.st, RangeError(current, args[2]))
        ELSE IF ~index.ok THEN index
        ELSE IF step \notin 0 .. across - 1 THEN Err(index.st, "typeMismatch")
        ELSE IF ~found.ok THEN found
        ELSE IF found.v = 0 THEN Err(found.st, "typeMismatch")
        ELSE At(of, found.st, IF down THEN Offset(line[found.v], 0, step)
                          ELSE Offset(line[found.v], step, 0))

\* INDEX.
Indexed(of, st, current, args) ==
    LET from   == Address(current, args[1].from)
        to     == Address(current, args[1].to)
        row    == of[st, current, ArgumentOf(args, 2, "number")]
        column == of[row.st, current, ArgumentOf(args, 3, "one")]
    IN  IF args = <<>> THEN Err(st, "typeMismatch")
        ELSE IF args[1].k # "range" \/ RangeError(current, args[1]) # "none"
        THEN Err(st, RangeError(current, args[1]))
        ELSE IF ~row.ok THEN row
        ELSE IF ~column.ok THEN column
        ELSE IF \/ Count(row.v) \notin 1 .. Height(from, to)
                \/ Count(column.v) \notin 1 .. Width(from, to)
        THEN Err(column.st, "typeMismatch")
        ELSE At(of, column.st, Offset(Corner(from, to), Count(row.v) - 1, Count(column.v) - 1))

\* XLOOKUP answers from the second range, or with the fallback.
Crossed(of, st, current, args) ==
    LET a     == Arguments(of, st, current, args, <<"value", "values", "values">>, <<>>)
        found == FirstEqual(a.v[2], a.v[1])
    IN  IF ~a.ok THEN a
        ELSE IF Len(a.v[2]) # Len(a.v[3]) THEN Err(a.st, "typeMismatch")
        ELSE IF found # {} THEN Ok(a.st, a.v[3][Min(found)])
        ELSE IF Len(args) > 3 THEN of[a.st, current, args[4]]
        ELSE Err(a.st, "typeMismatch")

\* Only the branch taken is evaluated.
Branch(of, st, current, args) ==
    LET condition == of[st, current, ArgumentOf(args, 1, "truth")]
    IN  IF Len(args) # 3 THEN Err(st, "syntax")
        ELSE IF ~condition.ok THEN condition
        ELSE of[condition.st, current, IF condition.v THEN args[2] ELSE args[3]]

\* What the failed attempt learnt is kept.
Rescued(of, st, current, args) ==
    LET first == of[st, current, ArgumentOf(args, 1, "value")]
    IN  IF first.ok THEN first
        ELSE IF args = <<>> THEN first
        ELSE of[first.st, current, ArgumentOf(args, 2, "value")]

CallValue(of, st, current, e) ==
    CASE e.name \in {"VLOOKUP", "HLOOKUP"} -> LookedUp(of, st, current, e.name, e.args)
      [] e.name = "INDEX"   -> Indexed(of, st, current, e.args)
      [] e.name = "XLOOKUP" -> Crossed(of, st, current, e.args)
      [] e.name = "IF"      -> Branch(of, st, current, e.args)
      [] e.name = "IFERROR" -> Rescued(of, st, current, e.args)
      [] e.name \in Maths \cup Logic \cup Texts \cup Aggregates \cup Statistics
                   \cup {"MATCH", "NPV"} \cup Dates \cup Annuities ->
           LET a == Arguments(of, st, current, e.args, Signature(e.name, Len(e.args)), <<>>)
           IN  IF a.ok THEN Yield(a.st, Applied(e.name, a.v)) ELSE a
      [] OTHER -> Err(st, "unsupportedFunction")

\* evaluate_cell.  A formula that cannot be parsed returns at once and leaves the
\* cell's mark behind.
CellValue(of, st, address) ==
    LET entered == [st EXCEPT !.visiting = @ \cup {address}]
        content == book.cells[address]
        tree    == Parse(content.formula)
    IN  CASE address \in DOMAIN st.memo -> Ok(st, st.memo[address])
          [] address \notin DOMAIN st.memo /\ address \in st.visiting -> Err(st, "cycle")
          [] address \notin DOMAIN st.memo \cup st.visiting ->
               IF ~IsCell(address) THEN Err(st, "unknownReference")
               ELSE IF "constant" \in DOMAIN content
               THEN Settled(address, ConstantValue(entered, content))
               ELSE IF content.formula = <<>>
               THEN Settled(address, Err(entered, "emptyFormula"))
               ELSE IF tree.k = "refused" THEN Err(entered, tree.code)
               ELSE Settled(address, of[entered, address, tree])

ExprValue(of, st, current, e) ==
    CASE e.k = "value" -> Ok(st, e.value)
      [] e.k = "ref"   ->
           LET a == Address(current, e.ref)
           IN  IF a[1] = 0 THEN Err(st, "unknownSheet")
               ELSE IF ~IsCell(a) THEN Err(st, "unknownReference")
               ELSE of[st, a, TheCell]
      [] e.k = "range" -> Err(st, "unsupportedRange")
      [] e.k = "call"  -> CallValue(of, st, current, e)
      [] e.k = "unary" ->
           LET r == of[st, current, e.of]
           IN  IF ~r.ok THEN r
               ELSE IF ~Is(r.v, "num") THEN Err(r.st, "typeMismatch")
               ELSE IF e.op = "-" THEN Ok(r.st, Number(Minus(Whole(0), r.v.num)))
               ELSE r
      [] e.k = "binary" /\ e.op \in Operators[1] ->
           LET left  == of[st, current, e.left]
               right == of[left.st, current, e.right]
           IN  IF ~left.ok THEN left
               ELSE IF ~right.ok THEN right
               ELSE Yield(right.st, Compared(left.v, e.op, right.v))
      [] e.k = "binary" /\ e.op \notin Operators[1] ->
           LET left  == of[st, current, e.left]
               right == of[left.st, current, e.right]
           IN  IF ~left.ok THEN left
               ELSE IF ~Is(left.v, "num") THEN Err(left.st, "typeMismatch")
               ELSE IF ~right.ok THEN right
               ELSE IF ~Is(right.v, "num") THEN Err(right.st, "typeMismatch")
               ELSE Yield(right.st, Counted(left.v.num, e.op, right.v.num))

Evaluation[st \in Any, current \in Any, e \in Any] ==
    CASE e.k = "cell"     -> CellValue(Evaluation, st, current)
      [] e.k = "values"   -> Values(Evaluation, st, current, e.of)
      [] e.k = "argument" -> Argument(Evaluation, st, current, e.args, e.i, e.kind)
      [] OTHER            -> ExprValue(Evaluation, st, current, e)

--------------------------------------------------------------------------------
\* The grid of a sheet is asked for by a half-open window.

IsWindow(w) == w.startRow < w.endRow /\ w.startColumn < w.endColumn

InWindow(w, a) ==
    a[2] \in w.startRow .. w.endRow - 1 /\ a[3] \in w.startColumn .. w.endColumn - 1

Windows ==
    {w \in [sheet : DOMAIN book.sheets, startRow : 0 .. MaxRow, endRow : 0 .. MaxRow + 1,
            startColumn : 0 .. MaxRow, endColumn : 0 .. MaxRow + 1] : IsWindow(w)}

Before(a, b) ==
    \/ a[1] < b[1]
    \/ a[1] = b[1] /\ a[2] < b[2]
    \/ a[1] = b[1] /\ a[2] = b[2] /\ a[3] < b[3]

\* The cells of the sheets, and of the window, in their order.
MaterializedAddresses == SetToSortSeq(DOMAIN book.cells, Before)
Projected(w) ==
    SetToSortSeq({a \in DOMAIN book.cells : a[1] = w.sheet /\ InWindow(w, a)}, Before)

\* Calculator::new: no two sheets share an id or a name.
Ambiguous ==
    \E i, j \in DOMAIN book.sheets : i # j /\ book.sheets[i] \cap book.sheets[j] # {}

\* calculate and calculate_with_errors go through all cells, a window through its own
\* with calculate_targets_with_errors.
Init ==
    /\ book \in Workbooks
    /\ \/ mode \in {"all", "errors"} /\ window = None /\ targets = MaterializedAddresses
       \/ mode = "window" /\ window \in Windows /\ targets = Projected(window)
    /\ memo = <<>>
    /\ visiting = {}
    /\ result = <<>>
    /\ outcome = IF Ambiguous THEN "unknownSheet" ELSE "open"
    /\ hits = <<>>
    /\ hidden = {}

Evaluated(learnt, address) == Evaluation[learnt, address, TheCell]

\* One target: the strict calculation stops at an error, the others go on with the
\* error as the cell's value; calculate_with_errors lets it be read, too.
EvaluateNext ==
    /\ outcome = "open" /\ targets # <<>>
    /\ LET r == Evaluated([memo |-> memo, visiting |-> visiting], Head(targets))
       IN  /\ targets' = Tail(targets)
           /\ visiting' = r.st.visiting
           /\ memo' = IF mode = "errors" /\ ~r.ok THEN (Head(targets) :> r.v) @@ r.st.memo
                      ELSE r.st.memo
           /\ result' = IF mode = "window" THEN (Head(targets) :> r.v) @@ result ELSE memo'
           /\ outcome' = IF mode = "all" /\ ~r.ok THEN r.v.error ELSE outcome
    /\ UNCHANGED <<book, mode, window, hits, hidden>>

\* The rules a number meets, of those that cover its cell.
Compares(p, op, q) ==
    CASE op = "equal"              -> p = q
      [] op = "notEqual"           -> p # q
      [] op = "greaterThan"        -> Below(q, p)
      [] op = "greaterThanOrEqual" -> ~Below(p, q)
      [] op = "lessThan"           -> Below(p, q)
      [] op = "lessThanOrEqual"    -> ~Below(q, p)

Covers(range, a) ==
    /\ a[1] = range.sheet
    /\ a[2] \in range.startRow .. range.endRow
    /\ a[3] \in range.startColumn .. range.endColumn

ConditionalFormatHits(a, v) ==
    {i \in DOMAIN book.formats :
       LET rule == book.formats[i]
       IN  Is(v, "num") /\ Covers(rule, a) /\ Compares(v.num, rule.op, rule.operand)}

FilterPredicateMatches(p, v) ==
    CASE p.kind = "values"      -> v \in p.allowed
      [] p.kind = "contains"    -> Is(v, "text") /\ Positions(p.text, v.text, 1) # {}
      [] p.kind = "greaterThan" -> Is(v, "num") /\ Below(p.num, v.num)
      [] p.kind = "lessThan"    -> Is(v, "num") /\ Below(v.num, p.num)

\* A filter judges the value a cell holds, which a formula has not.
FilteredOutRows(w) ==
    {row \in w.startRow .. w.endRow - 1 :
       \E f \in book.filters :
         LET a == <<w.sheet, row, f.column>>
         IN  /\ w.sheet = f.sheet /\ row \in f.startRow .. f.endRow
             /\ ~ /\ IsCell(a) /\ "constant" \in DOMAIN book.cells[a]
                  /\ book.cells[a].constant = "value" /\ ~Is(book.cells[a].value, "blank")
                  /\ FilterPredicateMatches(f.predicate, book.cells[a].value)}

\* The end: a window's request answers with what its cells and rows look like, too.
Answer ==
    /\ outcome = "open" /\ targets = <<>>
    /\ outcome' = "done"
    /\ hits' = IF mode # "window" THEN <<>>
               ELSE [a \in DOMAIN result |-> ConditionalFormatHits(a, result[a])]
    /\ hidden' = IF mode # "window" THEN {} ELSE FilteredOutRows(window)
    /\ UNCHANGED <<book, mode, window, targets, memo, visiting, result>>

Next == EvaluateNext \/ Answer

Spec == Init /\ [][Next]_vars

--------------------------------------------------------------------------------
Settledness == visiting \subseteq DOMAIN book.cells /\ visiting \cap DOMAIN memo = {}

\* A value is one of the five kinds; a cell with a value is not being visited.
TypeOK ==
    /\ mode \in {"all", "errors", "window"}
    /\ \A a \in DOMAIN memo \cup DOMAIN result :
          LET v == IF a \in DOMAIN memo THEN memo[a] ELSE result[a]
          IN  /\ a \in DOMAIN book.cells
              /\ \E kind \in {"num", "text", "bool", "blank", "error"} : DOMAIN v = {kind}
    /\ mode # "errors" => Settledness

\* What a cell comes to when nothing else is asked for.
Alone(address) == Evaluated([memo |-> <<>>, visiting |-> {}], address)

\* The cells a cell's formula names, and those it depends on.
Reads(address) ==
    LET content == book.cells[address]
        tokens  == IF "formula" \in DOMAIN content THEN content.formula ELSE <<>>
        named   == {i \in DOMAIN tokens : tokens[i].t = "ref"}
        at(i)   == Address(address, tokens[i].ref)
    IN  IF ~IsCell(address) THEN {}
        ELSE {at(i) : i \in named}
             \cup UNION {ToSet(Box(at(i), at(i + 2))) :
                           i \in {j \in named : TokenAt(tokens, j + 1).t = ":" /\ j + 2 \in named}}

RECURSIVE Cone(_)
Cone(addresses) ==
    LET wider == addresses \cup UNION {Reads(a) : a \in addresses}
    IN  IF wider = addresses THEN addresses ELSE Cone(wider)

\* A formula that can be parsed, and that does not rescue itself from its own cycle.
IsSteady(address) ==
    LET content == book.cells[address]
    IN  "formula" \in DOMAIN content /\ content.formula # <<>> =>
          /\ Parse(content.formula).k # "refused"
          /\ address \in Cone(Reads(address)) =>
               \A i \in DOMAIN content.formula :
                 content.formula[i] # [t |-> "name", name |-> "IFERROR"]

\* A cell has one value, and the styles of it, whatever was asked for before it or
\* with it: the value it has alone.
\* Not claimed where a formula on the way cannot be parsed, where IFERROR rescues a
\* cycle, or where calculate_with_errors lets a failed cell be read.
CellsHaveTheirValue ==
    \A a \in DOMAIN result :
      LET cone == Cone({a}) \cap DOMAIN book.cells
      IN  /\ \A c \in cone : IsSteady(c)
          /\ mode = "errors" => \A c \in cone : Alone(c).ok
          => /\ result[a] = Alone(a).v
             /\ outcome = "done" /\ mode = "window" =>
                  hits[a] = ConditionalFormatHits(a, Alone(a).v)

\* The functions agree with each other as the laws in the workbook say.
FunctionsAgree ==
    \A a \in DOMAIN result \cap book.laws : result[a] = Bool(TRUE)

================================================================================
