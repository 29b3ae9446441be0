--------------------------- MODULE TableFunction ---------------------------
(***************************************************************************)
(* The table-reference classifier of duckdbconn.rs (is_table_function),  *)
(* its use by DuckDbConnection::get_schema to choose how the reference is  *)
(* written into the probe statement, and flatten_table_function_name.      *)
(*                                                                         *)
(* A bare table name is a string over a small alphabet: one letter, the   *)
(* parentheses, the single quote, the period, the comma and the space.   *)
(* The DuckDB-dialect tokenizer and Parser::parse_table_factor of the    *)
(* SQL parser are modelled on the part of their grammar this alphabet     *)
(* reaches: words, punctuation, quoted strings with doubled-quote escapes, *)
(* object names, argument lists of expressions, and an optional alias     *)
(* with an optional column list.  parse_table_factor reads one table      *)
(* factor from the front of the tokens and does not look at what follows. *)
(* This module declares RECURSIVE operators and is only model-checked.    *)
(***************************************************************************)
EXTENDS Naturals, Sequences, SequencesExt

CONSTANT MaxLen   \* bound on the length of a table name

ASSUME TableFunctionAssumption == MaxLen \in Nat

Letters == {"a"}
Alphabet == Letters \cup {"(", ")", "'", ".", ",", " "}

(* The kinds of datafusion's TableReference.                               *)
RefKinds == {"Bare", "Partial", "Full"}

Names == BoundedSeq(Alphabet, MaxLen)

-----------------------------------------------------------------------------
(* Tokenizer::tokenize.  A token is "w" (a word), "s" (a single-quoted    *)
(* string) or one of "(", ")", ".", ",".  Whitespace tokens are left out:  *)
(* the parser skips them.                                                  *)

Lexed(toks) == [ok |-> TRUE, toks |-> toks]
LexError == [ok |-> FALSE, toks |-> <<>>]

Prepend(tok, r) == IF r.ok THEN Lexed(<<tok>> \o r.toks) ELSE r

(* The position after the word that starts at i.                           *)
WordEnd(s, i) ==
    CHOOSE j \in i + 1 .. Len(s) + 1 :
        /\ j > Len(s) \/ s[j] \notin Letters
        /\ \A k \in i + 1 .. j - 1 : s[k] \in Letters

(* The position of the quote that closes a string whose text starts at j; *)
(* a doubled quote stands for one quote inside the string; 0 when the    *)
(* string is not terminated.                                               *)
RECURSIVE QuoteEnd(_, _)
QuoteEnd(s, j) ==
    IF j > Len(s) THEN 0
    ELSE IF s[j] # "'" THEN QuoteEnd(s, j + 1)
    ELSE IF j < Len(s) /\ s[j + 1] = "'" THEN QuoteEnd(s, j + 2)
    ELSE j

RECURSIVE Lex(_, _)
Lex(s, i) ==
    IF i > Len(s) THEN Lexed(<<>>)
    ELSE CASE s[i] = " "       -> Lex(s, i + 1)
           [] s[i] \in Letters -> Prepend("w", Lex(s, WordEnd(s, i)))
           [] s[i] = "'"       -> IF QuoteEnd(s, i + 1) = 0 THEN LexError
                                  ELSE Prepend("s", Lex(s, QuoteEnd(s, i + 1) + 1))
           [] OTHER            -> Prepend(s[i], Lex(s, i + 1))

Tokenize(s) == Lex(s, 1)

-----------------------------------------------------------------------------
(* Parser::parse_table_factor.  Each operator takes the tokens t and a    *)
(* position i and gives the position after what it parsed, or 0 when the  *)
(* parser returns an error.                                                *)

At(t, i, tok) == i <= Len(t) /\ t[i] = tok

(* parse_object_name: a word, then any number of "." word.                *)
RECURSIVE ObjectNameEnd(_, _)
ObjectNameEnd(t, i) ==
    IF ~At(t, i, "w") THEN 0
    ELSE IF At(t, i + 1, ".") THEN ObjectNameEnd(t, i + 2)
    ELSE i + 1

(* parse_expr on what the alphabet reaches: a string literal, a (compound) *)
(* identifier, a function call, a parenthesised expression.  ArgsEnd      *)
(* starts after "(" and parses ")" or a comma-separated list and ")".      *)
RECURSIVE ExprEnd(_, _), ArgsEnd(_, _), ArgListEnd(_, _)
ExprEnd(t, i) ==
    CASE At(t, i, "s") -> i + 1
      [] At(t, i, "w") -> LET j == ObjectNameEnd(t, i) IN
                            IF j # 0 /\ At(t, j, "(") THEN ArgsEnd(t, j + 1) ELSE j
      [] At(t, i, "(") -> LET j == ExprEnd(t, i + 1) IN
                            IF j # 0 /\ At(t, j, ")") THEN j + 1 ELSE 0
      [] OTHER         -> 0

ArgsEnd(t, i) == IF At(t, i, ")") THEN i + 1 ELSE ArgListEnd(t, i)

ArgListEnd(t, i) ==
    LET j == ExprEnd(t, i) IN
        CASE j # 0 /\ At(t, j, ")") -> j + 1
          [] j # 0 /\ At(t, j, ",") -> ArgListEnd(t, j + 1)
          [] OTHER                  -> 0

(* parse_parenthesized_column_list after "(": words separated by ",".     *)
RECURSIVE ColumnListEnd(_, _)
ColumnListEnd(t, i) ==
    CASE At(t, i, "w") /\ At(t, i + 1, ")") -> i + 2
      [] At(t, i, "w") /\ At(t, i + 1, ",") -> ColumnListEnd(t, i + 2)
      [] OTHER                              -> 0

(* parse_optional_table_alias: an optional word and an optional column   *)
(* list after it.                                                          *)
AliasEnd(t, i) ==
    CASE At(t, i, "w") /\ At(t, i + 1, "(") -> ColumnListEnd(t, i + 2)
      [] At(t, i, "w")                      -> i + 1
      [] OTHER                              -> i

(* What parse_table_factor returns: an error, a factor that is not       *)
(* TableFactor::Table (a derived table or nested join, which starts with  *)
(* "("), or a Table with or without an argument list.                      *)
ParseTableFactor(t) ==
    IF At(t, 1, "(") THEN [ok |-> TRUE, table |-> FALSE, args |-> FALSE]
    ELSE LET n == ObjectNameEnd(t, 1)
             a == IF n # 0 /\ At(t, n, "(") THEN ArgsEnd(t, n + 1) ELSE n
         IN IF a = 0 \/ AliasEnd(t, a) = 0
            THEN [ok |-> FALSE, table |-> FALSE, args |-> FALSE]
            ELSE [ok |-> TRUE, table |-> TRUE, args |-> At(t, n, "(")]

(* Mutant: the match on the reference kind is left out and the table part *)
(* of a qualified reference is classified as well.                         *)
IsTableFunctionAnyRef(ref) ==
    /\ Tokenize(ref.table).ok
    /\ ParseTableFactor(Tokenize(ref.table).toks).ok
    /\ ParseTableFactor(Tokenize(ref.table).toks).table
    /\ ParseTableFactor(Tokenize(ref.table).toks).args

(* is_table_function: qualified references are plain tables; a bare name *)
(* is a function call when it tokenizes, parses as a table factor, and   *)
(* the factor is a Table carrying an argument list.                        *)
IsTableFunction(ref) ==
    /\ ref.kind = "Bare"
    /\ Tokenize(ref.table).ok
    /\ ParseTableFactor(Tokenize(ref.table).toks).ok
    /\ ParseTableFactor(Tokenize(ref.table).toks).table
    /\ ParseTableFactor(Tokenize(ref.table).toks).args

(* flatten_table_function_name: keep the alphanumeric characters and "(", *)
(* write "(" as "_", and append "__view".                                  *)
ViewSuffix == <<"_", "_", "v", "i", "e", "w">>

FlattenKept(c) == c \in Letters \/ c = "("

FlattenTableFunctionName(ref) ==
    LET f == SelectSeq(ref.table, FlattenKept)
    IN [i \in 1 .. Len(f) |-> IF f[i] = "(" THEN "_" ELSE f[i]] \o ViewSuffix

(* TableReference::to_quoted_string: the name between double quotes (the  *)
(* alphabet has no double quote to escape).  The qualifier of a Partial  *)
(* or Full reference is left out: it is always quoted.                     *)
QuotedString(ref) == <<"\"">> \o ref.table \o <<"\"">>

-----------------------------------------------------------------------------
VARIABLES
    ref,       \* the TableReference get_schema is called with
    returned,  \* get_schema has built its probe statement
    tableStr   \* how the reference is written into SELECT * FROM _ LIMIT 0

vars == <<ref, returned, tableStr>>

References == [kind : RefKinds, table : Names]

NoTableStr == [raw |-> FALSE, text |-> <<>>]

Init ==
    /\ ref \in References
    /\ returned = FALSE
    /\ tableStr = NoTableStr

(* get_schema: a table function is written as it is (to_string), any     *)
(* other reference as a quoted identifier (to_quoted_string).              *)
GetSchemaTableStr ==
    /\ ~returned
    /\ returned' = TRUE
    /\ tableStr' = IF IsTableFunction(ref)
                   THEN [raw |-> TRUE, text |-> ref.table]
                   ELSE [raw |-> FALSE, text |-> QuotedString(ref)]
    /\ UNCHANGED ref

Returned ==
    /\ returned
    /\ UNCHANGED vars

Next == GetSchemaTableStr \/ Returned

Spec == Init /\ [][Next]_vars

-----------------------------------------------------------------------------
(* Properties.                                                             *)

(* Reference grammar, on characters: a plain name is words joined by     *)
(* single periods; a call is a plain name, "(", an optional comma-        *)
(* separated list of plain names and quoted words, and ")".                *)
IsIdent(s) == Len(s) > 0 /\ \A k \in 1 .. Len(s) : s[k] \in Letters

RECURSIVE IsPlainName(_)
IsPlainName(s) ==
    \/ IsIdent(s)
    \/ \E k \in 2 .. Len(s) - 1 :
          /\ s[k] = "."
          /\ IsIdent(SubSeq(s, 1, k - 1))
          /\ IsPlainName(SubSeq(s, k + 1, Len(s)))

IsQuoted(s) ==
    /\ Len(s) >= 2 /\ s[1] = "'" /\ s[Len(s)] = "'"
    /\ \A k \in 2 .. Len(s) - 1 : s[k] \in Letters

RECURSIVE IsArgList(_)
IsArgList(s) ==
    \/ IsPlainName(s) \/ IsQuoted(s)
    \/ \E k \in 1 .. Len(s) :
          /\ s[k] = ","
          /\ IsPlainName(SubSeq(s, 1, k - 1)) \/ IsQuoted(SubSeq(s, 1, k - 1))
          /\ IsArgList(SubSeq(s, k + 1, Len(s)))

IsCallText(s) ==
    \E k \in 2 .. Len(s) :
        /\ s[k] = "(" /\ s[Len(s)] = ")"
        /\ IsPlainName(SubSeq(s, 1, k - 1))
        /\ k = Len(s) - 1 \/ IsArgList(SubSeq(s, k + 1, Len(s) - 1))

(* get_schema writes a bare function call such as read_parquet('f') or   *)
(* t() unquoted and a plain or qualified name quoted, as the unit test   *)
(* test_is_table_function and design sections 4.1 and 8 say.  It is about *)
(* the tokenizer, parse_table_factor and the Bare/Partial/Full match of   *)
(* is_table_function.                                                      *)
ClassifiesWellFormed ==
    returned =>
        /\ ref.kind # "Bare" => ~tableStr.raw
        /\ IsPlainName(ref.table) => ~tableStr.raw
        /\ (ref.kind = "Bare" /\ IsCallText(ref.table)) => tableStr.raw

(* Text get_schema splices unquoted into its probe statement is one whole  *)
(* table factor: design section 8 says malformed syntax is classified as *)
(* a plain table.  It is about parse_table_factor not checking that it   *)
(* consumed every token.                                                   *)
MalformedIsPlain ==
    (returned /\ tableStr.raw) =>
        LET t == Tokenize(tableStr.text).toks
            n == ObjectNameEnd(t, 1)
        IN AliasEnd(t, ArgsEnd(t, n + 1)) = Len(t) + 1

=============================================================================
