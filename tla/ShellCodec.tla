------------------------------ MODULE ShellCodec ------------------------------
(***************************************************************************)
(* The text a packet is: Printer of shells/LogFunctions.h and Parser of    *)
(* shells/LogStructures.h. A text is a sequence of tokens: the delimiters, *)
(* the words, and numbers, hashes and signatures as one token each. Tokens *)
(* are tuples, so that any two can be compared.                            *)
(*                                                                         *)
(* A content is a record of texts. The timestamps are left out; no handler *)
(* reads them.                                                             *)
(***************************************************************************)
EXTENDS Integers, SequencesExt

Bar == <<"|">>
Eq == <<"=">>
Open == <<"(">>
Close == <<")">>

N_SHELL == <<<<"nShell">>, Eq, Open>>
L_SHELL == <<<<"lShell">>, Eq, Open>>
C_SHELL == <<<<"cShell">>, Eq, Open>>

-----------------------------------------------------------------------------
(* Printer *)

Field(name, value) == <<<<name>>, Eq>> \o value

PrintContent(content) ==
    C_SHELL \o Field("function", content.function)
            \o <<Bar>> \o Field("params", content.params)
            \o <<Bar>> \o Field("msg", content.contMessage) \o <<Close>>

\* The entry holds its content as the text it is printed to.
PrintLog(entry) ==
    L_SHELL \o Field("author", <<<<entry.authorId>>>>)
            \o <<Bar>> \o Field("seq", <<<<"int", entry.sequenceNum>>>>)
            \o <<Bar>> \o Field("prevHash", IF entry.prevEventHash = <<>> THEN <<>>
                                            ELSE <<<<"sha1", entry.prevEventHash>>>>)
            \o <<Bar>> \o Field("signature", IF entry.signature = <<>> THEN <<>>
                                             ELSE <<<<"double", entry.signature>>>>)
            \o <<Bar>> \o entry.shell \o <<Close>>

PrintNet(packet) ==
    N_SHELL \o Field("log_type", <<<<packet.type>>>>)
            \o <<Bar>> \o Field("flag", <<<<"int", packet.flag>>>>)
            \o <<Bar>> \o PrintLog(packet.shell) \o <<Close>>

-----------------------------------------------------------------------------
(* Parser *)

Positions(text, token) == {i \in 1..Len(text) : text[i] = token}

\* varSplitter: what is between the last two delimiters, and after the last.
varSplitter(text) ==
    LET last == Max({0} \cup Positions(text, Eq))
        previous == Max({0} \cup {i \in Positions(text, Eq) : i < last})
    IN  <<SubSeq(text, previous + 1, last - 1), SubSeq(text, last + 1, Len(text))>>

\* The part of text from after position i to the next bar.
Part(text, i) ==
    SubSeq(text, i + 1, Min({j \in {Len(text) + 1} \cup Positions(text, Bar) : j > i}) - 1)

\* shellSplit and operator[] of its map: of several parts with one name the
\* first is kept; a name that is missing reads as "".
Value(text, name) ==
    LET named == {i \in {0} \cup Positions(text, Bar) :
                     varSplitter(Part(text, i))[1] = <<<<name>>>>}
    IN  IF named = {} THEN <<>> ELSE varSplitter(Part(text, Min(named)))[2]

\* Mutant: rfind.
MutStart(text, opening) ==
    Max({i \in 1..Len(text) : IsPrefix(opening, SubSeq(text, i, Len(text)))})

\* string::find of a shell's opening.
Start(text, opening) ==
    Min({i \in 1..Len(text) : IsPrefix(opening, SubSeq(text, i, Len(text)))})

\* Mutant: up to the first closing parenthesis.
MutInner(text, opening) ==
    SubSeq(text, Start(text, opening) + Len(opening),
           Min({Len(text) + 1} \cup Positions(text, Close)) - 1)

\* What a shell holds: up to the last closing parenthesis.
Inner(text, opening) ==
    SubSeq(text, Start(text, opening) + Len(opening), Max(Positions(text, Close)) - 1)

\* erase: the parameters before the inner shell.
Outer(text, opening) == SubSeq(text, 1, Start(text, opening) - 1)

ParseContent(text) ==
    [function |-> Value(text, "function"), params |-> Value(text, "params"),
     contMessage |-> Value(text, "msg")]

\* Read back: a word, and what a token of another kind stands for; "" is the
\* empty hash and signature.
Word(text) == IF text = <<>> THEN "" ELSE text[1][1]
Token(text) == IF text = <<>> THEN <<>> ELSE text[1][2]

\* helpFunction: the entry's content is parsed, and printed again when it is
\* hashed or sent on.
helpFunction(text) ==
    LET net == Inner(text, N_SHELL)
        log == Inner(net, L_SHELL)
        logParams == Outer(log, C_SHELL)
        netParams == Outer(net, L_SHELL)
    IN  [type |-> Word(Value(netParams, "log_type")),
         flag |-> Token(Value(netParams, "flag")),
         shell |-> [authorId |-> Word(Value(logParams, "author")),
                    sequenceNum |-> Token(Value(logParams, "seq")),
                    prevEventHash |-> Token(Value(logParams, "prevHash")),
                    signature |-> Token(Value(logParams, "signature")),
                    shell |-> PrintContent(ParseContent(Inner(log, C_SHELL)))]]
=============================================================================
