----------------------------- MODULE MCPrintedLog -----------------------------
(* A small set of contents for PrintedLog. *)
EXTENDS PrintedLog

Data == <<"Important data">>
Id == <<"user:39">>

\* What pushLogToSwitch passes, with the count in parentheses; single tokens
\* and pairs with a delimiter or a parenthesis among them; what looks like a
\* field or a shell.
Messages ==
    {<<>>, <<Data, Open, <<"int", 1>>, Close>>, <<<<"msg">>>>,
     <<Bar>> \o Field("msg", <<Data>>), Field("params", <<Data>>), C_SHELL,
     <<Close>> \o L_SHELL \o C_SHELL}
        \cup {<<x, y>> : x \in {Data, Bar, Eq, Close}, y \in {Data, Bar, Eq, Open}}

\* An argument is empty or an id, here also with a delimiter.
MCContents ==
    [function : {<<<<"pushContent">>>>}, params : {<<>>, <<Id, Eq>>},
     contMessage : Messages]
=============================================================================
