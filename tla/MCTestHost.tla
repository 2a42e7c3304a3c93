----------------------------- MODULE MCTestHost -----------------------------
(***************************************************************************)
(* Instances of TestHost for TLC: commands of scripts like those in        *)
(* spec_tests, with strings and comments where the host has to skip them.  *)
(***************************************************************************)
EXTENDS TestHost

Block(name, inside) == <<"(", name>> \o inside \o <<")">>
Str(inside) == <<"quote">> \o inside \o <<"quote">>
Const(v) == Block(v.type, <<v.val>>)
Spaced(vs) == FlattenSeq([i \in 1 .. Len(vs) |-> <<"blank">> \o Const(vs[i])])
Call(fn, args) == Block("invoke", <<"blank">> \o Str(fn) \o Spaced(args))

One == [type |-> "i32", val |-> ".const 1"]
Two == [type |-> "i64", val |-> ".const 2"]

Command(kind, isPlain, chars) == [kind |-> kind, plain |-> isPlain, text |-> chars]

\* A comment with a parenthesis and a quote in it.
LineComment == <<";", ";", "blank", "(", "quote", "newline">>

Modules ==
    { Command("module", TRUE, Block("module", inside)) :
        inside \in { <<>>, <<"blank">> \o Block("func", Str(<<")", "backslash", "quote">>)),
                     LineComment \o Block(";", <<"(", ";">>) } }

Asserts ==
    { [kind |-> "assert_return", plain |-> TRUE, fn |-> fn, args |-> args, expected |-> v,
       text |-> Block("assert_return",
                      gap \o Call(fn, args) \o gap \o (IF v = None THEN <<>> ELSE Const(v)))] :
        fn \in {<<"f">>, <<"backslash", "quote", "f">>}, args \in {<<>>, <<One>>, <<Two, One>>},
        v \in {None, One, Two}, gap \in {<<"blank">>, LineComment} }

Others ==
    { Command("other", TRUE, LineComment),
      Command("other", TRUE, Call(<<"f">>, <<One>>)),
      Command("other", TRUE, Block("assert_trap", <<"blank">> \o Call(<<"f">>, <<>>) \o Str(<<"(">>))),
      Command("other", TRUE, Block("register", <<"blank">> \o Str(<<"f">>))) }

\* What the text format reads in another way: a semicolon in a comment, a comment between
\* parentheses, a backslash before the closing quote, a blank in a constant, an argument list
\* with a comment.
Odd ==
    { Command("other", FALSE, <<";", ";", "blank", ";", "(", "newline">>),
      Command("other", FALSE, <<"(", ";", "blank", ";", ")">>),
      Command("module", FALSE, Block("module", <<"(", ";", "newline", ";", ")">>)),
      Command("other", FALSE, Call(<<"f", "backslash", "backslash">>, <<>>)),
      Command("other", FALSE, Block("invoke", LineComment)),
      Command("other", FALSE, Block("invoke", Str(<<"f">>) \o <<"(", "i32", ".const 1", "blank", ")">>)),
      Command("other", FALSE, <<")">>) }

ScriptCommands == Modules \cup Asserts \cup Others \cup Odd
=============================================================================
