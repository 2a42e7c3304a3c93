------------------------------ MODULE TestHost ------------------------------
(***************************************************************************)
(* The test host: it reads a wast script one character at a time, finds    *)
(* the commands in it by counting parentheses, and runs each command when  *)
(* its parenthesis closes, the inner ones before the one around them.      *)
(*                                                                         *)
(* The commands share three globals: the instance of the last module, what *)
(* the last invoke returned, and the constant read last.  An assert_return *)
(* compares the last two, so that it checks what it says only if the       *)
(* commands inside it ran, and ran last.                                   *)
(*                                                                         *)
(* Abstractions.  A run of letters, digits and underscores is one          *)
(* character, and so is what follows the type of a constant, `.const 1'    *)
(* say.  What wat2wasm, LoadModule (Loader) and ExternCallFn               *)
(* (JitLifecycle) do is a choice among their results.                      *)
(*                                                                         *)
(* A definition named X_Y is X with a deliberate error: the runs have to   *)
(* notice it.  No other definition uses one.                               *)
(***************************************************************************)
EXTENDS Integers, SequencesExt

CONSTANTS
    Commands,       \* the commands a script may have: records of their characters (text), what
                    \* they mean (kind, fn, args, expected) and whether the host's reading of
                    \* strings and comments is that of the text format (plain)
    MaxCommands     \* bound on the commands of a script

rgszUnsupported == {"assert_trap", "assert_invalid"}
Types == {"i32", "i64"}
Words == rgszUnsupported \cup Types \cup {"module", "invoke", "assert_return", "register", "func", "f"}
Tails == {".const 1", ".const 2"}
Blanks == {"blank", "newline"}

None == [type |-> "none", val |-> "0"]
Variants == {None} \cup [type : Types, val : Tails]
Null == 0

VARIABLES
    n,              \* how many commands of the script were begun
    cmd,            \* the last of them
    pos,            \* how many of its characters were read; 0 when all were
    stackMode, fEscapeLast, fCommentLast, cblock, fNestCmd,
    frames,         \* stackstrCmd and stackoffsetBlockStart
    text,           \* the script since the outermost of them
    spctxtLast,     \* g_spctxtLast: which command's module it is, or Null
    late,           \* the commands whose wat2wasm had not ended after 10 seconds
    call,           \* the last call of CallFunction; its result is g_variantLastExec
    expectedReturn, \* g_variantExpectedReturn
    exit,           \* how the host ended: "running" until it has
    plain,          \* whether all commands so far are plain
    given,          \* the script's last module, as a reader of the script sees it
    asked,          \* its assert_returns so far, likewise
    checked,        \* the comparisons that held
    judged          \* the last of them

reader == <<n, cmd, pos, plain, given, asked>>
parser == <<stackMode, fEscapeLast, fCommentLast, cblock, fNestCmd, frames, text>>
globals == <<spctxtLast, late, call, expectedReturn>>
history == <<checked, judged>>
vars == <<reader, parser, globals, history, exit>>

Init ==
    /\ n = 0 /\ cmd = [kind |-> "none"] /\ pos = 0
    /\ stackMode = <<"Whitespace">> /\ fEscapeLast = FALSE /\ fCommentLast = FALSE
    /\ cblock = 0 /\ fNestCmd = FALSE /\ frames = <<>> /\ text = <<>>
    /\ spctxtLast = Null /\ late = {} /\ expectedReturn = None
    /\ call = [module |-> Null, fn |-> <<>>, args |-> <<>>, result |-> None]
    /\ exit = "running"
    /\ plain = TRUE /\ given = Null /\ asked = 0 /\ checked = 0 /\ judged = [command |-> 0]

-----------------------------------------------------------------------------
(* Reading the script                                                      *)

NextCommand ==
    /\ exit = "running" /\ pos = 0 /\ n < MaxCommands
    /\ cmd' \in Commands
    /\ n' = n + 1 /\ pos' = 1
    /\ plain' = (plain /\ cmd'.plain)
    /\ UNCHANGED <<given, asked, parser, globals, history, exit>>

Reading == exit = "running" /\ pos > 0
Char == cmd.text[pos]

\* A character that is not of a name ends the name, and is then looked at like any other.
Named == Last(stackMode) = "Command" /\ Char \notin Words
Modes == IF Named THEN Front(stackMode) ELSE stackMode
Mode == Last(Modes)
Nest == IF Named THEN Last(frames).name \notin {"module"} \cup rgszUnsupported ELSE fNestCmd

\* The character is read.  The reader of the script counts what a whole command means.
Consume ==
    LET over == pos = Len(cmd.text)
    IN  /\ pos' = IF over THEN 0 ELSE pos + 1
        /\ given' = IF over /\ cmd.kind = "module" THEN n ELSE given
        /\ asked' = IF over /\ cmd.kind = "assert_return" THEN asked + 1 ELSE asked
        /\ text' = IF frames' = <<>> THEN <<>> ELSE Append(text, Char)
        /\ fEscapeLast' = (Char = "backslash")
        /\ fCommentLast' = (Mode = "Whitespace" /\ Char = ";")
        /\ UNCHANGED <<n, cmd, plain>>

Name ==
    /\ Reading /\ Mode = "Command"
    /\ frames' = [frames EXCEPT ![Len(frames)].name = Char]
    /\ Consume
    /\ UNCHANGED <<stackMode, cblock, fNestCmd, globals, history, exit>>

Quote ==
    /\ Reading
    /\ \/ /\ Mode = "Quote"
          /\ stackMode' = IF Char = "quote" /\ ~fEscapeLast THEN Front(Modes) ELSE Modes
       \/ /\ Mode = "Whitespace" /\ Char = "quote"
          /\ stackMode' = Append(Modes, "Quote")
    /\ fNestCmd' = Nest
    /\ UNCHANGED <<cblock, frames>> /\ Consume
    /\ UNCHANGED <<globals, history, exit>>

CommentEnds_AnySemicolon == Char = "newline" \/ Char = ";"
CommentEnds_SemicolonOnly == Char = ";" /\ ~fCommentLast

\* The second semicolon of a comment does not end it, a later one does.
CommentEnds == Char = "newline" \/ (Char = ";" /\ ~fCommentLast)

Comment ==
    /\ Reading
    /\ \/ Mode = "Comment" /\ stackMode' = IF CommentEnds THEN Front(Modes) ELSE Modes
       \/ Mode = "Whitespace" /\ Char = ";" /\ stackMode' = Append(Modes, "Comment")
    /\ fNestCmd' = Nest
    /\ UNCHANGED <<cblock, frames>> /\ Consume
    /\ UNCHANGED <<globals, history, exit>>

Other ==
    /\ Reading /\ Mode = "Whitespace" /\ Char \notin {"quote", ";", "(", ")"}
    /\ stackMode' = Modes /\ fNestCmd' = Nest
    /\ UNCHANGED <<cblock, frames>> /\ Consume
    /\ UNCHANGED <<globals, history, exit>>

\* Inside a module or an unsupported command a parenthesis is only counted.
Open ==
    /\ Reading /\ Mode = "Whitespace" /\ Char = "("
    /\ fNestCmd' = Nest
    /\ IF cblock = 0 \/ Nest
       THEN /\ frames' = Append(frames, [name |-> "", start |-> Len(text) + 1])
            /\ stackMode' = Append(Modes, "Command")
       ELSE UNCHANGED frames /\ stackMode' = Modes
    /\ cblock' = cblock + 1
    /\ Consume
    /\ UNCHANGED <<globals, history, exit>>

Closes == Reading /\ Mode = "Whitespace" /\ Char = ")"
CloseCounted ==
    /\ Closes /\ ~(cblock = 1 \/ Nest)
    /\ cblock' = cblock - 1
    /\ stackMode' = Modes /\ fNestCmd' = Nest
    /\ UNCHANGED frames /\ Consume
    /\ UNCHANGED <<globals, history, exit>>

\* An exception nobody catches, or an access through a null pointer.
Stop(how) ==
    /\ exit' = how
    /\ UNCHANGED <<reader, parser, globals, history>>

-----------------------------------------------------------------------------
(* ProcessCommand                                                          *)

Process(verb) == Closes /\ (cblock = 1 \/ Nest) /\ Last(frames).name = verb
Text == SubSeq(Append(text, ")"), Last(frames).start, Len(text) + 1)

Processed_NestKept ==
    /\ frames' = Front(frames)
    /\ cblock' = cblock - 1
    /\ fNestCmd' = Nest
    /\ stackMode' = Modes
    /\ Consume
    /\ UNCHANGED exit

\* ProcessCommand returned.
Processed ==
    /\ frames' = Front(frames)
    /\ cblock' = cblock - 1
    /\ fNestCmd' = (Nest /\ cblock # 1)
    /\ stackMode' = Modes
    /\ Consume
    /\ UNCHANGED exit

OnException_Kept(id) == id

\* What g_spctxtLast is after LoadModule threw an Exception.
OnException(id) == Null

\* RunProgram waits 10 seconds for wat2wasm, and takes its exit code, or STILL_ACTIVE.  All
\* modules are compiled in the same two files, where a wat2wasm that is late may write at any
\* time.  LoadModule may end in an exception of another type, or with the process.
Module ==
    /\ Process("module")
    /\ UNCHANGED <<call, expectedReturn, history>>
    /\ \/ Processed /\ spctxtLast' = Null /\ UNCHANGED late
       \/ Processed /\ spctxtLast' = Null /\ late' = late \cup {n}
       \/ \E id \in {n} \cup late : Processed /\ spctxtLast' \in {id, OnException(spctxtLast)} /\ UNCHANGED late
       \/ \E how \in {"terminated", "crashed"} : Stop(how)

\* The expression at i, such as (i32.const 1): only before the type may there be a blank.
\* None, if there is none, is an Exception.
FirstNonBlank(t, i) ==
    CHOOSE j \in i .. Len(t) + 1 :
        /\ \A k \in i .. j - 1 : t[k] \in Blanks
        /\ j <= Len(t) => t[j] \notin Blanks
CchEatExpression(t, i) ==
    LET j == FirstNonBlank(t, i + 1)
    IN  [next |-> j + 3,
         value |-> IF /\ t[i] = "(" /\ j + 2 <= Len(t)
                      /\ t[j] \in Types /\ t[j + 1] \in Tails /\ t[j + 2] = ")"
                   THEN [type |-> t[j], val |-> t[j + 1]] ELSE None]

\* The quotes an invoke's text has after i: a backslash takes the meaning of the next one.
Quotes(t, i) == {j \in i .. Len(t) : t[j] = "quote" /\ (j = i \/ t[j - 1] # "backslash")}

\* The arguments in t[i ..], up to the parenthesis.
ArgsFrom(t) ==
    LET args[i \in 1 .. Len(t) + 1] ==
            IF i > Len(t) \/ t[i] = ")" THEN [valid |-> TRUE, args |-> <<>>]
            ELSE IF t[i] \in Blanks THEN args[i + 1]
            ELSE LET e == CchEatExpression(t, i)
                 IN  IF e.value # None THEN [args[e.next] EXCEPT !.args = <<e.value>> \o @]
                     ELSE [valid |-> FALSE, args |-> <<>>]
    IN  args

\* The exports of every module.
Exports == {<<"f">>, <<"backslash", "quote", "f">>}

AfterInvoke_Kept == expectedReturn

\* The constants inside the invoke went through g_variantExpectedReturn as well.
AfterInvoke == None

\* The asserts of ProcessInvoke are not in a release build: without quotes it reads on.
ProcessInvoke ==
    /\ Process("invoke")
    /\ LET open == Min(Quotes(Text, 1))
           close == Min(Quotes(Text, open + 1))
           fn == SubSeq(Text, open + 1, close - 1)
           args == ArgsFrom(Text)[close + 1]
       IN  IF Quotes(Text, 1) = {} \/ Quotes(Text, open + 1) = {} THEN Stop("crashed")
           ELSE IF ~args.valid THEN Stop("terminated")
           ELSE IF spctxtLast = Null THEN Stop("crashed")
           ELSE IF fn \notin Exports THEN Stop("terminated")
           ELSE \/ /\ \E v \in Variants :
                         call' = [module |-> spctxtLast, fn |-> fn, args |-> args.args, result |-> v]
                   /\ expectedReturn' = AfterInvoke
                   /\ Processed
                   /\ UNCHANGED <<spctxtLast, late, history>>
                \/ \E how \in {"terminated", "crashed"} : Stop(how)      \* it traps

AssertReturn ==
    /\ Process("assert_return")
    /\ IF expectedReturn = call.result
       THEN /\ Processed
            /\ checked' = checked + 1
            /\ judged' = [command |-> n, call |-> call, expected |-> expectedReturn]
            /\ UNCHANGED globals
       ELSE Stop("terminated")

Unsupported ==
    /\ \E verb \in rgszUnsupported : Process(verb)
    /\ Processed
    /\ UNCHANGED <<globals, history>>

\* Whatever else it is has to be a constant.
Expected ==
    /\ \E verb \in (Words \cup {""}) \ ({"module", "invoke", "assert_return"} \cup rgszUnsupported) :
           Process(verb)
    /\ LET e == CchEatExpression(Text, 1)
       IN  IF e.value # None
           THEN /\ expectedReturn' = e.value
                /\ Processed
                /\ UNCHANGED <<spctxtLast, late, call, history>>
           ELSE Stop("terminated")

\* The asserts at the end of main hold, or are not in the build.
EndOfFile ==
    /\ exit = "running" /\ pos = 0 /\ n > 0
    /\ exit' \in IF stackMode = <<"Whitespace">> /\ frames = <<>> /\ cblock = 0
                 THEN {"success"} ELSE {"success", "asserted"}
    /\ UNCHANGED <<reader, parser, globals, history>>

Done == exit # "running" /\ UNCHANGED vars

Next ==
    \/ NextCommand \/ Name \/ Quote \/ Comment \/ Other \/ Open \/ CloseCounted
    \/ Module \/ ProcessInvoke \/ AssertReturn \/ Unsupported \/ Expected
    \/ EndOfFile \/ Done

Spec == Init /\ [][Next]_vars

-----------------------------------------------------------------------------
(* Properties                                                              *)

TypeOK ==
    /\ n \in 0 .. MaxCommands /\ pos \in Nat
    /\ stackMode \in Seq({"Whitespace", "Quote", "Comment", "Command"})
    /\ cblock \in Int
    /\ \A i \in 1 .. Len(frames) : frames[i].name \in Words \cup {""} /\ frames[i].start \in 1 .. Len(text)
    /\ spctxtLast \in 0 .. n /\ late \subseteq 1 .. n
    /\ expectedReturn \in Variants /\ call.result \in Variants
    /\ exit \in {"running", "success", "terminated", "crashed", "asserted"}

\* Whatever the script is, plain or not, the reader never looks at the top of an empty stack
\* nor pops one (stackMode, stackstrCmd and stackoffsetBlockStart are std::stacks): parentheses
\* too many, names that end late and the commands inside a module keep cblock, which decides
\* whether a parenthesis closes a command, from running ahead of the commands it counts.
NeverUnderflows ==
    /\ stackMode # <<>>
    /\ Reading =>
          /\ Modes # <<>>
          /\ Last(stackMode) = "Command" => frames # <<>>
          /\ Closes /\ (cblock = 1 \/ Nest) => frames # <<>>

\* Between two commands of a plain script the parser is as it was at its beginning: nothing in
\* a string, a comment, a module or an unsupported command is taken for structure, and no
\* nesting level is lost or kept.
InStep ==
    plain /\ pos = 0 /\ exit = "running" =>
        /\ stackMode = <<"Whitespace">>
        /\ cblock = 0 /\ frames = <<>> /\ text = <<>> /\ ~fNestCmd

\* A comparison that held was between what the invoke inside its assert_return returned and the
\* constant written after it, or none, although the invoke's arguments went through the
\* same variable.
ComparesWhatIsWritten ==
    plain /\ judged.command = n /\ n > 0 =>
        /\ cmd.kind = "assert_return"
        /\ judged.call.fn = cmd.fn /\ judged.call.args = cmd.args
        /\ judged.expected = cmd.expected /\ judged.call.result = cmd.expected

\* No assertion of a plain script is passed over: at each command's end, and when the host
\* reports success, every assert_return read so far was made and held.
NoCheckSkipped ==
    plain /\ pos = 0 /\ exit \in {"running", "success"} => checked = asked

\* Functions run in the module the script gave last, or not at all: a module that did not
\* compile or load leaves none, never the one before it.  Unless a wat2wasm is late.
RunsCurrentModule ==
    plain /\ late = {} =>
        /\ pos = 0 /\ exit = "running" => spctxtLast \in {Null, given}
        /\ judged.command = n /\ n > 0 => judged.call.module = given
=============================================================================
