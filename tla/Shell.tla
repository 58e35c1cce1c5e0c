------------------------------- MODULE Shell -------------------------------
(***************************************************************************)
(* 2/solution: the shell.  One pass of shell_loop() reads a line           *)
(* (read_line), splits it into tokens (parse_line), groups the tokens into *)
(* commands (parse_cmds), runs these one after another (exec_cmds) and     *)
(* frees what it has allocated.                                            *)
(*                                                                         *)
(* A character is a member of a small set of classes: letters, of which    *)
(* "x" is all of the word `exit` and "c" all of `cd`, "sp" (a blank), "dq" *)
(* and "sq" (the quotes), "bs" (the backslash), "nl", "#", "|", ">", "&".  *)
(*                                                                         *)
(* The user has words and operators in mind, picks a spelling for each,    *)
(* and types them; the shell knows only the characters.                    *)
(***************************************************************************)
EXTENDS Integers, Sequences, FiniteSets, SequencesExt

CONSTANTS Plain,        \* words of letters, typed without quotes
          Quoted,       \* words that need quotes or backslashes
          Ops,          \* the operators the user types
          AnyQuotes,    \* whether "dq" may be part of a word without care
          MaxItems      \* bound on the words and operators of a line

OpChars == {"|", ">", "&"}
Separators == {<<"|">>, <<"|", "|">>, <<"&", "&">>, <<"&">>}
Redirects == {<<">">>, <<">", ">">>}

ASSUME ShellAssumption ==
    /\ \A w \in Plain : w # <<>> /\ ToSet(w) \subseteq {"a", "n", "x", "c"}
    /\ Ops \subseteq Separators \cup Redirects
    /\ Quoted \cap (Separators \cup Redirects) = {}
    /\ AnyQuotes \in BOOLEAN
    /\ MaxItems \in Nat

VARIABLES
    input,      \* characters typed and not yet read
    eof,        \* whether the user has closed the input
    meant,      \* the words and operators the user has in mind, since the prompt
    last,       \* how the last of them was spelled
    entered,    \* how often Enter was typed since the prompt
    quote, prev, line,  \* read_line(): double_quote, prev and raw_line
    tokens,     \* what parse_line() returns
    cmds, i, status,    \* exec_cmds(): comms, its index, and the result
    child,      \* the child process
    live,       \* how many blocks are allocated
    pc

user == <<input, eof, meant, last, entered>>
reader == <<quote, prev, line>>
runner == <<tokens, cmds, i, status, child, live>>
vars == <<user, reader, runner, pc>>

Init ==
    /\ input = <<>> /\ eof = FALSE /\ meant = <<>> /\ last = "none" /\ entered = 0
    /\ quote = FALSE /\ prev = "s" /\ line = <<>>
    /\ tokens = <<>> /\ cmds = <<>> /\ i = 1 /\ status = 0
    /\ child = "none"
    /\ live = 0
    /\ pc = "prompt"

-----------------------------------------------------------------------------
(* The user.  A spelling of a word is a sequence of characters; `glue` is  *)
(* put between the spelled characters of the word.                         *)

Continued == <<"bs", "nl">>
Spell(w, Char(_), glue) ==
    LET upto[k \in 0..Len(w)] ==
            CASE k = 0 -> <<>>
              [] k = 1 -> Char(w[1])
              [] OTHER -> upto[k - 1] \o glue \o Char(w[k])
    IN  upto[Len(w)]

Itself(c) == <<c>>
Escaped(c) == <<"bs", c>>
InDouble(c) == IF c \in {"dq", "bs"} THEN <<"bs", c>> ELSE <<c>>

(* Ways to spell a word: bare letters, single quotes, double quotes with   *)
(* escapes inside, backslashes, and a line continued inside a word.        *)
Spellings ==
    {[kind |-> "plain", text |-> w, chars |-> Spell(w, Itself, glue)] :
        w \in Plain, glue \in {<<>>, Continued}}
    \cup {[kind |-> "escaped", text |-> w, chars |-> Spell(w, Escaped, <<>>)] :
        w \in {u \in Quoted : /\ u # <<>> /\ Last(u) # "bs"
                              /\ ToSet(u) \cap (OpChars \cup {"nl"}) = {}}}
    \cup {[kind |-> "quoted", text |-> w, chars |-> <<"sq">> \o w \o <<"sq">>] :
        w \in {u \in Quoted : ToSet(u) \cap {"sq", "nl"} = {}}}
    \cup {[kind |-> "quoted", text |-> w,
           chars |-> <<"dq">> \o Spell(w, InDouble, glue) \o <<"dq">>] :
        w \in Quoted, glue \in {<<>>, Continued}}
    \cup {[kind |-> "op", text |-> o, chars |-> o] : o \in Ops}

(* read_line() takes every "dq" for a quotation mark.  With care, the ones *)
(* that are not come in pairs, and not in an item with a newline.          *)
Careful(item) ==
    /\ Len(SelectSeq(item.chars, LAMBDA c : c = "dq")) % 2 = 0
    /\ Contains(item.chars, "nl") => ~Contains(item.text, "dq")
Items == {item \in Spellings : AnyQuotes \/ Careful(item)}

(* What may stand before an item: a blank always, nothing beside an        *)
(* operator, and the end of a line that is continued.  Two documented gaps *)
(* are left out, which the code does not read as documented: no blank      *)
(* between an unquoted word and an operator (task_eng.txt:48; the operator *)
(* becomes a part of the word), and a continuation after a quoted word     *)
(* (tests.txt:85; the operator after it is lost).                          *)
Gaps(item) ==
    {<<"sp">>}
    \cup (IF \/ last = "none"
             \/ last = "op" /\ item.kind # "op"
             \/ last = "quoted" /\ item.kind = "op" THEN {<<>>} ELSE {})
    \cup (IF \/ last \in {"plain", "escaped"} /\ item.kind = "op"
             \/ last = "op" /\ item.kind = "plain" THEN {Continued} ELSE {})

(* The operator that still needs its right side.                           *)
Open == last = "op" /\ Last(meant) # <<"&">>

(* getc() waits for the user.                                              *)
Waiting == pc = "read" /\ input = <<>> /\ ~eof

Type(item, gap) ==
    /\ Waiting
    /\ Len(meant) < MaxItems
    /\ item.kind = "op" => last \notin {"none", "op"}
    /\ gap \in Gaps(item)
    /\ input' = gap \o item.chars
    /\ meant' = Append(meant, item.text)
    /\ last' = item.kind
    /\ UNCHANGED <<eof, entered, reader, runner, pc>>

(* Enter, after a comment or not.                                          *)
Enter(comment) ==
    /\ Waiting
    /\ ~Open
    /\ entered < 2
    /\ input' = comment \o <<"nl">>
    /\ comment # <<>> => Len(meant) < MaxItems
    /\ entered' = entered + 1
    /\ last' = "none"
    /\ UNCHANGED <<eof, meant, reader, runner, pc>>

CloseInput ==
    /\ Waiting
    /\ eof' = TRUE
    /\ UNCHANGED <<input, meant, last, entered, reader, runner, pc>>

-----------------------------------------------------------------------------
(* read_line().                                                            *)

shell_prompt ==
    /\ pc = "prompt"
    /\ pc' = "read"
    /\ quote' = FALSE /\ prev' = "s" /\ line' = <<>>
    /\ live' = live + 1                     \* raw_line
    /\ meant' = <<>> /\ last' = "none" /\ entered' = 0
    /\ UNCHANGED <<input, eof, tokens, cmds, i, status, child>>

Keep(c) == line' = Append(line, c) /\ prev' = c /\ UNCHANGED pc

(* Mutant: a line ends at any newline.                                     *)
read_line_unquoted ==
    /\ pc = "read"
    /\ input # <<>>
    /\ input' = Tail(input)
    /\ LET next == Head(input) IN
       \/ next = "nl" /\ pc' = "parse" /\ UNCHANGED reader
       \/ next # "nl" /\ Keep(next) /\ UNCHANGED quote
    /\ UNCHANGED <<eof, meant, last, entered, runner>>

(* Every "dq" opens or closes a quotation, whatever surrounds it; outside  *)
(* of these a newline after a backslash is left out, and any other ends    *)
(* the line.                                                               *)
read_line ==
    /\ pc = "read"
    /\ input # <<>>
    /\ input' = Tail(input)
    /\ LET next == Head(input) IN
       \/ next = "dq" /\ quote' = ~quote /\ Keep(next)
       \/ /\ next = "nl" /\ ~quote /\ prev = "bs"
          /\ prev' = "s"
          /\ UNCHANGED <<quote, line, pc>>
       \/ next = "nl" /\ ~quote /\ prev # "bs" /\ pc' = "parse" /\ UNCHANGED reader
       \/ next # "dq" /\ (next = "nl" => quote) /\ Keep(next) /\ UNCHANGED quote
    /\ UNCHANGED <<eof, meant, last, entered, runner>>

(* The end of the input ends the line, and the next one, and so on.        *)
read_eof ==
    /\ pc = "read"
    /\ input = <<>> /\ eof
    /\ pc' = "parse"
    /\ UNCHANGED <<user, reader, runner>>

-----------------------------------------------------------------------------
(* parse_line(): an automaton over the characters of the line.  `word` is  *)
(* wstack, `mode` the position in the code together with single_quote,     *)
(* double_quote and the stack of escapes.                                  *)

Between0 == [mode |-> "between", word |-> <<>>, tokens |-> <<>>]
(* cs_push(); and a token: cs_reverse(), cs_splice() and cs_free(), which   *)
(* leave the word stack empty.                                              *)
Goto(s, m) == [s EXCEPT !.mode = m]
Push(s, w, m) == [s EXCEPT !.word = @ \o w, !.mode = m]
Emit(s) == [mode |-> "between", word |-> <<>>, tokens |-> Append(s.tokens, s.word)]

(* Lines 285-373: an unquoted word goes on to the next blank.  Quotes in   *)
(* it are left out, operators are characters like others.                  *)
Word(s, c) ==
    CASE c = "sp" -> Emit(s)
      [] c = "bs" -> Goto(s, "word escape")
      [] c \in {"dq", "sq"} -> Goto(s, "word")
      [] OTHER -> Push(s, <<c>>, "word")

(* Lines 56-185, outside of a token.                                       *)
Between(s, c) ==
    CASE c = "sp" -> s
      [] c = "#" -> Goto(s, "comment")
      [] c \in OpChars -> Push(s, <<c>>, "operator")
      [] c = "sq" -> Goto(s, "single")
      [] c = "dq" -> Goto(s, "double")
      [] OTHER -> Word(s, c)

(* The second character of || and its like.                                *)
Operator(s, c) ==
    IF <<c>> = s.word THEN Emit(Push(s, <<c>>, "operator")) ELSE Between(Emit(s), c)

(* Lines 287-358.  An escaped operator ends the word before it; at the     *)
(* beginning of a word it is dropped and the next character is taken for   *)
(* its second one.                                                         *)
WordEscape(s, c) ==
    CASE c \in OpChars /\ s.word # <<>> -> Between(Emit(s), c)
      [] c \in OpChars /\ s.word = <<>> -> Goto(s, "escaped " \o c)
      [] c = "nl" -> Goto(s, "word")
      [] OTHER -> Push(s, <<c>>, "word")

EscapedOperator(s, c) ==
    Emit(Push(s, IF s.mode = "escaped " \o c THEN <<c, c>> ELSE <<c>>, "word"))

(* Lines 222-272: after a backslash in double quotes.  "n" stands for      *)
(* `t` and `r` as well.                                                    *)
DoubleEscape(s, c) ==
    CASE c = "nl" -> Goto(s, "double")
      [] c \in {"bs", "dq"} -> Push(s, <<c>>, "double")
      [] c = "n" -> Push(s, <<"nl">>, "double")
      [] OTHER -> Push(s, <<"bs", c>>, "double")

Lex(s, c) ==
    CASE s.mode = "between" -> Between(s, c)
      [] s.mode = "comment" -> s
      [] s.mode = "operator" -> Operator(s, c)
      [] s.mode = "single" -> IF c = "sq" THEN Emit(s) ELSE Push(s, <<c>>, "single")
      [] s.mode = "double" -> IF c = "dq" THEN Emit(s)
                              ELSE IF c = "bs" THEN Goto(s, "double escape")
                              ELSE Push(s, <<c>>, "double")
      [] s.mode = "double escape" -> DoubleEscape(s, c)
      [] s.mode = "word" -> Word(s, c)
      [] s.mode = "word escape" -> WordEscape(s, c)
      [] OTHER -> EscapedOperator(s, c)

(* lexed[k] has the automaton's state after k characters as its element.   *)
(* The end of the line ends a word; what is in open quotes is thrown away. *)
Tokens(text) ==
    LET lexed[k \in 0..Len(text)] ==
            IF k = 0 THEN {Between0} ELSE {Lex(s, text[k]) : s \in lexed[k - 1]}
        end == CHOOSE s \in lexed[Len(text)] : TRUE
        open == {"between", "comment", "single", "double", "double escape"}
    IN  IF end.mode \in open THEN end.tokens ELSE Emit(end).tokens

(* The tokens, the array of them and the pair are allocated; the stacks    *)
(* are freed.  The line and the locals of read_line() are of no more use.  *)
parse_line ==
    /\ pc = "parse"
    /\ pc' = "commands"
    /\ tokens' = Tokens(line)
    /\ live' = live + 1 + Len(tokens') + (IF tokens' = <<>> THEN 0 ELSE 1)
    /\ quote' = FALSE /\ prev' = "s" /\ line' = <<>>
    /\ UNCHANGED <<user, cmds, i, status, child>>

-----------------------------------------------------------------------------
(* parse_cmds().  `temp` is the command being built, `size` the room in    *)
(* the array of commands, `blocks` what has been allocated, `named`        *)
(* whether the next token is an argument, and not a name.                  *)

cmd_init(token, special) == [name |-> token, argv |-> <<>>, special |-> special]

Save(p, command, room) ==
    [p EXCEPT !.cmds = Append(@, p.temp), !.temp = command, !.size = @ + room,
              !.blocks = @ + 2]

AddArgument(p, token) ==
    [p EXCEPT !.temp.argv = Append(@, token),
              !.blocks = @ + (IF p.temp.argv = <<>> THEN 2 ELSE 1)]

(* Mutant: the command after an operator is not started.                   *)
AddToken_joined(p, token) ==
    CASE token \in Redirects -> Save(p, cmd_init(token, TRUE), 1)
      [] token \in Separators -> Save(p, cmd_init(token, TRUE), 2)
      [] OTHER -> AddArgument(p, token)

(* The token after a separator starts a command, even if it is an operator.*)
AddToken(p, token) ==
    CASE ~p.named ->
           [Save(p, cmd_init(token, FALSE), 0) EXCEPT !.named = TRUE]
      [] p.named /\ token \in Redirects ->
           Save(p, cmd_init(token, TRUE), 1)
      [] p.named /\ token \in Separators ->
           [Save(p, cmd_init(token, TRUE), 2) EXCEPT !.named = FALSE]
      [] OTHER -> AddArgument(p, token)

Commands(args) ==
    LET start == [cmds |-> <<>>, temp |-> cmd_init(Head(args), FALSE), size |-> 1,
                  blocks |-> 4, named |-> TRUE]
        parsed[k \in 1..Len(args)] ==
            IF k = 1 THEN start ELSE AddToken(parsed[k - 1], args[k])
        p == parsed[Len(args)]
    IN  [cmds |-> Append(p.cmds, p.temp), size |-> p.size, blocks |-> p.blocks]

(* Without tokens there is nothing to run.                                 *)
parse_cmds ==
    /\ pc = "commands"
    /\ pc' = "exec"
    /\ i' = 1
    /\ status' = 0
    /\ \/ tokens = <<>> /\ UNCHANGED <<cmds, live>>
       \/ /\ tokens # <<>>
          /\ LET p == Commands(tokens) IN
             /\ cmds' = p.cmds
             /\ live' = live + p.blocks
    /\ UNCHANGED <<user, reader, tokens, child>>

-----------------------------------------------------------------------------
(* exec_cmds().                                                            *)

At(names) == pc = "exec" /\ child = "none" /\ i <= Len(cmds) /\ cmds[i].name \in names
cd == <<"c">>
exit == <<"x">>

(* cd, with chdir() failing or not; without an argument it reads argv[0]   *)
(* of a NULL array.                                                        *)
exec_cd ==
    /\ At({cd})
    /\ IF cmds[i].argv = <<>>
       THEN pc' = "crashed" /\ UNCHANGED i
       ELSE i' = i + 1 /\ UNCHANGED pc
    /\ UNCHANGED <<user, reader, tokens, cmds, status, child, live>>

(* exit, wherever it stands in the line.                                   *)
exec_exit ==
    /\ At({exit})
    /\ status' = 1
    /\ pc' = "free"
    /\ UNCHANGED <<user, reader, tokens, cmds, i, child, live>>

exec_fork ==
    /\ pc = "exec" /\ child = "none" /\ i <= Len(cmds)
    /\ cmds[i].name \notin {cd, exit}
    /\ \/ child' = "copy" /\ UNCHANGED pc
       \/ pc' = "failed" /\ UNCHANGED child         \* exit(EXIT_FAILURE)
    /\ UNCHANGED <<user, reader, tokens, cmds, i, status, live>>

(* Mutant: without exit() after it, a failed execvp() makes the child      *)
(* another shell, which waits for input.                                   *)
child_execvp_returns ==
    /\ child = "copy"
    /\ child' \in {"running", "shell"}
    /\ UNCHANGED <<user, reader, tokens, cmds, i, status, live, pc>>

(* The child becomes the program, or fails to and exits.                   *)
child_execvp ==
    /\ child = "copy"
    /\ child' \in {"running", "ended"}
    /\ UNCHANGED <<user, reader, tokens, cmds, i, status, live, pc>>

child_ends ==
    /\ child = "running"
    /\ child' = "ended"
    /\ UNCHANGED <<user, reader, tokens, cmds, i, status, live, pc>>

exec_waitpid ==
    /\ pc = "exec" /\ child = "ended"
    /\ child' = "none"
    /\ i' = i + 1
    /\ UNCHANGED <<user, reader, tokens, cmds, status, live, pc>>

exec_done ==
    /\ pc = "exec" /\ child = "none" /\ i > Len(cmds)
    /\ pc' = "free"
    /\ UNCHANGED <<user, reader, runner>>

-----------------------------------------------------------------------------
(* The end of shell_loop().                                                *)

(* cmd_free(): the name, the arguments with their array, and the command.  *)
Freed(command) ==
    2 + Len(command.argv) + (IF command.argv = <<>> THEN 0 ELSE 1)
FreedFrom[k \in Nat] ==
    IF k > Len(cmds) THEN 0 ELSE Freed(cmds[k]) + FreedFrom[k + 1]

(* Mutant: the array of tokens is freed, and not the tokens.               *)
shell_free_shallow ==
    /\ pc = "free"
    /\ live' = live - FreedFrom[1]
                    - (IF tokens = <<>> THEN 0 ELSE 3)
                    - 2
    /\ tokens' = <<>> /\ cmds' = <<>> /\ i' = 1
    /\ pc' = IF status = 0 THEN "prompt" ELSE "exited"
    /\ UNCHANGED <<user, reader, status, child>>

(* The commands, and their array and pair unless they are NULL; raw_input; *)
(* the tokens, their array unless it is NULL, and their pair.              *)
shell_free ==
    /\ pc = "free"
    /\ live' = live - FreedFrom[1]
                    - (IF cmds = <<>> THEN 0 ELSE 2)
                    - 1
                    - Len(tokens) - (IF tokens = <<>> THEN 0 ELSE 1) - 1
    /\ tokens' = <<>> /\ cmds' = <<>> /\ i' = 1
    /\ pc' = IF status = 0 THEN "prompt" ELSE "exited"
    /\ UNCHANGED <<user, reader, status, child>>

Shell ==
    \/ shell_prompt
    \/ read_line
    \/ read_eof
    \/ parse_line
    \/ parse_cmds
    \/ exec_cd
    \/ exec_exit
    \/ exec_fork
    \/ exec_waitpid
    \/ exec_done
    \/ shell_free

Child == child_execvp \/ child_ends

Comments == {<<>>, <<"sp", "#", "a">>}
User ==
    \/ \E item \in Items : \E gap \in Gaps(item) : Type(item, gap)
    \/ \E comment \in Comments : Enter(comment)
    \/ CloseInput

Next == Shell \/ Child \/ User

(* The shell and its children run; nothing is expected of the user.        *)
Spec == Init /\ [][Next]_vars /\ WF_vars(Shell) /\ WF_vars(Child)

-----------------------------------------------------------------------------
(* A line is complete for read_line() exactly when the user has finished   *)
(* it with Enter: not earlier, at a newline that is quoted or continued,   *)
(* and not later, with the line that follows.                              *)
LineAsTyped == pc = "parse" /\ ~eof => entered = 1 /\ input = <<>>

Whole == entered = 1 /\ ~eof

(* The tokens of parse_line() are the words and operators the user has in  *)
(* mind: across the two functions that share them, quoting, escapes,       *)
(* continuations and comments are undone exactly, for words spelled and    *)
(* separated as in Spellings, Careful and Gaps.  Those leave out inputs    *)
(* that are documented too: an operator right after an unquoted word, a    *)
(* continuation after a quoted one, and an odd number of double quotes     *)
(* inside a word.                                                          *)
(* parse_cmds() cuts the tokens into commands: a new one starts at the     *)
(* first token, at every operator, and after every separator, and it has   *)
(* the tokens up to the next as its arguments.  It stays inside the array. *)
Starts(args) ==
    {1} \cup {k \in DOMAIN args : args[k] \in Separators \cup Redirects}
        \cup {k \in 2..Len(args) : args[k - 1] \in Separators}
CommandsAsMeant ==
    /\ pc = "commands" /\ Whole => tokens = meant
    /\ pc = "exec" /\ Whole /\ meant # <<>> =>
        LET starts == SetToSortSeq(Starts(meant), <)
            upto(k) == IF k = Len(starts) THEN Len(meant) ELSE starts[k + 1] - 1
        IN  /\ cmds = [k \in DOMAIN starts |->
                  [name |-> meant[starts[k]],
                   argv |-> SubSeq(meant, starts[k] + 1, upto(k)),
                   special |-> meant[starts[k]] \in Separators \cup Redirects]]
            /\ Len(cmds) <= Commands(tokens).size

(* When the shell asks for a line or has ended, nothing of the last line   *)
(* is left: no allocated block (the number that main() prints), and no     *)
(* child that runs or has not been waited for.                             *)
NothingLeft == pc \in {"prompt", "exited"} => live = 0 /\ child = "none"

(* Every line that is complete gets the user back to the prompt, or ends   *)
(* the shell: whatever was typed, and also after the input has been closed.*)
EveryLineEnds ==
    pc = "parse" ~> pc \in {"prompt", "exited", "crashed", "failed"}
=============================================================================
