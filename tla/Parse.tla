-------------------------------- MODULE Parse --------------------------------
(***************************************************************************)
(* pssh_v2/parse.c.  The user has a command in mind and writes it as a     *)
(* line, in one of several ways, possibly with a mistake; parse_cmdline    *)
(* makes a Parse of the line.  Words differ in their letters only, files   *)
(* are called i and o; only arguments are ever quoted, and white space is  *)
(* blanks.                                                                 *)
(***************************************************************************)
EXTENDS IpcParameters, SequencesExt

VARIABLES
  command,   \* what the user means
  style,     \* how it is written
  cmdline,   \* the line
  P,         \* the Parse, or NULL
  pc

vars == <<command, style, cmdline, P, pc>>

NULL == <<>>
Ops    == {">", "<", "|"}
Quotes == {"dq", "sq"}
---------------------------------------------------------------------------
\* The line.
A == <<"a">>
B == <<"b">>
SPACED == <<"c", " ", "d">>       \* words that must be quoted
BARRED == <<"c", "|", "d">>
Task == {<<A>>, <<B, A>>, <<A, SPACED>>, <<B, SPACED, A>>, <<A, BARRED>>}
Command ==
  [tasks : {<<t>> : t \in Task} \cup (Task \X Task),
   infile : {NULL, <<<<"i">>>>}, outfile : {NULL, <<<<"o">>>>}, background : BOOLEAN]
Nothing == [tasks |-> <<>>, infile |-> NULL, outfile |-> NULL, background |-> FALSE]

Mistake == {"none", "bar_first", "bar_last", "and", "in_last", "out_first", "in_twice",
            "no_file", "open_quote", "blank_unit"}
AnyWay == [gap |-> 1, quote |-> "dq", tight |-> FALSE, out_in |-> FALSE, mistake |-> "none"]
Style == [gap : 1 .. max_gap, quote : Quotes, tight : BOOLEAN, out_in : BOOLEAN,
          mistake : Mistake]

Blank(s)   == IF s.tight THEN <<>> ELSE <<" ">>
Word(s, w) == IF w \in {SPACED, BARRED} THEN <<s.quote>> \o w \o <<s.quote>> ELSE w
Words(s, t) ==
  FlattenSeq([k \in 1 .. Len(t) |->
    (IF k = 1 THEN <<>> ELSE [b \in 1 .. s.gap |-> " "]) \o Word(s, t[k])])

File(s, op, fn) == Blank(s) \o <<op>> \o Blank(s) \o fn

\* What follows the words of the k-th of n tasks.
Files(c, s, k, n) ==
  LET at_in  == IF s.mistake = "in_last" THEN n ELSE 1
      at_out == IF s.mistake = "out_first" THEN 1 ELSE n
      in  == IF c.infile = NULL \/ k # at_in THEN <<>>
             ELSE CASE s.mistake = "in_twice" -> File(s, "<", A) \o File(s, "<", B)
                    [] s.mistake = "no_file" -> File(s, "<", <<>>)
                    [] OTHER -> File(s, "<", c.infile[1])
      out == IF c.outfile = NULL \/ k # at_out THEN <<>> ELSE File(s, ">", c.outfile[1])
  IN  IF s.out_in THEN out \o in ELSE in \o out

Line(c, s) ==
  LET n == Len(c.tasks)
      Unit(k) == Words(s, c.tasks[k]) \o Files(c, s, k, n)
                 \o (IF k = n /\ s.mistake = "open_quote" THEN <<s.quote>> ELSE <<>>)
      Sep     == IF s.mistake = "blank_unit" THEN <<"|", " ", "|">> ELSE <<"|">>
      pipeline == FlattenSeq([k \in 1 .. n |->
                    IF k = 1 THEN Unit(k) ELSE Blank(s) \o Sep \o Blank(s) \o Unit(k)])
  IN  (CASE s.mistake = "bar_first" -> <<"|">> [] s.mistake = "and" -> <<"&">>
         [] OTHER -> <<>>)
      \o pipeline
      \o (IF s.mistake = "bar_last" THEN <<"|">> ELSE <<>>)
      \o (IF c.background THEN Blank(s) \o <<"&">> ELSE <<>>)

\* Can this mistake be made with this command?
Makes(c, m) ==
  CASE m \in {"in_last", "in_twice", "no_file"} ->
         c.infile # NULL /\ (m = "in_last" => Len(c.tasks) = 2)
    [] m = "out_first"  -> c.outfile # NULL /\ Len(c.tasks) = 2
    [] m = "blank_unit" -> Len(c.tasks) = 2
    [] OTHER -> TRUE
---------------------------------------------------------------------------
\* The parser; positions count from 1.
At(needle, haystack) == {k \in DOMAIN haystack : haystack[k] \in needle}
First(S, s) == Min(S \cup {Len(s) + 1})

trim(s) ==
  LET ink == DOMAIN s \ At({" "}, s)
  IN  IF ink = {} THEN <<>> ELSE SubSeq(s, Min(ink), Max(ink))

is_empty(s)         == trim(s) = <<>>
is_background(s)    == Last(trim(s)) = "&"
count_char(c, s)    == Cardinality(At({c}, s))
has_trailing(c, s)  == s # <<>> /\ (Head(s) = c \/ Last(s) = c)

\* A quoted word behind a blank, another word behind one blank.  The loop ends
\* at the closing quote only: without one it leaves the string.
Runaway == 1000
count_args(s) ==
  LET args[k \in 1 .. Len(s) + 2] ==
        IF k > Len(s) THEN 0
        ELSE IF s[k] # " " THEN args[k + 1]
        ELSE IF s[k + 1] \in Quotes
               THEN LET closing == {q \in k + 2 .. Len(s) : s[q] = s[k + 1]}
                    IN  IF closing = {} THEN Runaway ELSE 1 + args[Min(closing) + 1]
               ELSE (IF s[k + 1] = " " THEN 0 ELSE 1) + args[k + 2]
  IN  args[1]

\* All that argtok returns: it skips blanks and quotes, and ends a token at a
\* quote if one came before it.
argtok(s) ==
  LET token[from \in 1 .. Len(s) + 2] ==
        LET ink == {k \in from .. Len(s) : s[k] \notin Quotes \cup {" "}}
        IN  IF ink = {} THEN <<>>
            ELSE LET k    == Min(ink)
                     stop == IF k > from /\ s[k - 1] \in Quotes THEN s[k - 1] ELSE " "
                     end  == First({e \in k .. Len(s) : s[e] = stop}, s)
                 IN  <<SubSeq(s, k, end - 1)>> \o token[end + 1]
  IN  token[1]


parse_unary(op, unit) ==
  LET start == Min(At({op}, unit))
      end   == First({e \in At(Ops, unit) : e > start}, unit)
  IN  [arg  |-> <<trim(SubSeq(unit, start + 1, end - 1))>>,
       rest |-> [k \in DOMAIN unit |-> IF k \in start .. end - 1 THEN " " ELSE unit[k]]]

Redirection(op, unit) ==
  IF count_char(op, unit) = 0 THEN [arg |-> NULL, rest |-> unit] ELSE parse_unary(op, unit)

\* argv has room for argc arguments and the NULL that is put behind them.
parse_command(unit) ==
  LET s == trim(unit) IN [argc |-> count_args(s) + 1, argv |-> argtok(s)]

\* NULL for a unit that is refused.
parse_unit(unit) ==
  IF \/ \E op \in {"<", ">"} : count_char(op, unit) > 1
     \/ \E q \in Quotes : count_char(q, unit) % 2 = 1
    THEN NULL
    ELSE LET in == Redirection("<", unit)
             out == Redirection(">", in.rest)
         IN  <<[task |-> parse_command(out.rest), input_fn |-> in.arg, output_fn |-> out.arg]>>

\* The command of a blank unit is argv[0], which nobody has written: malloc may
\* have left anything there.
valid_syntax(ntasks, u, i, garbage) ==
  /\ u # NULL
  /\ u[1].input_fn # NULL  => i = 1 /\ ~is_empty(u[1].input_fn[1])
  /\ u[1].output_fn # NULL => i = ntasks /\ ~is_empty(u[1].output_fn[1])
  /\ u[1].task.argv # <<>> \/ garbage

\* strtok_r: the pieces between bars that are not empty.
Units(s) ==
  LET start == SetToSortSeq({k \in DOMAIN s : s[k] # "|" /\ (k = 1 \/ s[k - 1] = "|")},
                            LAMBDA j, k : j < k)
  IN  [n \in DOMAIN start |->
        SubSeq(s, start[n], First({e \in At({"|"}, s) : e > start[n]}, s) - 1)]

parse_new == [tasks |-> <<>>, ntasks |-> 0, infile |-> NULL, outfile |-> NULL,
              background |-> FALSE, invalid_syntax |-> FALSE]

\* parse_add_unit for every unit, up to the first that is not valid.
parse_add_units(p, us, garbage) ==
  IF \E i \in DOMAIN us : ~valid_syntax(p.ntasks, us[i], i, garbage)
    THEN [p EXCEPT !.invalid_syntax = TRUE]
    ELSE [p EXCEPT !.tasks = [i \in DOMAIN us |-> us[i][1].task],
                   !.infile = us[1][1].input_fn,
                   !.outfile = IF Len(us) = p.ntasks THEN us[Len(us)][1].output_fn ELSE NULL]

parse_of(line, garbage) ==
  LET t  == trim(line)
      bg == is_background(line)
      s  == IF bg THEN trim(SubSeq(t, 1, Len(t) - 1)) ELSE t
      us == Units(s)
      p  == [parse_new EXCEPT !.background = bg]
  IN  IF is_empty(line) THEN NULL
      ELSE IF count_char("&", s) > 0 \/ has_trailing("|", s)
             THEN <<[p EXCEPT !.invalid_syntax = TRUE]>>
             ELSE <<parse_add_units([p EXCEPT !.ntasks = count_char("|", s) + 1],
                                    [i \in DOMAIN us |-> parse_unit(us[i])], garbage)>>
---------------------------------------------------------------------------
Init ==
  /\ command = Nothing /\ style = AnyWay
  /\ cmdline = <<>> /\ P = NULL /\ pc = "read"

ReadLine ==
  /\ pc = "read" /\ pc' = "parse"
  /\ \E c \in Command, s \in Style :
       /\ Makes(c, s.mistake)
       /\ command' = c /\ style' = s /\ cmdline' = Line(c, s)
  /\ UNCHANGED P

parse_cmdline ==
  /\ pc = "parse" /\ pc' = "execute"
  /\ \E garbage \in BOOLEAN : P' = parse_of(cmdline, garbage)
  /\ UNCHANGED <<command, style, cmdline>>

parse_destroy ==
  /\ pc = "execute" /\ pc' = "read"
  /\ P' = NULL /\ cmdline' = <<>>
  /\ command' = Nothing /\ style' = AnyWay

Next == ReadLine \/ parse_cmdline \/ parse_destroy

Spec == Init /\ [][Next]_vars
---------------------------------------------------------------------------
Parsed(mistakes) == pc = "execute" /\ style.mistake \in mistakes

\* The Parse of what the user means.
meant == <<[parse_new EXCEPT
              !.tasks = [k \in DOMAIN command.tasks |->
                          [argc |-> Len(command.tasks[k]), argv |-> command.tasks[k]]],
              !.ntasks = Len(command.tasks), !.infile = command.infile,
              !.outfile = command.outfile, !.background = command.background]>>


\* parse.h says of argv: "NULL terminated array of strings".  The NULL is at
\* argv[argc]: it must come right behind the last argument.
ArgvTerminated ==
  Parsed({"none"}) => \A k \in DOMAIN P[1].tasks : P[1].tasks[k].argc = Len(P[1].tasks[k].argv)
=============================================================================
