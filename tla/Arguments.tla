-------------------------------- MODULE Arguments --------------------------------
(***************************************************************************)
(* The arguments of a command in TP 4, from the line that the shell has    *)
(* read to the program: gettoken() cuts words out of the line where they   *)
(* stand (user/sh.c), init_stack() copies them to the top of the child's   *)
(* stack with pointers to them (lib/spawn.c), and argnext() takes flags    *)
(* and values out of the array (lib/args.c).                               *)
(*                                                                         *)
(* A character is a class: a letter, "-", "/", a space, a symbol.  Memory  *)
(* is bytes; a pointer is one value in the first of its WORD bytes.        *)
(***************************************************************************)
EXTENDS Integers, Sequences, SequencesExt, FiniteSetsExt

CONSTANTS Lines,      \* what is typed
          MAXARGS,    \* words of the shell's array
          PGSIZE,     \* of the stack page
          WORD

NUL     == "nul"
Space   == " "
Symbols == {"<", "|", ">", "&"}
Plain   == {"a", "b", "-", "/"}
NULL    == -1
NoArg   == <<NUL>>

ArgumentsAssumption ==
    /\ MAXARGS \in Nat \ {0} /\ WORD \in Nat \ {0} /\ PGSIZE \in Nat /\ PGSIZE % WORD = 0
    /\ Lines \subseteq Seq(Plain \cup Symbols \cup {Space})

VARIABLES
    typed,      \* the line as it was read
    s,          \* the line as gettoken() has left it
    nc, np1, np2,           \* the token that is ahead: static variables of gettoken()
    argc, argv,             \* of runcmd(): places in s
    part,       \* the command of the pipeline that this environment runs
    pc,
    page, esp,  \* the stack page of the child
    args,       \* the program's argv, as far as argc goes
    cur,        \* curarg: what is left of the argument that is taken; NoArg at the end
    taken       \* how each argument that is gone was taken: "flag" or "value"

vars == <<typed, s, nc, np1, np2, argc, argv, part, pc, page, esp, args, cur, taken>>

-----------------------------------------------------------------------------
(* gettoken() *)

Ends(str, p, S) == Min({q \in DOMAIN str : q >= p /\ str[q] \notin S})
Token(str, t, p1, p2) == [s |-> str, nc |-> t, np1 |-> p1, np2 |-> p2]

(* _gettoken(): spaces, and a symbol, become NUL; a word is not closed yet. *)
_gettoken(str, p) ==
    IF p = NULL THEN Token(str, NUL, NULL, NULL)
    ELSE LET q    == Ends(str, p, {Space})
             cut  == [k \in DOMAIN str |-> IF k \in p..q-1 THEN NUL ELSE str[k]]
         IN  IF str[q] = NUL THEN Token(cut, NUL, NULL, NULL)
             ELSE IF str[q] \in Symbols THEN Token([cut EXCEPT ![q] = NUL], str[q], q, q + 1)
             ELSE Token(cut, "w", q, Ends(str, q, Plain))

Ahead(t) == s' = t.s /\ nc' = t.nc /\ np1' = t.np1 /\ np2' = t.np2

Init ==
    /\ typed \in Lines
    /\ LET t == _gettoken(Append(typed, NUL), 1)
       IN  s = t.s /\ nc = t.nc /\ np1 = t.np1 /\ np2 = t.np2
    /\ argc = 0 /\ argv = [k \in 0..MAXARGS |-> NULL] /\ part = 0 /\ pc = "parse"
    /\ page = [b \in 0..PGSIZE-1 |-> NUL] /\ esp = 0
    /\ args = << >> /\ cur = NoArg /\ taken = << >>

Advance == Ahead(_gettoken(s, np2))
Parses  == pc = "parse" /\ Advance
tokens  == <<s, nc, np1, np2>>
others  == <<typed, page, esp, args, cur, taken>>

-----------------------------------------------------------------------------
(* runcmd() *)

Fits     == argc < MAXARGS

AddArgument ==
    /\ Parses /\ nc = "w" /\ Fits
    /\ argv' = [argv EXCEPT ![argc] = np1] /\ argc' = argc + 1
    /\ UNCHANGED <<part, pc, others>>

TooMany ==
    /\ Parses /\ nc = "w" /\ ~Fits
    /\ pc' = "end"
    /\ UNCHANGED <<argc, argv, part, others>>

(* "<" and ">" take the word that follows; the file is opened. *)
Redirect ==
    /\ Parses /\ nc \in {"<", ">"}
    /\ pc' = "file"
    /\ UNCHANGED <<argc, argv, part, others>>

File ==
    /\ pc = "file" /\ Advance
    /\ pc' = IF nc = "w" THEN "parse" ELSE "end"
    /\ UNCHANGED <<argc, argv, part, others>>

(* At "|" the child goes on with the rest, the parent runs what it has.    *)
RestartNot == argc                           \* Mutant: again, without argc = 0
Restart    == 0

PipeChild ==
    /\ Parses /\ nc = "|"
    /\ argc' = Restart /\ part' = part + 1
    /\ UNCHANGED <<argv, pc, others>>

PipeParent ==
    /\ Parses /\ nc = "|"
    /\ pc' = "runit"
    /\ UNCHANGED <<argc, argv, part, others>>

EndOfLine ==
    /\ Parses /\ nc = NUL
    /\ pc' = "runit"
    /\ UNCHANGED <<argc, argv, part, others>>

(* No other symbol is known: panic. *)
BadToken ==
    /\ Parses /\ nc = "&"
    /\ pc' = "end"
    /\ UNCHANGED <<argc, argv, part, others>>

EmptyCommand ==
    /\ pc = "runit" /\ argc = 0
    /\ pc' = "end"
    /\ UNCHANGED <<tokens, argc, argv, part, others>>

(* argv[argc] = 0 *)
RunIt ==
    /\ pc = "runit" /\ argc > 0
    /\ argv' = [argv EXCEPT ![argc] = NULL] /\ pc' = "spawn"
    /\ UNCHANGED <<tokens, argc, part, others>>

-----------------------------------------------------------------------------
(* init_stack() *)

(* The string at p, up to its NUL. *)
String(mem, p) ==
    [k \in 1..Ends(mem, p, Plain \cup Symbols \cup {Space}) - p |-> mem[p + k - 1]]

(* The command's name is made a path. *)
Path(name) == IF name[1] = "/" THEN name ELSE <<"/">> \o name
Passed     == [i \in 1..argc |-> IF i = 1 THEN Path(String(s, argv[0])) ELSE String(s, argv[i - 1])]

SizeOf(strings)     == Len(FlattenSeq(strings)) + Len(strings)
StoreOf(strings, i) == PGSIZE - SizeOf(strings) + SizeOf(SubSeq(strings, 1, i - 1))
RoundDown(n)        == n - (n % WORD)
ArgvStore(strings)  == RoundDown(StoreOf(strings, 1)) - WORD * (Len(strings) + 1)

(* strcpy() of each string, and the pointers. *)
Filled(strings) ==
    LET base == ArgvStore(strings)
        n    == Len(strings)
        Byte(b) ==
            IF \E i \in 1..n : b \in StoreOf(strings, i)..StoreOf(strings, i) + Len(strings[i])
            THEN LET i == CHOOSE i \in 1..n : b \in StoreOf(strings, i)..StoreOf(strings, i) + Len(strings[i])
                 IN  Append(strings[i], NUL)[b - StoreOf(strings, i) + 1]
            ELSE IF \E i \in 0..n-1 : b = base + WORD * i THEN StoreOf(strings, (b - base) \div WORD + 1)
            ELSE IF b = base + WORD * n THEN 0
            ELSE IF b = base - WORD THEN base
            ELSE IF b = base - 2 * WORD THEN n
            ELSE NUL
    IN  [b \in 0..PGSIZE-1 |-> Byte(b)]

NoMemory ==
    /\ pc = "spawn" /\ ArgvStore(Passed) - 2 * WORD < 0
    /\ pc' = "end"
    /\ UNCHANGED <<tokens, argc, argv, part, others>>

InitStack ==
    /\ pc = "spawn" /\ ArgvStore(Passed) - 2 * WORD >= 0
    /\ page' = Filled(Passed) /\ esp' = ArgvStore(Passed) - 2 * WORD
    /\ pc' = "start"
    /\ UNCHANGED <<typed, tokens, argc, argv, part, args, cur, taken>>

-----------------------------------------------------------------------------
(* The program: libmain() finds argc and argv on its stack, argstart().    *)
Start ==
    /\ pc = "start" /\ pc' = "program"
    /\ args' = [i \in 1..page[esp] |-> String(page, page[page[esp + WORD] + WORD * (i - 1)])]
    /\ cur' = IF page[esp] > 1 THEN << >> ELSE NoArg
    /\ UNCHANGED <<typed, tokens, argc, argv, part, page, esp, taken>>

program == <<typed, tokens, argc, argv, part, page, esp>>

IsFlag(arg) == Len(arg) > 1 /\ arg[1] = "-"
Shift(how)  == args' = RemoveAt(args, 2) /\ taken' = Append(taken, how)

(* argnext() in the middle of "-abc" *)
NextFlag ==
    /\ pc = "program" /\ cur \notin {NoArg, << >>}
    /\ cur' = Tail(cur)
    /\ UNCHANGED <<program, pc, args, taken>>

EndsArgs        == Len(args) > 1 => ~IsFlag(args[2])

(* argnext() at the next argument *)
NextArgument ==
    /\ pc = "program" /\ cur = << >> /\ ~EndsArgs
    /\ Shift("flag")
    /\ IF args[2] = <<"-", "-">> THEN cur' = NoArg /\ pc' = "left"
       ELSE cur' = SubSeq(args[2], 3, Len(args[2])) /\ UNCHANGED pc
    /\ UNCHANGED program

(* argnext() returns -1. *)
NoMoreFlags ==
    /\ pc = "program" /\ (cur = NoArg \/ (cur = << >> /\ EndsArgs))
    /\ cur' = NoArg /\ pc' = "left"
    /\ UNCHANGED <<program, args, taken>>

(* argnextvalue(): the rest of the argument, the next one, or none. *)
NextValue ==
    /\ pc = "program" /\ cur # NoArg
    /\ IF cur # << >> THEN cur' = << >> /\ UNCHANGED <<args, taken>>
       ELSE IF Len(args) > 1 THEN Shift("value") /\ UNCHANGED cur
       ELSE cur' = NoArg /\ UNCHANGED <<args, taken>>
    /\ UNCHANGED <<program, pc>>

Next ==
    \/ AddArgument \/ TooMany \/ Redirect \/ File \/ PipeChild \/ PipeParent
    \/ EndOfLine \/ BadToken \/ EmptyCommand \/ RunIt \/ NoMemory \/ InitStack
    \/ Start \/ NextFlag \/ NextArgument \/ NoMoreFlags \/ NextValue

Spec == Init /\ [][Next]_vars

-----------------------------------------------------------------------------
(* Properties *)

(* The words of command k of a line, by what is next to them.              *)
At(line, p)      == IF p \in DOMAIN line THEN line[p] ELSE Space
Before(line, p)  == {q \in 1..p-1 : line[q] # Space}
AfterRedirect(line, p) == Before(line, p) # {} /\ line[Max(Before(line, p))] \in {"<", ">"}
StartsWord(line, p) ==
    /\ line[p] \in Plain /\ At(line, p - 1) \notin Plain
    /\ ~AfterRedirect(line, p)
InPart(line, p, k) == Cardinality({q \in 1..p-1 : line[q] = "|"}) = k
WordAt(line, p)    == SubSeq(line, p, Ends(Append(line, NUL), p, Plain) - 1)

Given ==
    LET starts == {p \in DOMAIN typed : StartsWord(typed, p) /\ InPart(typed, p, part)}
        words  == [i \in 1..Cardinality(starts) |->
                      WordAt(typed, CHOOSE p \in starts : Cardinality({q \in starts : q < p}) = i - 1)]
    IN  [i \in DOMAIN words |-> IF i = 1 THEN Path(words[1]) ELSE words[i]]

TypeOK ==
    /\ argc \in 0..MAXARGS /\ DOMAIN argv = 0..MAXARGS
    /\ DOMAIN page = 0..PGSIZE-1 /\ esp \in 0..PGSIZE-1
    /\ Len(taken) < MAXARGS

(* The program has the words of its command, in order and in full, without *)
(* the files of redirections: although they were cut out of one line that  *)
(* other tokens still write to, and were copied to another address space.  *)
(* What it has taken is gone from its array, and nothing else.             *)
WordsArrive ==
    pc \in {"program", "left"} =>
        Given # << >> /\ args = <<Given[1]>> \o SubSeq(Given, Len(taken) + 2, Len(Given))

(* inc/args.h: when argnext() returns -1 the array contains just the       *)
(* arguments that are no flags: only flags, and values that were asked     *)
(* for, are gone; the flags stop at the first other argument, at "-", and  *)
(* after "--".                                                             *)
JustArguments ==
    LET n == Len(taken)
    IN  /\ \A i \in 1..n : taken[i] = "flag" => IsFlag(Given[i + 1])
        /\ pc = "left" =>
               \/ Len(args) = 1 \/ ~IsFlag(args[2])
               \/ n > 0 /\ taken[n] = "flag" /\ Given[n + 1] = <<"-", "-">>

(* Nothing is lost when flags are read one by one: what is left of an      *)
(* argument is its end.                                                    *)
FlagsInOrder ==
    pc = "program" /\ cur \notin {NoArg, << >>} => IsSuffix(cur, Given[Len(taken) + 1])

IInv == TypeOK /\ WordsArrive /\ JustArguments /\ FlagsInOrder
=============================================================================
