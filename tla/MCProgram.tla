------------------------------- MODULE MCProgram --------------------------------
(* What a program starts with and goes on with: its image (Segments), its  *)
(* arguments (Arguments) and its registers (Registers).  Which of the      *)
(* three is looked at is chosen at the start; the others stay as they      *)
(* begin.                                                                  *)
EXTENDS Registers, Segments, TLC

CONSTANTS c1, c2,
          Lines, MAXARGS, STACKPAGE, WORD      \* Arguments

VARIABLES part,
          typed, s, nc, np1, np2, argc, argv, cmd, pc, page, esp, args, cur, taken

lineVars  == <<typed, s, nc, np1, np2, argc, argv, cmd, pc, page, esp, args, cur, taken>>

Line  == INSTANCE Arguments WITH PGSIZE <- STACKPAGE, part <- cmd

ASSUME ArgumentsAssumption == Line!ArgumentsAssumption

MCCpus   == {c1, c2}
Symmetry == Permutations(MCCpus)
MCValues == {0, 1}
MCOn     == {TRUE}
MCFaulting == {2}

Of(chars, n) == UNION {[1..k -> chars] : k \in 1..n}
MCLines == Of({"a", "-", " ", "|"}, 7) \cup Of({"a", "/", " ", "<", "&"}, 5)

OneImage == CHOOSE p \in Executables : TRUE

MCInit ==
    /\ part \in {"image", "arguments", "registers"}
    /\ Init
    /\ IF part = "image" THEN ImageInit
       ELSE /\ loader = "readseg" /\ segs = OneImage /\ ph = 1 /\ count = 0
            /\ mem = [a \in Addresses |-> Old] /\ stage = "load"
    /\ IF part = "arguments" THEN Line!Init
       ELSE /\ typed = << >> /\ s = << >> /\ nc = "nul" /\ np1 = 0 /\ np2 = 0 /\ argc = 0
            /\ argv = << >> /\ cmd = 0 /\ pc = "end" /\ page = << >> /\ esp = 0
            /\ args = << >> /\ cur = << >> /\ taken = << >>

MCNext ==
    /\ UNCHANGED part
    /\ \/ part = "registers" /\ Next /\ UNCHANGED <<imageVars, lineVars>>
       \/ part = "image" /\ ImageNext /\ UNCHANGED <<vars, lineVars>>
       \/ part = "arguments" /\ Line!Next /\ UNCHANGED <<vars, imageVars>>

MCSpec == MCInit /\ [][MCNext]_<<part, vars, imageVars, lineVars>>

(* Arguments: the words of the command arrive, in order and in full, and   *)
(* flags and values are taken from them one by one.                        *)
ArgumentsIInv == part = "arguments" => Line!IInv
=============================================================================
