--------------------------------- MODULE Console ---------------------------------
(***************************************************************************)
(* The console of TP 4, from a key to the screen (kern/console.c,          *)
(* lib/console.c, lib/readline.c).  A character waits in its device until  *)
(* somebody asks for one: sys_cgetc() first empties the serial port and    *)
(* the keyboard into a ring, with the kernel lock held, and then takes the *)
(* next of the ring.  One program, the shell, reads lines and echoes them; *)
(* the others take characters one by one.  Keys arrive at any moment, and  *)
(* each asks for an interrupt, for which trap_init() has made no gate.     *)
(***************************************************************************)
EXTENDS Naturals, Sequences, SequencesExt

CONSTANTS Shell, Others,     \* the programs that read
          Letters,           \* keys that print
          Devices, First,    \* the devices, and the one that is emptied first
          FIFO,              \* what a device holds
          CONSBUFSIZE, BUFLEN, CRT_COLS, CRT_ROWS,
          Cursors,           \* where the cursor may be when the kernel starts
          MaxTyped           \* bound on the keys

Readers  == {Shell} \cup Others
Nothing  == "nothing"
Blank    == " "
Prompt   == "$"
None     == "none"           \* a key without a character, as Shift
BS       == "backspace"
DEL      == "delete"
NL       == "newline"
EOT      == "ctl-d"
Chars    == Letters \cup {BS, DEL, NL, EOT}
CRT_SIZE == CRT_ROWS * CRT_COLS

ASSUME ConsoleAssumption ==
    /\ Shell \notin Others /\ Nothing \notin Readers
    /\ Letters \cap {Nothing, None, BS, DEL, NL, EOT} = {}
    /\ First \in Devices /\ FIFO \in Nat \ {0}
    /\ CONSBUFSIZE \in Nat /\ CONSBUFSIZE > 1 /\ BUFLEN \in Nat \ {0}
    /\ CRT_COLS \in Nat \ {0} /\ CRT_ROWS \in Nat
    /\ CRT_SIZE > BUFLEN + CRT_COLS         \* 2000, 1024 and 80
    /\ Cursors \subseteq 0..CRT_SIZE-1
    /\ MaxTyped \in Nat

VARIABLES
    dev,                     \* what waits in each device
    cons,                    \* the ring: buf, rpos, wpos
    poller, todo,            \* who is in cons_getc(), and the devices it still polls
    has,                     \* the character a reader has got
    line,                    \* buf of readline(); its length is i
    asked,                   \* whether readline() has printed its prompt
    crt,                     \* the screen: buf, pos
    typed,                   \* how many keys there were
    irq,                     \* the devices that ask for an interrupt
    gone,                    \* the readers that were destroyed
    stopped                  \* the kernel has panicked: the console is its monitor's

programVars == <<has, line, asked, crt>>
machineVars == <<irq, gone, stopped>>
consoleVars == <<dev, cons, poller, todo, programVars, typed, machineVars>>

ConsoleInit ==
    /\ dev = [d \in Devices |-> << >>]
    /\ cons = [buf |-> [k \in 0..CONSBUFSIZE-1 |-> None], rpos |-> 0, wpos |-> 0]
    /\ poller = Nothing /\ todo = {}
    /\ has = [r \in Readers |-> Nothing]
    /\ line = << >> /\ asked = FALSE
    /\ \E p \in Cursors : crt = [buf |-> [k \in 0..CRT_SIZE-1 |-> Blank], pos |-> p]
    /\ typed = 0 /\ irq = {} /\ gone = {} /\ stopped = FALSE

(* A key reaches its device, at any moment. *)
Type(d, c) ==
    /\ typed < MaxTyped /\ typed' = typed + 1
    /\ Len(dev[d]) < FIFO
    /\ dev' = [dev EXCEPT ![d] = Append(@, c)]
    /\ irq' = irq \cup {d}
    /\ UNCHANGED <<cons, poller, todo, programVars, gone, stopped>>

(* The interrupt comes to the boot processor when nobody has the lock and  *)
(* becomes a protection fault: it destroys the program that runs there, a  *)
(* reader or another, and panics if none does.                             *)
Interrupt(d) ==
    /\ d \in irq /\ poller = Nothing /\ irq' = irq \ {d}
    /\ \/ UNCHANGED <<programVars, gone, stopped>>
       \/ /\ stopped' = TRUE
          /\ UNCHANGED <<programVars, gone>>
       \/ \E r \in Readers \ gone :
             /\ gone' = gone \cup {r}
             /\ has' = [has EXCEPT ![r] = Nothing]
             /\ IF r = Shell THEN line' = << >> /\ asked' = FALSE ELSE UNCHANGED <<line, asked>>
             /\ UNCHANGED <<crt, stopped>>
    /\ UNCHANGED <<dev, cons, poller, todo, typed>>

(* initsh waits for the shell and starts another.                          *)
NewShell ==
    /\ Shell \in gone /\ gone' = gone \ {Shell}
    /\ UNCHANGED <<dev, cons, poller, todo, programVars, typed, irq, stopped>>

-----------------------------------------------------------------------------
(* The ring *)

Wrap(n) == (n + 1) % CONSBUFSIZE

StoredAhead(c) == [cons EXCEPT !.buf[Wrap(cons.wpos)] = c, !.wpos = Wrap(@)]   \* Mutant: ++wpos
Stored(c)      == [cons EXCEPT !.buf[cons.wpos] = c, !.wpos = Wrap(@)]

Waiting == (cons.wpos + CONSBUFSIZE - cons.rpos) % CONSBUFSIZE
Ring    == [k \in 1..Waiting |-> cons.buf[(cons.rpos + k - 1) % CONSBUFSIZE]]

(* A reader enters cons_getc(). *)
CallGetc(r) ==
    /\ poller = Nothing /\ r \notin gone /\ has[r] = Nothing /\ (r = Shell => asked)
    /\ poller' = r /\ todo' = Devices
    /\ UNCHANGED <<dev, cons, programVars, typed, machineVars>>

Polled == IF First \in todo THEN {First} ELSE todo

(* One turn of cons_intr(): a character, or a key without one. *)
Intr(d) ==
    /\ d \in Polled /\ dev[d] # << >>
    /\ dev' = [dev EXCEPT ![d] = Tail(@)]
    /\ cons' = IF Head(dev[d]) = None THEN cons ELSE Stored(Head(dev[d]))
    /\ UNCHANGED <<poller, todo, programVars, typed, machineVars>>

LeftNone(d) == {}                            \* Mutant: the first one only
Left(d)     == todo \ {d}

IntrEnd(d) ==
    /\ d \in Polled /\ dev[d] = << >>
    /\ todo' = Left(d)
    /\ UNCHANGED <<dev, cons, poller, programVars, typed, machineVars>>

(* The next of the ring, or 0 if there seems to be none. *)
Getc(r) ==
    /\ poller = r /\ todo = {}
    /\ poller' = Nothing
    /\ IF cons.rpos = cons.wpos THEN UNCHANGED <<cons, has>>
       ELSE /\ has' = [has EXCEPT ![r] = cons.buf[cons.rpos]]
            /\ cons' = [cons EXCEPT !.rpos = Wrap(@)]
    /\ UNCHANGED <<dev, todo, line, asked, crt, typed, machineVars>>

-----------------------------------------------------------------------------
(* The screen *)

BackLeaves(s) == IF s.pos = 0 THEN s ELSE [s EXCEPT !.pos = @ - 1]   \* Mutant: not cleared
Back(s) == IF s.pos = 0 THEN s ELSE [buf |-> [s.buf EXCEPT ![s.pos - 1] = Blank], pos |-> s.pos - 1]

Scrolled(s) ==
    IF s.pos < CRT_SIZE THEN s
    ELSE [buf |-> [k \in 0..CRT_SIZE-1 |-> IF k < CRT_SIZE - CRT_COLS THEN s.buf[k + CRT_COLS] ELSE Blank],
          pos |-> s.pos - CRT_COLS]

cga_putc(s, c) ==
    IF c = BS THEN Back(s)
    ELSE Scrolled(IF c = NL THEN [s EXCEPT !.pos = @ + CRT_COLS - (@ % CRT_COLS)]
                  ELSE [buf |-> [s.buf EXCEPT ![s.pos] = c], pos |-> s.pos + 1])

-----------------------------------------------------------------------------
(* readline() *)

AskPrompt ==
    /\ ~asked /\ Shell \notin gone /\ asked' = TRUE
    /\ crt' = cga_putc(crt, Prompt)
    /\ UNCHANGED <<dev, cons, poller, todo, has, line, typed, machineVars>>

Got(c)  == has[Shell] = c /\ has' = [has EXCEPT ![Shell] = Nothing]
Room    == Len(line) < BUFLEN - 1

Erase ==
    /\ \E c \in {BS, DEL} : Got(c)
    /\ line # << >>
    /\ line' = Front(line) /\ crt' = cga_putc(crt, BS)
    /\ UNCHANGED <<dev, cons, poller, todo, asked, typed, machineVars>>

(* With nothing to delete, DEL is a character as the others. *)
Insert ==
    /\ \E c \in Letters \cup {DEL} :
        /\ Got(c) /\ (c = DEL => line = << >>)
        /\ Room
        /\ line' = Append(line, c) /\ crt' = cga_putc(crt, c)
    /\ UNCHANGED <<dev, cons, poller, todo, asked, typed, machineVars>>

Ignore ==
    /\ \E c \in Letters \cup {BS, DEL} :
        /\ Got(c)
        /\ c = BS => line = << >>
        /\ c # BS => ~Room
        /\ c = DEL => line = << >>
    /\ UNCHANGED <<dev, cons, poller, todo, line, asked, crt, typed, machineVars>>

(* The line is complete: runcmd() takes it from there. *)
EndLine ==
    /\ Got(NL)
    /\ line' = << >> /\ asked' = FALSE /\ crt' = cga_putc(crt, NL)
    /\ UNCHANGED <<dev, cons, poller, todo, typed, machineVars>>

(* devcons_read() makes an end of file of ctl-d. *)
Eof ==
    /\ Got(EOT)
    /\ line' = << >> /\ asked' = FALSE
    /\ UNCHANGED <<dev, cons, poller, todo, crt, typed, machineVars>>

Use(r) ==
    /\ has[r] # Nothing /\ has' = [has EXCEPT ![r] = Nothing]
    /\ UNCHANGED <<dev, cons, poller, todo, line, asked, crt, typed, machineVars>>

Readline == AskPrompt \/ Erase \/ Insert \/ Ignore \/ EndLine \/ Eof
Poll(r)  == CallGetc(r) \/ (poller = r /\ \E d \in Devices : Intr(d) \/ IntrEnd(d)) \/ Getc(r)

(* What the programs do while the machine runs.                            *)
Reads(r) == ~stopped /\ Poll(r)
Echoes   == ~stopped /\ Readline
Uses(r)  == ~stopped /\ r \in Others /\ Use(r)

ConsoleNext ==
    \/ \E r \in Readers : Reads(r) \/ Uses(r)
    \/ Echoes
    \/ /\ ~stopped
       /\ \/ \E d \in Devices : Interrupt(d) \/ \E c \in Chars \cup {None} : Type(d, c)
          \/ NewShell

(* The readers that are there go on, and so does whoever has the lock.     *)
ConsoleFairness ==
    WF_consoleVars(Echoes) /\ \A r \in Readers : WF_consoleVars(Reads(r)) /\ WF_consoleVars(Uses(r))

ConsoleSpec == ConsoleInit /\ [][ConsoleNext]_consoleVars /\ ConsoleFairness

-----------------------------------------------------------------------------
(* Properties *)

(* readline() never stores past its buffer, nor the ring past its end.     *)
ConsoleTypeOK ==
    /\ dev \in [Devices -> Seq(Chars \cup {None})] /\ \A d \in Devices : Len(dev[d]) <= FIFO
    /\ cons \in [buf : [0..CONSBUFSIZE-1 -> Chars \cup {None}],
                 rpos : 0..CONSBUFSIZE-1, wpos : 0..CONSBUFSIZE-1]
    /\ poller \in Readers \cup {Nothing} /\ todo \subseteq Devices
    /\ has \in [Readers -> Chars \cup {Nothing}]
    /\ line \in Seq(Letters \cup {DEL}) /\ Len(line) < BUFLEN
    /\ asked \in BOOLEAN
    /\ irq \subseteq Devices /\ gone \subseteq Readers /\ stopped \in BOOLEAN
    /\ crt \in [buf : [0..CRT_SIZE-1 -> Chars \cup {Prompt, Blank}], pos : 0..CRT_SIZE-1]

(* The screen shows, up to the cursor, the prompt and the line as it would *)
(* be returned, and nothing after it: whatever is deleted, over the edges  *)
(* of rows and when the screen scrolls in the middle of the line.          *)
EchoExact ==
    asked =>
        LET shown == <<Prompt>> \o line
            start == crt.pos - Len(shown)
        IN  /\ start >= 0
            /\ \A k \in DOMAIN shown : crt.buf[start + k - 1] = shown[k]
            /\ \A k \in crt.pos..CRT_SIZE-1 : crt.buf[k] = Blank

(* Who polls has nothing yet, and the shell reads after its prompt only.   *)
(* Who is destroyed does not poll, or nobody else ever could, and takes    *)
(* what it has with it.                                                    *)
Asking ==
    /\ poller \notin gone
    /\ \A r \in gone : has[r] = Nothing /\ (r = Shell => ~asked)
    /\ poller = Nothing => todo = {}
    /\ poller # Nothing => has[poller] = Nothing /\ (poller = Shell => asked)
    /\ has[Shell] # Nothing => asked
    /\ ~asked => line = << >>

(* What waits in the ring are characters, none of them a key without one.  *)
RingChars == Ring \in Seq(Chars) /\ Len(Ring) = Waiting

ConsoleIInv == ConsoleTypeOK /\ Asking /\ RingChars /\ EchoExact

(* Ring and devices are a queue of characters, each given to one reader.   *)
Input == INSTANCE ConsoleInput WITH queue <- Ring
ImplementsInput == Input!Spec

(* Whatever was typed is taken out of the devices and of the ring, also    *)
(* when nothing more is typed, as long as the interrupts of the keys leave *)
(* one reader.                                                             *)
NobodyReads    == stopped \/ gone = Readers
EverythingRead == []<>(NobodyReads \/ (Ring = << >> /\ \A d \in Devices : dev[d] = << >>))
=============================================================================
