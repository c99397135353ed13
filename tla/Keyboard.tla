-------------------------------- MODULE Keyboard --------------------------------
(***************************************************************************)
(* The keyboard of TP 4 (kbd_proc_data() in kern/console.c): scan codes of *)
(* keys that go down and up become characters.  A key may be two bytes,    *)
(* which two polls may get; what is held down is remembered in bits, one   *)
(* for both keys of a modifier.  The tables are those of the keys below:   *)
(* a letter, the two keys that delete, the modifiers and CapsLock.         *)
(***************************************************************************)
EXTENDS Naturals, Sequences, SequencesExt

CONSTANTS Keys,     \* the keys that are used
          KBDFIFO,  \* the bytes that wait in the keyboard
          MaxDown,  \* bound on the keys that are down at once
          NO,       \* no character
          KEY_DEL

E0 == \hE0

(* What a key sends when it goes down. *)
Codes == [a   |-> <<\h1E>>,      dot  |-> <<\h53>>,     del   |-> <<E0, \h53>>,
          shift |-> <<\h2A>>,    rshift |-> <<\h36>>,   caps  |-> <<\h3A>>,
          ctl |-> <<\h1D>>,      rctl |-> <<E0, \h1D>>,
          alt |-> <<\h38>>,      ralt |-> <<E0, \h38>>]

ASSUME KeyboardAssumption ==
    /\ Keys \subseteq DOMAIN Codes /\ KBDFIFO \in Nat /\ KBDFIFO > 1 /\ MaxDown \in Nat
    /\ NO # KEY_DEL /\ {NO, KEY_DEL} \cap {"a", "A", "ctl-A", "."} = {}

ModifierOf == [k \in {"shift", "rshift", "ctl", "rctl", "alt", "ralt"} |->
                  CASE k \in {"shift", "rshift"} -> "SHIFT"
                    [] k \in {"ctl", "rctl"}     -> "CTL"
                    [] k \in {"alt", "ralt"}     -> "ALT"]
Modifiers  == {"SHIFT", "CTL", "ALT"}
Flags      == Modifiers \cup {"CAPSLOCK", "E0ESC"}

shiftcode  == [d \in 0..255 |-> CASE d \in {\h1D, \h9D} -> {"CTL"}
                                  [] d \in {\h2A, \h36} -> {"SHIFT"}
                                  [] d \in {\h38, \hB8} -> {"ALT"}
                                  [] OTHER              -> {}]
togglecode == [d \in 0..255 |-> IF d = \h3A THEN {"CAPSLOCK"} ELSE {}]
normalmap  == [d \in 0..255 |-> CASE d = \h1E -> "a" [] d = \h53 -> "." [] d = \hD3 -> KEY_DEL
                                  [] OTHER -> NO]
shiftmap   == [normalmap EXCEPT ![\h1E] = "A"]
ctlmap     == [normalmap EXCEPT ![\h1E] = "ctl-A", ![\h53] = NO]

VARIABLES
    down,      \* the keys that are held down
    capslock,  \* whether CapsLock was pressed an odd number of times
    mixed,     \* modifiers both of whose keys were down, until none is
    bytes,     \* what waits: a code, and what the key meant when it was pressed
    shift,     \* the bits that kbd_proc_data() keeps
    got        \* its last answer, with what was meant

keyVars == <<down, capslock, mixed, bytes, shift, got>>

KeyboardInit ==
    /\ down = {} /\ capslock = FALSE /\ mixed = {}
    /\ bytes = << >> /\ shift = {}
    /\ got = [c |-> NO, reboot |-> FALSE, meant |-> NO, mods |-> {}, sure |-> TRUE]

-----------------------------------------------------------------------------
(* The keyboard *)

Held(d)    == {ModifierOf[k] : k \in d \cap DOMAIN ModifierOf}
Twice(d)   == {m \in Modifiers : \E j, k \in d \cap DOMAIN ModifierOf :
                                      j # k /\ ModifierOf[j] = m /\ ModifierOf[k] = m}
MixedIn(d) == (mixed \cup Twice(d)) \cap Held(d)

(* The character that is meant by key k. *)
Meant(k, mods, lock) ==
    CASE k = "a" /\ "CTL" \in mods   -> "ctl-A"
      [] k = "a" /\ "CTL" \notin mods -> IF ("SHIFT" \in mods) # lock THEN "A" ELSE "a"
      [] k = "dot"                   -> IF "CTL" \in mods THEN NO ELSE "."
      [] k = "del"                   -> KEY_DEL
      [] OTHER                       -> NO

(* The codes are tagged with what was meant: NO but for the last one. *)
Sends(codes, meant) ==
    LET n == Len(codes)
        Tag(i) == [code |-> codes[i], meant |-> IF i = n THEN meant ELSE NO,
                   mods |-> Held(down'), sure |-> mixed' = {}]
    IN  /\ Len(bytes) + n <= KBDFIFO
        /\ bytes' = bytes \o [i \in 1..n |-> Tag(i)]

(* A key goes down; or it is down and repeats, CapsLock excepted. *)
Press(k) ==
    /\ k \in down => k # "caps"
    /\ down' = down \cup {k} /\ Cardinality(down') <= MaxDown
    /\ mixed' = MixedIn(down')
    /\ capslock' = IF k = "caps" THEN ~capslock ELSE capslock
    /\ Sends(Codes[k], Meant(k, Held(down'), capslock'))
    /\ UNCHANGED <<shift, got>>

Release(k) ==
    /\ k \in down /\ down' = down \ {k}
    /\ mixed' = MixedIn(down')
    /\ Sends([Codes[k] EXCEPT ![Len(Codes[k])] = @ + 128], NO)
    /\ UNCHANGED <<capslock, shift, got>>

-----------------------------------------------------------------------------
(* kbd_proc_data(), one byte *)

Returns(c, reboot) ==
    LET b == Head(bytes)
    IN  /\ got' = [c |-> c, reboot |-> reboot, meant |-> b.meant, mods |-> b.mods, sure |-> b.sure]
        /\ bytes' = Tail(bytes)
        /\ UNCHANGED <<down, capslock, mixed>>

Escape ==
    /\ bytes # << >> /\ Head(bytes).code = E0
    /\ shift' = shift \cup {"E0ESC"}
    /\ Returns(NO, FALSE)

ReleasedCode(d) == IF "E0ESC" \in shift THEN d ELSE d % 128

Clears(d)    == shiftcode[ReleasedCode(d)] \cup {"E0ESC"}

KeyReleased ==
    /\ bytes # << >> /\ Head(bytes).code # E0 /\ Head(bytes).code >= 128
    /\ shift' = shift \ Clears(Head(bytes).code)
    /\ Returns(NO, FALSE)

charcodeShift(s) == IF "SHIFT" \in s THEN shiftmap ELSE normalmap     \* Mutant: without CTL
charcode(s) == IF "CTL" \in s THEN ctlmap ELSE IF "SHIFT" \in s THEN shiftmap ELSE normalmap

Swapped(c) == IF c = "a" THEN "A" ELSE IF c = "A" THEN "a" ELSE c

Reboots(s, c)    == c = KEY_DEL /\ {"CTL", "ALT"} \subseteq s

KeyPressed ==
    /\ bytes # << >> /\ Head(bytes).code < 128
    /\ LET code == Head(bytes).code
           data == IF "E0ESC" \in shift THEN code + 128 ELSE code
           kept == (shift \ {"E0ESC"}) \cup shiftcode[data]
           c    == charcode(shift')[data]
           char == IF "CAPSLOCK" \in shift' THEN Swapped(c) ELSE c
       IN  /\ shift' = SymDiff(kept, togglecode[data])
           /\ Returns(char, Reboots(shift', char))

KeyboardNext ==
    \/ \E k \in Keys : Press(k) \/ Release(k)
    \/ Escape \/ KeyReleased \/ KeyPressed

KeyboardSpec == KeyboardInit /\ [][KeyboardNext]_keyVars

-----------------------------------------------------------------------------
(* Properties *)

KeyboardTypeOK ==
    /\ down \subseteq Keys /\ capslock \in BOOLEAN /\ mixed \subseteq Modifiers
    /\ Len(bytes) <= KBDFIFO /\ shift \subseteq Flags

(* When all bytes have been taken the bits say what is held down.          *)
BitsRight ==
    bytes = << >> =>
        /\ "E0ESC" \notin shift /\ ("CAPSLOCK" \in shift <=> capslock)
        /\ \A m \in Modifiers \ mixed : m \in shift <=> m \in Held(down)

(* A character is the one that was meant when the key was pressed, however *)
(* late its bytes are taken and whatever was pressed and released since;   *)
(* not so after both keys of a modifier were down and one was released.    *)
AsMeant == got.sure => got.c = got.meant

(* The machine is started again for Ctrl-Alt-Del only.                     *)
OnlyCtrlAltDel == got.reboot /\ got.sure => got.meant = KEY_DEL /\ {"CTL", "ALT"} \subseteq got.mods

KeyboardIInv == KeyboardTypeOK /\ BitsRight /\ AsMeant /\ OnlyCtrlAltDel
=============================================================================
