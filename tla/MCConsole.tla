-------------------------------- MODULE MCConsole --------------------------------
(* From a key to a program, in two parts: what the keyboard makes of a      *)
(* key (Keyboard), and two devices with two programs that read (Console),  *)
(* where the ring holds two characters, a line two, and the screen three   *)
(* rows of two.  Which part is looked at is chosen at the start.           *)
EXTENDS Console, Keyboard

VARIABLE part

MCKeys == {"a", "dot", "del", "shift", "rshift", "caps", "ctl", "rctl", "alt"}

MCOthers  == {"prog"}
MCLetters == {"x"}
MCDevices == {"serial", "kbd"}
MCCursors == {4}

MCInit == part \in {"keyboard", "console"} /\ ConsoleInit /\ KeyboardInit

MCNext ==
    /\ UNCHANGED part
    /\ \/ part = "keyboard" /\ KeyboardNext /\ UNCHANGED consoleVars
       \/ part = "console" /\ ConsoleNext /\ UNCHANGED keyVars

ConsoleGoes(step) == part = "console" /\ step

MCFairness ==
    /\ WF_consoleVars(ConsoleGoes(Echoes))
    /\ \A r \in Readers :
          WF_consoleVars(ConsoleGoes(Reads(r))) /\ WF_consoleVars(ConsoleGoes(Uses(r)))

MCSpec == MCInit /\ [][MCNext]_<<part, consoleVars, keyVars>> /\ MCFairness
=============================================================================
