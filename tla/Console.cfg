CONSTANTS
    Shell = "shell"
    Others <- MCOthers
    Letters <- MCLetters
    Devices <- MCDevices
    First = "serial"
    FIFO = 2
    CONSBUFSIZE = 3
    BUFLEN = 3
    CRT_COLS = 2
    CRT_ROWS = 3
    Cursors <- MCCursors
    MaxTyped = 3
    Keys <- MCKeys
    KBDFIFO = 3
    MaxDown = 3
    NO = NO
    KEY_DEL = KEY_DEL
SPECIFICATION MCSpec
INVARIANTS  KeyboardIInv
PROPERTIES ImplementsInput EverythingRead
CHECK_DEADLOCK FALSE
