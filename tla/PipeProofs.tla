------------------------------- MODULE PipeProofs -------------------------------
(***************************************************************************)
(* Theorems about Pipe: its bytes are those of ByteStream, for every       *)
(* number of environments, processors and descriptors, every size of the   *)
(* buffer and every amount of bytes, while anybody forks, duplicates,      *)
(* closes or dies.  The invariant says of each of the two ends where its   *)
(* owner may be, and what it has already done to its side of the ring.     *)
(*                                                                         *)
(* The second half is about the counts of references: what a fork() half   *)
(* done has given its child, and that on one processor pipeisclosed() is   *)
(* right.                                                                  *)
(***************************************************************************)
EXTENDS Pipe, FiniteSetTheorems, TLAPS

-----------------------------------------------------------------------------
(* Places of the ring. *)

LEMMA Grows ==
    ASSUME NEW S \in Nat \ {0}, NEW q \in Int, q >= 1
    PROVE  q * S >= S
OBVIOUS

LEMMA Residue ==
    ASSUME NEW S \in Nat \ {0}, NEW i \in Nat
    PROVE  /\ i % S \in 0..(S-1)
           /\ i \div S \in Int
           /\ i = S * (i \div S) + (i % S)
OBVIOUS

(* Two bytes that are less than the size apart are at different places. *)
LEMMA Apart ==
    ASSUME NEW S \in Nat \ {0}, NEW i \in Nat, NEW j \in Nat, i < j, j < i + S
    PROVE  i % S # j % S
<1> SUFFICES ASSUME i % S = j % S PROVE FALSE
  OBVIOUS
<1> DEFINE p == i \div S
           q == j \div S
           r == i % S
<1>1. p \in Int /\ q \in Int /\ i = S * p + r /\ j = S * q + r /\ r \in Int
  BY Residue
<1> HIDE DEF p, q, r
<1>2. j - i = S * (q - p)
  BY <1>1
<1>3. CASE q - p >= 1
  BY <1>1, <1>2, <1>3, Grows
<1>4. CASE q - p <= 0
  <2>1. S * (q - p) <= 0
    BY <1>1, <1>4
  <2> QED
    BY <1>2, <2>1
<1> QED
  BY <1>1, <1>3, <1>4

-----------------------------------------------------------------------------
(* The invariant *)

Reading == {"read", "take", "taken"}
Writing == {"write", "store", "stored"}

Values ==
    /\ rpos \in Nat /\ wpos \in Nat
    /\ buf \in [0..SIZE-1 -> Nat] /\ got \in Seq(Nat)
    /\ left \in [Envs -> Nat]
    /\ pc = [e \in Envs |-> pc[e]] /\ op = [e \in Envs |-> op[e]]

(* Only the owner of an end is in the loop of devpipe_read() or            *)
(* devpipe_write(), and comes back to it from _pipeisclosed().             *)
Owners ==
    \A e \in Envs :
        /\ op[e] = "read" => e = Reader
        /\ op[e] = "write" => e = Writer
        /\ pc[e] \in Reading => op[e] = "read"
        /\ pc[e] \in Writing => op[e] = "write"
        /\ pc[e] \in {"fd", "data"} => op[e] \in {"read", "write", "check"}

(* What the writer still has to write has room under the bound. *)
WithinLimit == op[Writer] = "write" => left[Writer] >= 1 /\ wpos + left[Writer] <= Limit

(* The reader is ahead of rpos between its two stores, and for ever if it  *)
(* dies there.                                                             *)
ReaderSide ==
    /\ pc[Reader] = "taken" => Len(got) = rpos + 1
    /\ pc[Reader] = "dead" => Len(got) \in {rpos, rpos + 1}
    /\ pc[Reader] \notin {"taken", "dead"} => Len(got) = rpos
    /\ pc[Reader] \in {"take", "taken"} => rpos < wpos

(* A test of the writer stays true until it acts on it: only it takes room *)
(* away.                                                                   *)
WriterSide ==
    /\ pc[Writer] \in {"store", "stored"} => wpos < rpos + SIZE
    /\ pc[Writer] = "stored" => buf[wpos % SIZE] = wpos + 1

PInv == Values /\ Owners /\ WithinLimit /\ ReaderSide /\ WriterSide /\ RingHolds

LEMMA InitPInv == Init => PInv
<1> SUFFICES ASSUME Init PROVE PInv
  OBVIOUS
<1> USE SizeAssumption, EnvsAssumption
<1>1. Values
  BY DEF Init, Values
<1>2. Owners /\ WithinLimit
  BY DEF Init, Owners, WithinLimit, Reading, Writing
<1>3. ReaderSide /\ WriterSide /\ RingHolds
  BY DEF Init, ReaderSide, WriterSide, RingHolds
<1> QED
  BY <1>1, <1>2, <1>3 DEF PInv

-----------------------------------------------------------------------------
(* Steps that leave the ring and what was got alone *)

(* One environment goes from one point to another, or dies. *)
Moves(e) ==
    /\ pc'   = [pc EXCEPT ![e] = pc'[e]]
    /\ op'   = [op EXCEPT ![e] = op'[e]]
    /\ left' = [left EXCEPT ![e] = left'[e]]

(* What has to be true of the point it goes to. *)
Arrives(e) ==
    /\ left'[e] \in Nat
    /\ op'[e] = "read" => e = Reader
    /\ op'[e] = "write" => e = Writer
                           /\ left'[e] >= 1 /\ wpos + left'[e] <= Limit
    /\ pc'[e] \in Reading => op'[e] = "read"
    /\ pc'[e] \in Writing => op'[e] = "write"
    /\ pc'[e] \in {"fd", "data"} => op'[e] \in {"read", "write", "check"}
    /\ pc'[e] \notin {"taken", "stored"}
    /\ pc[e] \in {"taken", "dead"} => pc'[e] = "dead"
    /\ pc'[e] = "take" => rpos < wpos
    /\ pc'[e] = "store" => wpos < rpos + SIZE

LEMMA Quiet ==
    ASSUME PInv, UNCHANGED pipeVars, NEW e \in Envs, Moves(e), Arrives(e)
    PROVE  PInv'
<1> USE SizeAssumption, EnvsAssumption DEF PInv, pipeVars, Moves, Arrives
<1>1. Values'
  BY DEF Values
<1>2. Owners'
  BY DEF Values, Owners, Reading, Writing
<1>3. WithinLimit'
  BY DEF Values, WithinLimit
<1>4. ReaderSide'
  BY DEF Values, Owners, ReaderSide, Reading, Writing
<1>5. WriterSide'
  BY DEF Values, Owners, WriterSide, Reading, Writing
<1>6. RingHolds'
  BY DEF RingHolds
<1> QED
  BY <1>1, <1>2, <1>3, <1>4, <1>5, <1>6

LEMMA Still ==
    ASSUME PInv, UNCHANGED <<pipeVars, pc, op, left>>
    PROVE  PInv'
BY DEF PInv, Values, Owners, WithinLimit, ReaderSide, WriterSide, RingHolds,
       Reading, Writing, pipeVars

LEMMA Calling ==
    ASSUME PInv, NEW e \in Envs, NEW name, NEW x, NEW n \in Nat, NEW k, NEW point,
           Call(e, name, x, n, k, point),
           name = "read" => e = Reader,
           name = "write" => e = Writer /\ n >= 1 /\ wpos + n <= Limit,
           point \in {"read", "write", "fd", "unmap_fd", "map_data", "share"},
           point = "read" => name = "read",
           point = "write" => name = "write",
           point = "fd" => name = "check"
    PROVE  PInv' /\ UNCHANGED <<wpos, got>>
<1>1. UNCHANGED pipeVars /\ Moves(e) /\ Arrives(e)
  BY DEF Call, At, Goto, PInv, Values, Moves, Arrives, Reading, Writing
<1> QED
  BY <1>1, Quiet DEF pipeVars

LEMMA BeginQuiet ==
    ASSUME PInv, NEW e \in Envs, Begin(e)
    PROVE  PInv' /\ UNCHANGED <<wpos, got>>
<1>1. CASE CallRead(e, 2)
  BY <1>1, Calling DEF CallRead
<1>2. ASSUME NEW n \in 1..2, CallWrite(e, n)
      PROVE  PInv' /\ UNCHANGED <<wpos, got>>
  BY <1>2, Calling DEF CallWrite
<1>3. ASSUME NEW x \in Ends, CallCheck(e, x)
      PROVE  PInv' /\ UNCHANGED <<wpos, got>>
  BY <1>3, Calling DEF CallCheck
<1>4. ASSUME NEW x \in Ends, CallClose(e, x)
      PROVE  PInv' /\ UNCHANGED <<wpos, got>>
  BY <1>4, Calling DEF CallClose
<1>5. ASSUME NEW x \in Ends, CallDup(e, x)
      PROVE  PInv' /\ UNCHANGED <<wpos, got>>
  BY <1>5, Calling DEF CallDup
<1>6. ASSUME NEW k \in Envs, CallFork(e, k)
      PROVE  PInv' /\ UNCHANGED <<wpos, got>>
  BY <1>6, Calling DEF CallFork, MakeChild
<1> QED
  BY <1>1, <1>2, <1>3, <1>4, <1>5, <1>6 DEF Begin

(* The end of a call, whatever it was, and the end of an environment. *)
LEMMA Ending ==
    ASSUME PInv, NEW e \in Envs, NEW point \in {"idle", "dead"}, End(e, point),
           UNCHANGED pipeVars, pc[e] \in {"taken", "dead"} => point = "dead"
    PROVE  PInv' /\ UNCHANGED <<wpos, got>>
<1>1. Moves(e) /\ Arrives(e)
  BY DEF End, Goto, PInv, Values, Moves, Arrives, Reading, Writing
<1> QED
  BY <1>1, Quiet DEF pipeVars

(* A test that leads to the next point of the same call. *)
LEMMA Going ==
    ASSUME PInv, NEW e \in Envs, NEW point, Goto(e, point), UNCHANGED <<pipeVars, callVars>>,
           point \notin {"taken", "stored"}, pc[e] \notin {"taken", "dead"},
           point \in Reading => op[e] = "read",
           point \in Writing => op[e] = "write",
           point \in {"fd", "data"} => op[e] \in {"read", "write", "check"},
           point = "take" => rpos < wpos,
           point = "store" => wpos < rpos + SIZE
    PROVE  PInv' /\ UNCHANGED <<wpos, got>>
<1>1. Moves(e) /\ Arrives(e)
  BY DEF Goto, callVars, PInv, Values, Owners, WithinLimit, Moves, Arrives
<1> QED
  BY <1>1, Quiet DEF pipeVars

LEMMA TestsQuiet ==
    ASSUME PInv, NEW e \in Envs, ReadTest(e) \/ WriteTest(e)
    PROVE  PInv' /\ UNCHANGED <<wpos, got>>
<1> USE SizeAssumption DEF PInv, Values, Reading, Writing, At
<1>1. CASE ReadTest(e)
  <2>1. pc[e] = "read" /\ op[e] = "read" /\ UNCHANGED pipeVars
    BY <1>1 DEF ReadTest, Owners
  <2>2. CASE rpos # wpos /\ Goto(e, "take") /\ UNCHANGED callVars
    <3>1. rpos < wpos
      BY <2>2 DEF RingHolds
    <3> QED
      BY <2>1, <2>2, <3>1, Going
  <2>3. CASE Return(e)
    BY <2>1, <2>3, Ending DEF Return
  <2>4. CASE Goto(e, "fd") /\ UNCHANGED callVars
    BY <2>1, <2>4, Going
  <2> QED
    BY <1>1, <2>2, <2>3, <2>4 DEF ReadTest
<1>2. CASE WriteTest(e)
  <2>1. /\ pc[e] = "write" /\ op[e] = "write" /\ UNCHANGED <<pipeVars, callVars>>
        /\ Goto(e, IF Full THEN "fd" ELSE "store")
    BY <1>2 DEF WriteTest, Owners
  <2>2. CASE Full
    BY <2>1, <2>2, Going
  <2>3. CASE ~Full
    <3>1. wpos < rpos + SIZE
      BY <2>3 DEF Full
    <3>2. Goto(e, "store")
      BY <2>1, <2>3
    <3> QED
      BY <2>1, <3>1, <3>2, Going
  <2> QED
    BY <2>2, <2>3
<1> QED
  BY <1>1, <1>2

LEMMA CountsQuiet ==
    ASSUME PInv, NEW e \in Envs, ReadFdRef(e) \/ ReadDataRef(e)
    PROVE  PInv' /\ UNCHANGED <<wpos, got>>
<1> USE DEF PInv, Reading, Writing, At
<1>1. CASE ReadFdRef(e)
  <2>1. /\ pc[e] = "fd" /\ op[e] \in {"read", "write", "check"}
        /\ UNCHANGED <<pipeVars, callVars>> /\ Goto(e, "data")
    BY <1>1 DEF ReadFdRef, Owners
  <2> QED
    BY <2>1, Going
<1>2. CASE ReadDataRef(e)
  <2>1. pc[e] = "data" /\ op[e] \in {"read", "write", "check"} /\ UNCHANGED pipeVars
    BY <1>2 DEF ReadDataRef, Owners
  <2>2. CASE Goto(e, "fd") /\ UNCHANGED callVars
    BY <2>1, <2>2, Going
  <2>3. CASE Return(e)
    BY <2>1, <2>3, Ending DEF Return
  <2>4. CASE op[e] # "check" /\ Goto(e, op[e]) /\ UNCHANGED callVars
    BY <2>1, <2>4, Going
  <2> QED
    BY <1>2, <2>2, <2>3, <2>4 DEF ReadDataRef
<1> QED
  BY <1>1, <1>2

LEMMA MappingsQuiet ==
    ASSUME PInv, NEW e \in Envs,
           \/ UnmapFd(e) \/ UnmapData(e) \/ MapData(e) \/ MapFd(e)
           \/ ShareFd(e) \/ ShareData(e) \/ Start(e)
    PROVE  PInv' /\ UNCHANGED <<wpos, got>>
<1> USE DEF At, Reading, Writing, pipeVars
<1>1. CASE UnmapFd(e)
  BY <1>1, Going DEF UnmapFd
<1>2. CASE UnmapData(e)
  BY <1>2, Ending DEF UnmapData, Return
<1>3. CASE MapData(e)
  BY <1>3, Going DEF MapData
<1>4. CASE MapFd(e)
  BY <1>4, Ending DEF MapFd, Return
<1>5. CASE ShareFd(e) \/ ShareData(e)
  BY <1>5, Still DEF ShareFd, ShareData, callVars
<1>6. CASE Start(e)
  BY <1>6, Ending DEF Start, Return
<1> QED
  BY <1>1, <1>2, <1>3, <1>4, <1>5, <1>6

LEMMA OthersQuiet ==
    ASSUME PInv, NEW e \in Envs, Dispatch(e) \/ Die(e)
    PROVE  PInv' /\ UNCHANGED <<wpos, got>>
<1>1. CASE Dispatch(e)
  BY <1>1, Still DEF Dispatch, callVars, pipeVars
<1>2. CASE Die(e)
  BY <1>2, Ending DEF Die
<1> QED
  BY <1>1, <1>2

-----------------------------------------------------------------------------
(* The four steps on the ring *)

(* The byte that is taken is the next one: the writer has not come round   *)
(* to its place again.                                                     *)
LEMMA TakeStep ==
    ASSUME PInv, NEW e \in Envs, Take(e)
    PROVE  /\ PInv'
           /\ Len(got) = rpos /\ rpos < wpos
           /\ got' = Append(got, rpos + 1) /\ wpos' = wpos
<1> USE SizeAssumption, EnvsAssumption DEF PInv
<1>1. pc[e] = "take" /\ op[e] = "read" /\ e = Reader
  BY DEF Take, At, Owners, Reading
<1>2. Len(got) = rpos /\ rpos < wpos
  BY <1>1 DEF ReaderSide
<1>3. buf[rpos % SIZE] = rpos + 1
  <2>1. rpos \in rpos..wpos-1
    BY <1>2 DEF Values
  <2> QED
    BY <2>1 DEF RingHolds
<1>4. got' = Append(got, rpos + 1)
  BY <1>3 DEF Take
<1>5. /\ UNCHANGED <<rpos, wpos, buf, op, left>>
      /\ pc' = [pc EXCEPT ![e] = "taken"]
  BY DEF Take, Goto, callVars
<1>6. got' \in Seq(Nat) /\ Len(got') = rpos + 1
  BY <1>2, <1>4 DEF Values
<1>7. Values' /\ Owners' /\ WithinLimit'
  BY <1>1, <1>5, <1>6 DEF Values, Owners, WithinLimit, Reading, Writing
<1>8. ReaderSide'
  BY <1>1, <1>2, <1>5, <1>6 DEF Values, ReaderSide
<1>9. WriterSide' /\ RingHolds'
  BY <1>1, <1>5 DEF Values, WriterSide, RingHolds
<1> QED
  BY <1>2, <1>4, <1>5, <1>7, <1>8, <1>9

(* What the end of a turn leaves of the call, and where it goes. *)
LEMMA TurnStep ==
    ASSUME PInv, NEW e \in Envs, Turn(e), op[e] \in {"read", "write"}
    PROVE  \/ /\ pc' = [pc EXCEPT ![e] = "idle"] /\ op' = [op EXCEPT ![e] = "none"]
              /\ left' = [left EXCEPT ![e] = 0]
           \/ /\ pc' = [pc EXCEPT ![e] = op[e]] /\ op' = op
              /\ left[e] > 1 /\ left' = [left EXCEPT ![e] = left[e] - 1]
BY DEF Turn, Return, End, Goto

LEMMA TakenStep ==
    ASSUME PInv, NEW e \in Envs, Taken(e)
    PROVE  PInv' /\ UNCHANGED <<wpos, got>>
<1> USE SizeAssumption, EnvsAssumption DEF PInv
<1>1. pc[e] = "taken" /\ op[e] = "read" /\ e = Reader
  BY DEF Taken, At, Owners, Reading
<1>2. Len(got) = rpos + 1 /\ rpos < wpos
  BY <1>1 DEF ReaderSide
<1>3. UNCHANGED <<wpos, buf, got>> /\ rpos' = rpos + 1 /\ Turn(e)
  BY DEF Taken
<1>4. \/ /\ pc' = [pc EXCEPT ![e] = "idle"] /\ op' = [op EXCEPT ![e] = "none"]
         /\ left' = [left EXCEPT ![e] = 0]
      \/ /\ pc' = [pc EXCEPT ![e] = "read"] /\ op' = op
         /\ left[e] > 1 /\ left' = [left EXCEPT ![e] = left[e] - 1]
  BY <1>1, <1>3, TurnStep
<1>5. Values'
  <2>1. left' \in [Envs -> Nat]
    <3>1. left \in [Envs -> Nat]
      BY DEF Values
    <3>2. \/ left' = [left EXCEPT ![e] = 0]
          \/ left[e] > 1 /\ left' = [left EXCEPT ![e] = left[e] - 1]
      BY <1>4
    <3> QED
      BY <3>1, <3>2
  <2>2. pc' = [d \in Envs |-> pc'[d]] /\ op' = [d \in Envs |-> op'[d]]
    BY <1>4 DEF Values
  <2> QED
    BY <1>3, <2>1, <2>2, SMTT(20) DEF Values
<1>6. Owners' /\ WithinLimit'
  BY <1>1, <1>3, <1>4 DEF Values, Owners, WithinLimit, Reading, Writing
<1>7. ReaderSide'
  BY <1>1, <1>2, <1>3, <1>4 DEF Values, ReaderSide
<1>8. WriterSide'
  BY <1>1, <1>3, <1>4 DEF Values, WriterSide
<1>9. RingHolds'
  BY <1>2, <1>3, SMTT(20) DEF Values, RingHolds
<1> QED
  BY <1>3, <1>5, <1>6, <1>7, <1>8, <1>9

(* A byte is stored where no byte is under way. *)
LEMMA StoreStep ==
    ASSUME PInv, NEW e \in Envs, Store(e)
    PROVE  PInv' /\ UNCHANGED <<wpos, got>>
<1> USE SizeAssumption, EnvsAssumption DEF PInv
<1>1. pc[e] = "store" /\ op[e] = "write" /\ e = Writer
  BY DEF Store, At, Owners, Writing
<1>2. wpos < rpos + SIZE
  BY <1>1 DEF WriterSide
<1>3. /\ UNCHANGED <<rpos, wpos, got, op, left>>
      /\ buf' = [buf EXCEPT ![wpos % SIZE] = wpos + 1]
      /\ pc' = [pc EXCEPT ![e] = "stored"]
  BY DEF Store, Goto, callVars
<1>4. wpos % SIZE \in 0..SIZE-1
  BY Residue DEF Values
<1>5. Values'
  <2>1. buf' \in [0..SIZE-1 -> Nat]
    BY <1>3, SMTT(20) DEF Values
  <2> QED
    BY <1>3, <2>1 DEF Values
<1>6. Owners' /\ WithinLimit'
  BY <1>1, <1>3 DEF Values, Owners, WithinLimit, Reading, Writing
<1>7. ReaderSide'
  BY <1>1, <1>3 DEF Values, ReaderSide
<1>8. WriterSide'
  <2>1. buf'[wpos % SIZE] = wpos + 1
    BY <1>3, <1>4 DEF Values
  <2> QED
    BY <1>1, <1>2, <1>3, <2>1 DEF Values, WriterSide
<1>9. RingHolds'
  <2>1. ASSUME NEW i \in rpos..wpos-1
        PROVE  buf'[i % SIZE] = i + 1
    <3>1. i \in Nat /\ i < wpos /\ wpos < i + SIZE
      BY <1>2 DEF Values
    <3>2. i % SIZE # wpos % SIZE
      BY <3>1, Apart DEF Values
    <3>3. i % SIZE \in 0..SIZE-1
      BY <3>1, Residue
    <3>4. buf[i % SIZE] = i + 1
      BY DEF RingHolds
    <3> QED
      BY <1>3, <3>2, <3>3, <3>4 DEF Values
  <2> QED
    BY <1>3, <2>1 DEF RingHolds
<1> QED
  BY <1>3, <1>5, <1>6, <1>7, <1>8, <1>9

LEMMA StoredStep ==
    ASSUME PInv, NEW e \in Envs, Stored(e)
    PROVE  /\ PInv'
           /\ wpos - Len(got) < SIZE /\ wpos + 1 \in 1..Limit
           /\ wpos' = wpos + 1 /\ got' = got
<1> USE SizeAssumption, EnvsAssumption DEF PInv
<1>1. pc[e] = "stored" /\ op[e] = "write" /\ e = Writer
  BY DEF Stored, At, Owners, Writing
<1>2. wpos < rpos + SIZE /\ buf[wpos % SIZE] = wpos + 1
  BY <1>1 DEF WriterSide
<1>3. UNCHANGED <<rpos, buf, got>> /\ wpos' = wpos + 1 /\ Turn(e)
  BY DEF Stored
<1>4. \/ /\ pc' = [pc EXCEPT ![e] = "idle"] /\ op' = [op EXCEPT ![e] = "none"]
         /\ left' = [left EXCEPT ![e] = 0]
      \/ /\ pc' = [pc EXCEPT ![e] = "write"] /\ op' = op
         /\ left[e] > 1 /\ left' = [left EXCEPT ![e] = left[e] - 1]
  BY <1>1, <1>3, TurnStep
<1>5. Values'
  <2>1. left' \in [Envs -> Nat]
    <3>1. left \in [Envs -> Nat]
      BY DEF Values
    <3>2. \/ left' = [left EXCEPT ![e] = 0]
          \/ left[e] > 1 /\ left' = [left EXCEPT ![e] = left[e] - 1]
      BY <1>4
    <3> QED
      BY <3>1, <3>2
  <2>2. pc' = [d \in Envs |-> pc'[d]] /\ op' = [d \in Envs |-> op'[d]]
    BY <1>4 DEF Values
  <2> QED
    BY <1>3, <2>1, <2>2 DEF Values
<1>6. Owners' /\ WithinLimit'
  BY <1>1, <1>3, <1>4 DEF Values, Owners, WithinLimit, Reading, Writing
<1>7. ReaderSide'
  BY <1>1, <1>3, <1>4 DEF Values, ReaderSide
<1>8. WriterSide'
  BY <1>1, <1>3, <1>4 DEF Values, WriterSide
<1>9. RingHolds'
  <2>1. rpos \in Nat /\ wpos \in Nat
    BY DEF Values
  <2>2. ASSUME NEW i \in rpos..wpos
        PROVE  buf[i % SIZE] = i + 1
    <3>1. i \in rpos..wpos-1 \/ i = wpos
      BY <2>1
    <3> QED
      BY <1>2, <3>1 DEF RingHolds
  <2>3. rpos <= wpos + 1 /\ wpos + 1 <= rpos + SIZE
    BY <1>2, <2>1 DEF RingHolds
  <2>4. rpos..wpos'-1 = rpos..wpos
    BY <1>3, <2>1
  <2> QED
    BY <1>3, <2>2, <2>3, <2>4 DEF RingHolds
<1>10. wpos - Len(got) < SIZE /\ wpos + 1 \in 1..Limit
  <2>1. rpos \in Nat /\ wpos \in Nat /\ left[e] \in Nat /\ Limit \in Nat
    BY DEF Values
  <2>2. Len(got) = rpos \/ Len(got) = rpos + 1
    BY DEF ReaderSide
  <2>3. left[e] >= 1 /\ wpos + left[e] <= Limit
    BY <1>1 DEF WithinLimit
  <2> QED
    BY <1>2, <2>1, <2>2, <2>3
<1> QED
  BY <1>3, <1>5, <1>6, <1>7, <1>8, <1>9, <1>10

-----------------------------------------------------------------------------
(* What a step means for the stream *)

Silent == UNCHANGED <<wpos, got>>
Gets   == /\ Len(got) < wpos
          /\ got' = Append(got, Len(got) + 1) /\ wpos' = wpos
Puts   == /\ wpos - Len(got) < SIZE /\ wpos + 1 \in 1..Limit
          /\ wpos' = wpos + 1 /\ got' = got

LEMMA NextStep ==
    ASSUME PInv, Next
    PROVE  PInv' /\ (Silent \/ Gets \/ Puts)
<1>1. PICK e \in Envs : Begin(e) \/ Continue(e) \/ Dispatch(e) \/ Die(e)
  BY DEF Next
<1>2. CASE Begin(e)
  BY <1>2, BeginQuiet DEF Silent
<1>3. CASE Continue(e)
  <2>1. CASE Take(e)
    BY <2>1, TakeStep DEF Gets
  <2>2. CASE Stored(e)
    BY <2>2, StoredStep DEF Puts
  <2>3. CASE Taken(e)
    BY <2>3, TakenStep DEF Silent
  <2>4. CASE Store(e)
    BY <2>4, StoreStep DEF Silent
  <2>5. CASE ReadTest(e) \/ WriteTest(e)
    BY <2>5, TestsQuiet DEF Silent
  <2>6. CASE ReadFdRef(e) \/ ReadDataRef(e)
    BY <2>6, CountsQuiet DEF Silent
  <2> QED
    BY <1>3, <2>1, <2>2, <2>3, <2>4, <2>5, <2>6, MappingsQuiet DEF Continue, Silent
<1>4. CASE Dispatch(e) \/ Die(e)
  BY <1>4, OthersQuiet DEF Silent
<1> QED
  BY <1>1, <1>2, <1>3, <1>4

(* Wherever the two ends and everybody who shares them are: the ring holds *)
(* the bytes under way, each at its place, and never more than fit.        *)
THEOREM RingInvariance == Spec => []RingHolds
<1>1. PInv /\ [Next]_vars => PInv'
  BY NextStep, Still DEF vars, callVars
<1>2. PInv => RingHolds
  BY DEF PInv
<1> QED
  BY InitPInv, <1>1, <1>2, PTL DEF Spec

-----------------------------------------------------------------------------
(* The stream *)

Written(n) == [i \in 1..n |-> i]

LEMMA WrittenOne ==
    ASSUME NEW n \in Nat
    PROVE  /\ Written(n) \in Seq(Nat) /\ Len(Written(n)) = n
           /\ \A i \in 1..n : Written(n)[i] = i
           /\ Written(n + 1) = Append(Written(n), n + 1)
<1>1. Written(n) \in Seq(Nat) /\ Len(Written(n)) = n
  BY DEF Written
<1>2. \A i \in 1..n : Written(n)[i] = i
  BY DEF Written
<1>3. Written(n + 1) = Append(Written(n), n + 1)
  BY DEF Written
<1> QED
  BY <1>1, <1>2, <1>3

(* Every byte comes out once, in the order in which it went in, and none   *)
(* is overwritten before it is got, for every size of the buffer, although *)
(* no lock protects the two positions, and whoever dies in between.        *)
THEOREM Implementation == Spec => ImplementsByteStream
<1>1. Init => Stream!Init
  BY DEF Init, Stream!Init
<1>2. PInv /\ [Next]_vars => [Stream!Next]_(Stream!svars)
  <2> SUFFICES ASSUME PInv, [Next]_vars
               PROVE  [Stream!Next]_(Stream!svars)
    OBVIOUS
  <2>1. Silent \/ Gets \/ Puts
    BY NextStep DEF vars, pipeVars, Silent
  <2>2. CASE Silent
    BY <2>2 DEF Silent, Stream!svars
  <2>3. ASSUME Gets PROVE Stream!Next
    <3>1. wpos \in Nat /\ Len(got) \in Nat
      BY DEF PInv, Values
    <3>2. Len(Written(wpos)) = wpos /\ Written(wpos)[Len(got) + 1] = Len(got) + 1
      <4>1. Len(Written(wpos)) = wpos /\ \A i \in 1..wpos : Written(wpos)[i] = i
        BY <3>1, WrittenOne, Zenon
      <4>2. Len(got) + 1 \in 1..wpos
        BY <2>3, <3>1 DEF Gets
      <4> QED
        BY <4>1, <4>2
    <3>3. Stream!Get
      BY <2>3, <3>2 DEF Gets, Stream!Get, Written
    <3> QED
      BY <3>3 DEF Stream!Next
  <2>4. ASSUME Puts PROVE Stream!Next
    <3>1. wpos \in Nat
      BY DEF PInv, Values
    <3>2. Len(Written(wpos)) = wpos /\ Written(wpos') = Append(Written(wpos), wpos + 1)
      BY <2>4, <3>1, WrittenOne DEF Puts
    <3>3. Stream!Put(wpos + 1)
      BY <2>4, <3>2 DEF Puts, Stream!Put, Written
    <3> QED
      BY <2>4, <3>3 DEF Puts, Stream!Next, Stream!Put
  <2> QED
    BY <2>1, <2>2, <2>3, <2>4
<1>3. PInv /\ [Next]_vars => PInv'
  BY NextStep, Still DEF vars, callVars
<1> QED
  BY InitPInv, <1>1, <1>2, <1>3, PTL DEF Spec, ImplementsByteStream, Stream!Spec

-----------------------------------------------------------------------------
(* The counts *)

Points == {"idle", "read", "take", "taken", "write", "store", "stored",
           "fd", "data", "unmap_fd", "unmap_data", "map_data", "map_fd", "share", "dead"}
Calls  == {"none", "read", "write", "check", "close", "dup", "fork"}

CountTypes ==
    /\ fds \in [Envs -> [Ends -> Nat]] /\ data \in [Envs -> Nat]
    /\ \A e \in Envs : data[e] <= MAXFD
    /\ started \subseteq Envs /\ running \subseteq started
    /\ pc \in [Envs -> Points] /\ op \in [Envs -> Calls]
    /\ end \in [Envs -> Ends] /\ kid \in [Envs -> Envs]

(* Only one that is in the middle of fork() has a child that is not yet    *)
(* runnable, and nobody else is making the same one.                       *)
Kids ==
    /\ \A e \in Envs : kid[e] # e <=> pc[e] = "share"
    /\ \A e \in Envs : pc[e] = "share" => e \in started /\ kid[e] \notin started
    /\ \A d, e \in Envs : d # e /\ pc[d] = "share" /\ pc[e] = "share" => kid[d] # kid[e]

IsKid(k) == \E d \in Envs \ {k} : kid[d] = k

(* One that was never started has done nothing and, until somebody makes   *)
(* it, has nothing.                                                        *)
Unborn ==
    \A e \in Envs \ started :
        /\ pc[e] = "idle"
        /\ ~IsKid(e) => \A x \in Ends : fds[e][x] = 0 /\ data[e] = 0

(* A child never has more than the one that makes it. *)
Shared ==
    \A e \in Envs : pc[e] = "share" =>
        /\ data[kid[e]] <= data[e]
        /\ \A x \in Ends : fds[kid[e]][x] <= fds[e][x]

(* The descriptor that a call is about stays open until the call closes it. *)
Holds ==
    \A e \in Envs : pc[e] \notin {"idle", "unmap_data", "share", "dead"} =>
        fds[e][end[e]] > 0

(* dup() has found a free descriptor. *)
HasRoom == \A e \in Envs : pc[e] = "map_data" => fds[e]["r"] + fds[e]["w"] < MAXFD

(* DataCoversEnds, said of one environment. *)
Covered(e) ==
    data[e] = fds[e]["r"] + fds[e]["w"]
              + (IF pc[e] \in {"unmap_data", "map_fd"} THEN 1 ELSE 0)
Covers == \A e \in Envs : ~IsKid(e) => Covered(e)

(* While an environment makes a child no third one has an end it has.      *)
Alone ==
    \A m \in Envs : pc[m] = "share" =>
        \A d \in Envs \ {m, kid[m]}, x \in Ends : fds[m][x] > 0 => fds[d][x] = 0

CInv == CountTypes /\ Kids /\ Unborn /\ Shared /\ Holds /\ HasRoom /\ Covers /\ Alone

LEMMA InitCInv == Init => CInv
<1> SUFFICES ASSUME Init PROVE CInv
  OBVIOUS
<1> USE EnvsAssumption, MaxfdAssumption
<1>1. CountTypes
  BY DEF Init, CountTypes, Points, Calls, Ends
<1>2. \A e \in Envs : pc[e] = "idle" /\ kid[e] = e /\ ~IsKid(e)
  BY DEF Init, IsKid
<1>3. Kids /\ Shared /\ Holds /\ HasRoom /\ Alone
  BY <1>2 DEF Kids, Shared, Holds, HasRoom, Alone
<1>4. Unborn /\ Covers
  BY <1>2 DEF Init, Unborn, Covers, Covered, Ends
<1> QED
  BY <1>1, <1>3, <1>4 DEF CInv

(* Outside of the two steps in the middle of close() and dup(). *)
Between == {"unmap_data", "map_fd"}

(* A step within a call, to a point where no mapping is due. *)
LEMMA MoveStep ==
    ASSUME CInv, NEW e \in Envs, e \in started, NEW point \in Points,
           UNCHANGED <<fds, data, started, kid>>, running' \subseteq started,
           pc' = [pc EXCEPT ![e] = point],
           op' \in [Envs -> Calls],
           end'[e] \in Ends, end' = [end EXCEPT ![e] = end'[e]],
           point \notin {"share"} \cup Between, pc[e] \notin {"share"} \cup Between,
           point = "map_data" => fds[e]["r"] + fds[e]["w"] < MAXFD,
           point \notin {"idle", "dead"} => fds[e][end'[e]] > 0
    PROVE  CInv'
<1> USE DEF CInv, CountTypes
<1>1. CountTypes'
  <2>1. pc' \in [Envs -> Points] /\ end' \in [Envs -> Ends]
    OBVIOUS
  <2> QED
    BY <2>1
<1>2. Kids' /\ \A k \in Envs : IsKid(k)' = IsKid(k)
  BY DEF Kids, IsKid
<1>3. Unborn' /\ Shared' /\ Alone'
  BY <1>2 DEF Unborn, Shared, Alone
<1>4. Holds' /\ HasRoom'
  BY DEF Holds, HasRoom
<1>5. Covers'
  BY <1>2 DEF Covers, Covered, Between
<1> QED
  BY <1>1, <1>2, <1>3, <1>4, <1>5

(* Nobody is making one that runs. *)
LEMMA Grown ==
    ASSUME CInv, NEW e \in started
    PROVE  ~IsKid(e) /\ Covered(e)
BY DEF CInv, CountTypes, IsKid, Kids, Covers

LEMMA UnmapFdStep ==
    ASSUME CInv, NEW e \in Envs, UnmapFd(e)
    PROVE  CInv'
<1> USE DEF CInv, CountTypes
<1>1. /\ e \in started /\ pc[e] = "unmap_fd" /\ fds[e][end[e]] > 0
      /\ UNCHANGED <<data, started, running, kid, op, end>>
      /\ pc' = [pc EXCEPT ![e] = "unmap_data"]
      /\ fds' = [fds EXCEPT ![e][end[e]] = @ - 1]
  BY DEF UnmapFd, At, Goto, Holds, runVars, callVars
<1>2. /\ \A d \in Envs, x \in Ends :
            fds'[d][x] = IF d = e /\ x = end[e] THEN fds[d][x] - 1 ELSE fds[d][x]
      /\ fds' \in [Envs -> [Ends -> Nat]]
  BY <1>1
<1>3. CountTypes'
  BY <1>1, <1>2 DEF Points
<1>4. Kids' /\ \A k \in Envs : IsKid(k)' = IsKid(k)
  BY <1>1 DEF Kids, IsKid
<1>5. Unborn' /\ Shared' /\ Alone'
  <2>1. Unborn'
    BY <1>1, <1>2, <1>4 DEF Unborn
  <2>2. Shared'
    BY <1>1, <1>2, <1>4, Grown DEF Shared, Kids, IsKid
  <2>3. Alone'
    BY <1>1, <1>2, <1>4 DEF Alone, Kids
  <2> QED
    BY <2>1, <2>2, <2>3
<1>6. Holds' /\ HasRoom'
  BY <1>1, <1>2 DEF Holds, HasRoom, Ends
<1>7. Covers'
  BY <1>1, <1>2, <1>4 DEF Covers, Covered, Ends
<1> QED
  BY <1>3, <1>4, <1>5, <1>6, <1>7

LEMMA UnmapDataStep ==
    ASSUME CInv, NEW e \in Envs, UnmapData(e)
    PROVE  CInv'
<1> USE DEF CInv, CountTypes
<1>1. /\ e \in started /\ pc[e] = "unmap_data" /\ UNCHANGED <<fds, started, running>>
      /\ kid' = [kid EXCEPT ![e] = e] /\ op' = [op EXCEPT ![e] = "none"]
      /\ end' = [end EXCEPT ![e] = "r"] /\ pc' = [pc EXCEPT ![e] = "idle"]
      /\ data' = [data EXCEPT ![e] = @ - 1]
  BY DEF UnmapData, Return, End, At, Goto, runVars
<1>2. kid' = kid
  BY <1>1 DEF Kids
<1>3. Covered(e) /\ data[e] > 0
  BY <1>1, Grown DEF Covered, Ends
<1>4. CountTypes'
  <2>1. data' \in [Envs -> Nat] /\ \A d \in Envs : data'[d] <= data[d]
    BY <1>1, <1>3
  <2>2. \A d \in Envs : data'[d] <= MAXFD
    BY <2>1, MaxfdAssumption
  <2> QED
    BY <1>1, <1>2, <2>1, <2>2 DEF Points, Calls, Ends
<1>5. Kids' /\ \A k \in Envs : IsKid(k)' = IsKid(k)
  BY <1>1, <1>2 DEF Kids, IsKid
<1>6. Unborn' /\ Shared' /\ Alone'
  <2>1. Unborn'
    BY <1>1, <1>2, <1>3, <1>5 DEF Unborn
  <2>2. Shared'
    BY <1>1, <1>2, <1>3, <1>5, Grown DEF Shared, Kids, IsKid
  <2>3. Alone'
    BY <1>1, <1>2, <1>3, <1>5 DEF Alone, Kids
  <2> QED
    BY <2>1, <2>2, <2>3
<1>7. Holds' /\ HasRoom'
  BY <1>1 DEF Holds, HasRoom
<1>8. Covers'
  BY <1>1, <1>3, <1>5 DEF Covers, Covered, Ends
<1> QED
  BY <1>4, <1>5, <1>6, <1>7, <1>8

LEMMA MapDataStep ==
    ASSUME CInv, NEW e \in Envs, MapData(e)
    PROVE  CInv'
<1> USE DEF CInv, CountTypes
<1>1. /\ e \in started /\ pc[e] = "map_data"
      /\ UNCHANGED <<fds, started, running, kid, op, end>>
      /\ pc' = [pc EXCEPT ![e] = "map_fd"]
      /\ data' = [data EXCEPT ![e] = @ + 1]
  BY DEF MapData, At, Goto, runVars, callVars
<1>2. Covered(e) /\ data[e] < MAXFD
  BY <1>1, Grown, MaxfdAssumption DEF Covered, HasRoom, Ends
<1>3. CountTypes'
  BY <1>1, <1>2, MaxfdAssumption DEF Points
<1>4. Kids' /\ \A k \in Envs : IsKid(k)' = IsKid(k)
  BY <1>1 DEF Kids, IsKid
<1>5. Unborn' /\ Shared' /\ Alone'
  <2>1. Unborn'
    BY <1>1, <1>4 DEF Unborn
  <2>2. Shared'
    BY <1>1, <1>4, Grown DEF Shared, Kids, IsKid
  <2>3. Alone'
    BY <1>1, <1>4 DEF Alone, Kids
  <2> QED
    BY <2>1, <2>2, <2>3
<1>6. Holds' /\ HasRoom'
  BY <1>1 DEF Holds, HasRoom
<1>7. Covers'
  BY <1>1, <1>2, <1>4 DEF Covers, Covered, Ends
<1> QED
  BY <1>3, <1>4, <1>5, <1>6, <1>7

LEMMA MapFdStep ==
    ASSUME CInv, NEW e \in Envs, MapFd(e)
    PROVE  CInv'
<1> USE DEF CInv, CountTypes
<1>1. /\ e \in started /\ pc[e] = "map_fd" /\ fds[e][end[e]] > 0
      /\ UNCHANGED <<data, started, running>>
      /\ kid' = [kid EXCEPT ![e] = e] /\ op' = [op EXCEPT ![e] = "none"]
      /\ end' = [end EXCEPT ![e] = "r"] /\ pc' = [pc EXCEPT ![e] = "idle"]
      /\ fds' = [fds EXCEPT ![e][end[e]] = @ + 1]
  BY DEF MapFd, Return, End, At, Goto, runVars, Holds
<1>2. kid' = kid
  BY <1>1 DEF Kids
<1>3. /\ \A d \in Envs, x \in Ends :
            fds'[d][x] = IF d = e /\ x = end[e] THEN fds[d][x] + 1 ELSE fds[d][x]
      /\ fds' \in [Envs -> [Ends -> Nat]]
  BY <1>1
<1>4. CountTypes'
  BY <1>1, <1>2, <1>3 DEF Points, Calls, Ends
<1>5. Kids' /\ \A k \in Envs : IsKid(k)' = IsKid(k)
  BY <1>1, <1>2 DEF Kids, IsKid
<1>6. Unborn' /\ Shared' /\ Alone'
  <2>1. Unborn'
    BY <1>1, <1>2, <1>3, <1>5 DEF Unborn
  <2>2. Shared'
    BY <1>1, <1>2, <1>3, <1>5, Grown DEF Shared, Kids, IsKid
  <2>3. Alone'
    BY <1>1, <1>2, <1>3, <1>5 DEF Alone, Kids
  <2> QED
    BY <2>1, <2>2, <2>3
<1>7. Holds' /\ HasRoom'
  BY <1>1, <1>3 DEF Holds, HasRoom
<1>8. Covers'
  <2>1. Covered(e)'
    <3>1. fds[e] \in [Ends -> Nat] /\ (end[e] = "r" \/ end[e] = "w")
      BY DEF Ends
    <3>2. fds'[e]["r"] + fds'[e]["w"] = fds[e]["r"] + fds[e]["w"] + 1
      BY <1>3, <3>1 DEF Ends
    <3>3. data[e] = fds[e]["r"] + fds[e]["w"] + 1
      BY <1>1, Grown DEF Covered
    <3> QED
      BY <1>1, <3>2, <3>3 DEF Covered
  <2>2. ASSUME NEW d \in Envs, d # e, Covered(d)
        PROVE  Covered(d)'
    BY <1>1, <1>3, <2>2 DEF Covered, Ends
  <2> QED
    BY <1>5, <2>1, <2>2 DEF Covers
<1> QED
  BY <1>4, <1>5, <1>6, <1>7, <1>8

(* The shape of a call: the point and the variables of the caller change.  *)
LEMMA CallShape ==
    ASSUME CInv, NEW e \in Envs, NEW name, NEW x, NEW n, NEW k, NEW point,
           Call(e, name, x, n, k, point)
    PROVE  /\ e \in started /\ pc[e] = "idle"
           /\ pc' = [pc EXCEPT ![e] = point] /\ kid' = [kid EXCEPT ![e] = k]
           /\ op' = [op EXCEPT ![e] = name] /\ end' = [end EXCEPT ![e] = x]
           /\ UNCHANGED <<fds, data, started, running>>
BY DEF Call, At, Goto, CInv, CountTypes, mapVars, runVars

LEMMA ForkStep ==
    ASSUME CInv, NEW e \in Envs, NEW k \in Envs, CallFork(e, k)
    PROVE  CInv'
<1> USE DEF CInv, CountTypes
<1>1. /\ e \in started /\ pc[e] = "idle"
      /\ pc' = [pc EXCEPT ![e] = "share"] /\ kid' = [kid EXCEPT ![e] = k]
      /\ op' = [op EXCEPT ![e] = "fork"] /\ end' = [end EXCEPT ![e] = "r"]
      /\ UNCHANGED <<fds, data, started, running>>
  BY CallShape DEF CallFork, MakeChild
<1>2. k \notin started /\ k # e /\ ~IsKid(k)
  BY <1>1 DEF CallFork, MakeChild, IsKid
<1>3. \A x \in Ends : fds[k][x] = 0 /\ data[k] = 0
  BY <1>2 DEF Unborn
<1>4. CountTypes'
  BY <1>1 DEF Points, Calls, Ends
<1>5. Kids'
  BY <1>1, <1>2 DEF Kids, IsKid
<1>6. \A d \in Envs : IsKid(d)' <=> (IsKid(d) \/ d = k)
  BY <1>1, <1>2 DEF IsKid, Kids
<1>7. Unborn' /\ Covers'
  BY <1>1, <1>6 DEF Unborn, Covers, Covered
<1>8. Shared'
  <2>1. data[k] <= data[e] /\ \A x \in Ends : fds[k][x] <= fds[e][x]
    BY <1>3, <1>1 DEF Ends
  <2> QED
    BY <1>1, <2>1 DEF Shared
<1>9. Holds' /\ HasRoom'
  BY <1>1 DEF Holds, HasRoom
<1>10. Alone'
  BY <1>1 DEF Alone, CallFork, NobodyElseHas
<1> QED
  BY <1>4, <1>5, <1>7, <1>8, <1>9, <1>10

LEMMA ShareFdStep ==
    ASSUME CInv, NEW e \in Envs, ShareFd(e)
    PROVE  CInv'
<1> USE DEF CInv, CountTypes
<1>1. PICK x \in Ends :
        /\ fds[kid[e]][x] < fds[e][x]
        /\ fds' = [fds EXCEPT ![kid[e]][x] = @ + 1]
  BY DEF ShareFd
<1>2. /\ e \in started /\ pc[e] = "share" /\ kid[e] # e /\ kid[e] \notin started
      /\ UNCHANGED <<data, started, running, kid, op, end, pc>>
  BY DEF ShareFd, At, Kids, runVars, callVars
<1>3. /\ \A d \in Envs, y \in Ends :
            fds'[d][y] = IF d = kid[e] /\ y = x THEN fds[d][y] + 1 ELSE fds[d][y]
      /\ fds' \in [Envs -> [Ends -> Nat]]
  BY <1>1
<1>4. CountTypes' /\ Kids' /\ \A k \in Envs : IsKid(k)' = IsKid(k)
  BY <1>2, <1>3 DEF Kids, IsKid
<1>5. IsKid(kid[e]) /\ pc[kid[e]] = "idle"
  BY <1>2 DEF IsKid, Unborn
<1>6. Unborn' /\ Covers'
  <2>1. \A d \in Envs \ {kid[e]}, y \in Ends : fds'[d][y] = fds[d][y]
    BY <1>3
  <2>2. Unborn'
    <3>1. ASSUME NEW d \in Envs \ started
          PROVE  pc[d] = "idle" /\ (~IsKid(d) => \A y \in Ends : fds'[d][y] = 0 /\ data[d] = 0)
      <4>1. CASE d = kid[e]
        BY <1>5, <4>1
      <4>2. CASE d # kid[e]
        <5>1. \A y \in Ends : fds'[d][y] = fds[d][y]
          BY <2>1, <4>2
        <5>2. pc[d] = "idle" /\ (~IsKid(d) => \A y \in Ends : fds[d][y] = 0 /\ data[d] = 0)
          BY DEF Unborn
        <5> QED
          BY ONLY <5>1, <5>2
      <4> QED
        BY <4>1, <4>2
    <3> QED
      BY <1>2, <1>4, <3>1 DEF Unborn
  <2>3. \A d \in Envs : Covered(d) /\ ~IsKid(d) => Covered(d)'
    BY <1>2, <1>5, <2>1 DEF Covered, Ends
  <2>4. Covers'
    BY <1>4, <2>3 DEF Covers
  <2> QED
    BY <2>2, <2>4
<1>7. Shared'
  <2>1. \A m \in Envs : pc[m] = "share" /\ m # e => kid[m] # kid[e]
    BY <1>2 DEF Kids
  <2>2. \A m \in Envs : pc[m] = "share" => m # kid[e]
    BY <1>5
  <2> QED
    BY <1>1, <1>2, <1>3, <2>1, <2>2 DEF Shared
<1>8. Holds' /\ HasRoom'
  <2>1. ASSUME NEW d \in Envs, d # kid[e], NEW y \in Ends
        PROVE  fds'[d][y] = fds[d][y]
    BY <1>3, <2>1
  <2>2. Holds'
    <3>1. ASSUME NEW d \in Envs, pc[d] \notin {"idle", "unmap_data", "share", "dead"}
          PROVE  fds'[d][end[d]] > 0
      <4>1. d # kid[e] /\ end[d] \in Ends /\ fds[d][end[d]] > 0
        BY <1>5, <3>1 DEF Holds
      <4> QED
        BY <2>1, <4>1
    <3> QED
      BY <1>2, <3>1 DEF Holds
  <2>3. HasRoom'
    BY <1>2, <1>5, <2>1 DEF HasRoom, Ends
  <2> QED
    BY <2>2, <2>3
<1>9. Alone'
  <2> SUFFICES ASSUME NEW m \in Envs, pc[m] = "share", NEW d \in Envs \ {m, kid[m]},
                      NEW y \in Ends, fds'[m][y] > 0
               PROVE  fds'[d][y] = 0
    BY <1>2 DEF Alone
  <2>1. m # kid[e] /\ fds[m][y] > 0
    BY <1>2, <1>3, <1>5
  <2>2. fds[d][y] = 0
    BY <2>1 DEF Alone
  <2>3. CASE m = e
    BY <1>3, <2>2, <2>3
  <2>4. CASE m # e
    <3>1. fds[e][y] = 0
      <4>1. e # kid[m]
        BY <1>2, <2>4 DEF Kids
      <4> QED
        BY <2>1, <2>4, <4>1 DEF Alone
    <3> QED
      BY <1>1, <1>3, <2>2, <3>1
  <2> QED
    BY <2>3, <2>4
<1> QED
  BY <1>4, <1>6, <1>7, <1>8, <1>9

LEMMA ShareDataStep ==
    ASSUME CInv, NEW e \in Envs, ShareData(e)
    PROVE  CInv'
<1> USE DEF CInv, CountTypes
<1>1. /\ e \in started /\ pc[e] = "share" /\ kid[e] # e /\ kid[e] \notin started
      /\ data[kid[e]] < data[e] /\ data' = [data EXCEPT ![kid[e]] = @ + 1]
      /\ UNCHANGED <<fds, started, running, kid, op, end, pc>>
  BY DEF ShareData, At, Kids, runVars, callVars
<1>2. /\ \A d \in Envs : data'[d] = IF d = kid[e] THEN data[d] + 1 ELSE data[d]
      /\ data' \in [Envs -> Nat]
  BY <1>1
<1>3. data[kid[e]] + 1 <= MAXFD
  BY <1>1, MaxfdAssumption
<1>4. CountTypes' /\ Kids' /\ \A k \in Envs : IsKid(k)' = IsKid(k)
  BY <1>1, <1>2, <1>3 DEF Kids, IsKid
<1>5. IsKid(kid[e]) /\ pc[kid[e]] = "idle"
  BY <1>1 DEF IsKid, Unborn
<1>6. Unborn' /\ Covers'
  BY <1>1, <1>2, <1>4, <1>5 DEF Unborn, Covers, Covered
<1>7. Shared'
  <2>1. \A m \in Envs : pc[m] = "share" /\ m # e => kid[m] # kid[e]
    BY <1>1 DEF Kids
  <2>2. \A m \in Envs : pc[m] = "share" => m # kid[e]
    BY <1>5
  <2> QED
    BY <1>1, <1>2, <2>1, <2>2 DEF Shared
<1>8. Holds' /\ HasRoom' /\ Alone'
  BY <1>1 DEF Holds, HasRoom, Alone
<1> QED
  BY <1>4, <1>6, <1>7, <1>8

LEMMA StartStep ==
    ASSUME CInv, NEW e \in Envs, Start(e)
    PROVE  CInv'
<1> USE DEF CInv, CountTypes
<1>1. /\ e \in started /\ pc[e] = "share" /\ kid[e] # e /\ kid[e] \notin started
      /\ fds[kid[e]] = fds[e] /\ data[kid[e]] = data[e]
      /\ started' = started \cup {kid[e]} /\ UNCHANGED <<fds, data, running>>
      /\ kid' = [kid EXCEPT ![e] = e] /\ op' = [op EXCEPT ![e] = "none"]
      /\ end' = [end EXCEPT ![e] = "r"] /\ pc' = [pc EXCEPT ![e] = "idle"]
  BY DEF Start, Return, End, At, Goto, Kids, mapVars
<1>2. CountTypes'
  BY <1>1 DEF Points, Calls, Ends
<1>3. \A m \in Envs : pc[m] = "share" /\ m # e => kid[m] # kid[e]
  BY <1>1 DEF Kids
<1>4. pc[kid[e]] = "idle"
  BY <1>1 DEF Unborn
<1>5. Kids'
  <2>1. kid[kid[e]] = kid[e]
    BY <1>4 DEF Kids
  <2> QED
    BY <1>1, <1>3, <1>4, <2>1 DEF Kids
<1>6. \A d \in Envs : d # kid[e] => (IsKid(d)' <=> IsKid(d))
  BY <1>1 DEF IsKid
<1>7. Unborn'
  BY <1>1, <1>6 DEF Unborn
<1>8. Shared' /\ Holds' /\ HasRoom' /\ Alone'
  BY <1>1 DEF Shared, Holds, HasRoom, Alone
<1>9. Covers'
  <2>1. Covered(e) /\ Covered(e)'
    BY <1>1, Grown DEF Covered
  <2>2. \A d \in Envs : d = kid[e] => Covered(d)'
    BY <1>1, <1>4, <2>1 DEF Covered
  <2>3. ASSUME NEW d \in Envs, d # e, d # kid[e], Covered(d)
        PROVE  Covered(d)'
    <3>1. fds'[d] = fds[d] /\ data'[d] = data[d] /\ pc'[d] = pc[d]
      BY <1>1, <2>3
    <3> QED
      BY <2>3, <3>1 DEF Covered
  <2> QED
    BY <1>6, <2>1, <2>2, <2>3 DEF Covers
<1> QED
  BY <1>2, <1>5, <1>7, <1>8, <1>9

LEMMA DieStep ==
    ASSUME CInv, NEW e \in Envs, Die(e)
    PROVE  CInv'
<1> USE DEF CInv, CountTypes
<1>1. /\ e \in started /\ pc[e] \notin {"share", "dead"} /\ kid[e] = e
      /\ fds' = [fds EXCEPT ![e] = [x \in Ends |-> 0]]
      /\ data' = [data EXCEPT ![e] = 0]
      /\ running' = running \ {e} /\ UNCHANGED started
      /\ kid' = [kid EXCEPT ![e] = e] /\ op' = [op EXCEPT ![e] = "none"]
      /\ end' = [end EXCEPT ![e] = "r"] /\ pc' = [pc EXCEPT ![e] = "dead"]
  BY DEF Die, End, Goto, Kids
<1>2. kid' = kid
  BY <1>1
<1>3. /\ fds' \in [Envs -> [Ends -> Nat]] /\ data' \in [Envs -> Nat]
      /\ \A x \in Ends : fds'[e][x] = 0
      /\ \A d \in Envs \ {e} : fds'[d] = fds[d] /\ data'[d] = data[d]
      /\ data'[e] = 0
  BY <1>1
<1>4. CountTypes'
  BY <1>1, <1>2, <1>3, MaxfdAssumption DEF Points, Calls, Ends
<1>5. Kids' /\ \A k \in Envs : IsKid(k)' = IsKid(k)
  BY <1>1, <1>2 DEF Kids, IsKid
<1>6. \A m \in Envs : pc[m] = "share" => m # e /\ kid[m] # e
  BY <1>1 DEF Kids
<1>7. Unborn' /\ Shared'
  BY <1>1, <1>2, <1>3, <1>5, <1>6 DEF Unborn, Shared
<1>8. Holds' /\ HasRoom'
  BY <1>1, <1>3 DEF Holds, HasRoom
<1>9. Alone'
  BY <1>1, <1>2, <1>3, <1>6 DEF Alone
<1>10. Covers'
  <2>1. Covered(e)'
    BY <1>1, <1>3 DEF Covered, Ends
  <2>2. ASSUME NEW d \in Envs \ {e}, Covered(d)
        PROVE  Covered(d)'
    <3>1. fds'[d] = fds[d] /\ data'[d] = data[d] /\ pc'[d] = pc[d]
      BY <1>1, <1>3
    <3> QED
      BY <2>2, <3>1 DEF Covered
  <2> QED
    BY <1>5, <2>1, <2>2 DEF Covers
<1> QED
  BY <1>4, <1>5, <1>7, <1>8, <1>9, <1>10

LEMMA DispatchStep ==
    ASSUME CInv, NEW e \in Envs, Dispatch(e)
    PROVE  CInv'
<1> USE DEF CInv, CountTypes
<1>1. running' \subseteq started /\ UNCHANGED <<fds, data, started, kid, pc, op, end>>
  BY DEF Dispatch, mapVars, callVars
<1>2. CountTypes' /\ Kids' /\ \A k \in Envs : IsKid(k)' = IsKid(k)
  BY <1>1 DEF Kids, IsKid
<1>3. Unborn' /\ Shared'
  BY <1>1, <1>2 DEF Unborn, Shared
<1>4. Holds' /\ HasRoom' /\ Alone'
  BY <1>1 DEF Holds, HasRoom, Alone
<1>5. Covers'
  BY <1>1, <1>2 DEF Covers, Covered
<1> QED
  BY <1>2, <1>3, <1>4, <1>5

(* A call that starts with a test or with a mapping. *)
LEMMA BeginStep ==
    ASSUME CInv, NEW e \in Envs, Begin(e)
    PROVE  CInv'
<1>1. ASSUME NEW name \in Calls, NEW x \in Ends, NEW n,
             NEW point \in {"read", "write", "fd", "unmap_fd", "map_data"},
             Call(e, name, x, n, e, point), fds[e][x] > 0,
             point = "map_data" => fds[e]["r"] + fds[e]["w"] < MAXFD
      PROVE  CInv'
  <2>1. /\ e \in started /\ pc[e] = "idle"
        /\ pc' = [pc EXCEPT ![e] = point] /\ kid' = [kid EXCEPT ![e] = e]
        /\ op' = [op EXCEPT ![e] = name] /\ end' = [end EXCEPT ![e] = x]
        /\ UNCHANGED <<fds, data, started, running>>
    BY <1>1, CallShape
  <2>2. kid' = kid /\ end'[e] = x /\ op' \in [Envs -> Calls] /\ running \subseteq started
    BY <2>1 DEF CInv, CountTypes, Kids
  <2> QED
    BY <1>1, <2>1, <2>2, MoveStep DEF Points, Between
<1>2. CASE CallRead(e, 2)
  BY <1>1, <1>2 DEF CallRead, Calls, Ends
<1>3. ASSUME NEW n \in 1..2, CallWrite(e, n) PROVE CInv'
  BY <1>1, <1>3 DEF CallWrite, Calls, Ends
<1>4. ASSUME NEW x \in Ends, CallCheck(e, x) PROVE CInv'
  BY <1>1, <1>4 DEF CallCheck, Calls
<1>5. ASSUME NEW x \in Ends, CallClose(e, x) PROVE CInv'
  BY <1>1, <1>5 DEF CallClose, Calls
<1>6. ASSUME NEW x \in Ends, CallDup(e, x) PROVE CInv'
  BY <1>1, <1>6 DEF CallDup, Calls
<1> QED
  BY <1>2, <1>3, <1>4, <1>5, <1>6, ForkStep DEF Begin

(* The end of a call, where no mapping is due. *)
LEMMA ReturnStep ==
    ASSUME CInv, NEW e \in Envs, e \in started, Return(e),
           pc[e] \notin {"share"} \cup Between, UNCHANGED <<fds, data, started, running>>
    PROVE  CInv'
<1>1. /\ kid' = [kid EXCEPT ![e] = e] /\ op' = [op EXCEPT ![e] = "none"]
      /\ end' = [end EXCEPT ![e] = "r"] /\ pc' = [pc EXCEPT ![e] = "idle"]
  BY DEF Return, End, Goto
<1>2. /\ kid' = kid /\ end'[e] = "r" /\ op' \in [Envs -> Calls]
      /\ running \subseteq started
  BY <1>1 DEF CInv, CountTypes, Kids, Calls
<1> QED
  BY <1>1, <1>2, MoveStep DEF Points, Between, Ends

(* A step to another point of the same call. *)
LEMMA GotoStep ==
    ASSUME CInv, NEW e \in Envs, e \in started,
           NEW point \in {"read", "take", "taken", "write", "store", "stored", "fd", "data"},
           Goto(e, point), UNCHANGED <<fds, data, started, running, op, end, kid>>,
           pc[e] \in {"read", "take", "taken", "write", "store", "stored", "fd", "data"}
    PROVE  CInv'
<1>1. /\ fds[e][end[e]] > 0 /\ end[e] \in Ends /\ end' = [end EXCEPT ![e] = end'[e]]
      /\ pc' = [pc EXCEPT ![e] = point] /\ op' \in [Envs -> Calls]
      /\ running \subseteq started
  BY DEF Goto, CInv, CountTypes, Holds
<1> QED
  BY <1>1, MoveStep DEF Points, Between

LEMMA LoopStep ==
    ASSUME CInv, NEW e \in Envs,
           \/ ReadTest(e) \/ Take(e) \/ Taken(e)
           \/ WriteTest(e) \/ Store(e) \/ Stored(e)
           \/ ReadFdRef(e) \/ ReadDataRef(e),
           PInv
    PROVE  CInv'
<1>1. e \in started
  BY DEF CInv, CountTypes, ReadTest, Take, Taken, WriteTest, Store, Stored, ReadFdRef,
         ReadDataRef, At
<1> USE <1>1 DEF At, mapVars, runVars, callVars, Between
<1>2. CASE ReadTest(e)
  BY <1>2, ReturnStep, GotoStep DEF ReadTest
<1>3. CASE Take(e)
  BY <1>3, GotoStep DEF Take
<1>4. ASSUME op[e] \in {"read", "write"}, Turn(e), pc[e] \in {"taken", "stored"},
             UNCHANGED <<fds, data, started, running>>
      PROVE  CInv'
  BY <1>4, ReturnStep, GotoStep DEF Turn
<1>5. CASE Taken(e)
  BY <1>4, <1>5 DEF Taken, PInv, Owners, Reading
<1>6. CASE WriteTest(e)
  <2>1. Goto(e, "fd") \/ Goto(e, "store")
    BY <1>6 DEF WriteTest
  <2> QED
    BY <1>6, <2>1, GotoStep DEF WriteTest
<1>7. CASE Store(e)
  BY <1>7, GotoStep DEF Store
<1>8. CASE Stored(e)
  BY <1>4, <1>8 DEF Stored, PInv, Owners, Writing
<1>9. CASE ReadFdRef(e)
  BY <1>9, GotoStep DEF ReadFdRef
<1>10. CASE ReadDataRef(e)
  <2>1. op[e] \in {"read", "write", "check"} /\ pc[e] = "data"
    BY <1>10 DEF ReadDataRef, PInv, Owners
  <2> QED
    BY <1>10, <2>1, ReturnStep, GotoStep DEF ReadDataRef
<1> QED
  BY <1>2, <1>3, <1>5, <1>6, <1>7, <1>8, <1>9, <1>10

LEMMA CountsStep ==
    ASSUME CInv, PInv, [Next]_vars
    PROVE  CInv'
<1>1. CASE UNCHANGED vars
  BY <1>1 DEF vars, mapVars, runVars, callVars, CInv, CountTypes, Kids, IsKid, Unborn,
              Shared, Holds, HasRoom, Covers, Covered, Alone
<1>2. ASSUME NEW e \in Envs, Begin(e) \/ Continue(e) \/ Dispatch(e) \/ Die(e)
      PROVE  CInv'
  BY <1>2, BeginStep, LoopStep, UnmapFdStep, UnmapDataStep, MapDataStep, MapFdStep,
     ShareFdStep, ShareDataStep, StartStep, DispatchStep, DieStep DEF Continue
<1> QED
  BY <1>1, <1>2 DEF Next

-----------------------------------------------------------------------------
(* The types *)

Bounds ==
    /\ wpos <= Limit
    /\ buf \in [0..SIZE-1 -> 0..Limit] /\ got \in Seq(1..Limit)
    /\ left \in [Envs -> 0..2] /\ some \in [Envs -> BOOLEAN]
    /\ same \in [Envs -> BOOLEAN] /\ ref \in [Envs -> Nat]

(* A count is a number: the environments are finitely many. *)
LEMMA CountIsNat ==
    ASSUME NEW f, IsFiniteSet(Envs)
    PROVE  LET M == {m \in Envs \X (1..MAXFD) : m[2] <= f[m[1]]}
           IN  IsFiniteSet(M) /\ Cardinality(M) \in Nat
<1>1. IsFiniteSet(1..MAXFD)
  BY MaxfdAssumption, FS_Interval
<1>2. IsFiniteSet(Envs \X (1..MAXFD))
  BY <1>1, FS_Product
<1>3. {m \in Envs \X (1..MAXFD) : m[2] <= f[m[1]]} \in SUBSET (Envs \X (1..MAXFD))
  OBVIOUS
<1>4. IsFiniteSet({m \in Envs \X (1..MAXFD) : m[2] <= f[m[1]]})
  BY <1>2, <1>3, FS_Subset
<1> QED
  BY <1>4, FS_CardinalityType

LEMMA RefsAreNat == \A x \in Ends : FdRefs(x) \in Nat
<1> SUFFICES ASSUME NEW x \in Ends PROVE FdRefs(x) \in Nat
  OBVIOUS
<1> DEFINE f == [e \in Envs |-> fds[e][x]]
           M == {m \in Envs \X (1..MAXFD) : m[2] <= f[m[1]]}
<1>1. Cardinality(M) \in Nat
  <2> HIDE DEF f
  <2> QED
    BY CountIsNat, EnvsAssumption
<1>2. M = {m \in Envs \X (1..MAXFD) : m[2] <= fds[m[1]][x]}
  OBVIOUS
<1> QED
  BY <1>1, <1>2 DEF FdRefs

LEMMA BoundsStep ==
    ASSUME PInv, Bounds, CInv, [Next]_vars
    PROVE  Bounds'
<1> USE SizeAssumption, EnvsAssumption
<1>1. wpos' <= Limit /\ got' \in Seq(1..Limit)
  <2>1. wpos \in Nat /\ Len(got) \in Nat /\ wpos <= Limit /\ got \in Seq(1..Limit)
    BY DEF PInv, Values, Bounds
  <2>2. Silent \/ Gets \/ Puts
    BY NextStep DEF vars, pipeVars, Silent
  <2>3. CASE Silent
    BY <2>1, <2>3 DEF Silent
  <2>4. CASE Gets
    <3>1. Len(got) + 1 \in 1..Limit
      BY <2>1, <2>4 DEF Gets
    <3> QED
      BY <2>1, <2>4, <3>1 DEF Gets
  <2>5. CASE Puts
    BY <2>1, <2>5 DEF Puts
  <2> QED
    BY <2>2, <2>3, <2>4, <2>5
<1>2. buf' \in [0..SIZE-1 -> 0..Limit]
  <2>1. CASE buf' = buf
    BY <2>1 DEF Bounds
  <2>2. ASSUME NEW e \in Envs, Store(e)
        PROVE  buf' \in [0..SIZE-1 -> 0..Limit]
    <3>1. e = Writer /\ op[e] = "write"
      BY <2>2 DEF Store, At, PInv, Owners, Writing
    <3>2. wpos + 1 \in 0..Limit
      BY <3>1 DEF PInv, Values, WithinLimit
    <3> QED
      BY <2>2, <3>2 DEF Store, Bounds
  <2>3. ASSUME NEW e \in Envs, Begin(e) \/ Continue(e) \/ Dispatch(e) \/ Die(e), ~Store(e)
        PROVE  buf' = buf
    <3> USE DEF pipeVars
    <3>1. CASE Begin(e)
      BY <3>1 DEF Begin, CallRead, CallWrite, CallCheck, CallClose, CallDup, CallFork,
                  MakeChild, Call
    <3>2. CASE Continue(e)
      BY <2>3, <3>2 DEF Continue, ReadTest, Take, Taken, WriteTest, Stored, ReadFdRef,
           ReadDataRef, UnmapFd, UnmapData, MapData, MapFd, ShareFd, ShareData, Start
    <3>3. CASE Dispatch(e) \/ Die(e)
      BY <3>3 DEF Dispatch, Die
    <3> QED
      BY <2>3, <3>1, <3>2, <3>3
  <2> QED
    BY <2>1, <2>2, <2>3 DEF Next, vars, pipeVars
<1>3. left' \in [Envs -> 0..2] /\ some' \in [Envs -> BOOLEAN]
  <2> USE DEF Bounds, callVars
  <2>1. CASE UNCHANGED <<left, some>>
    BY <2>1
  <2>2. ASSUME NEW e \in Envs, NEW n \in 0..2, left' = [left EXCEPT ![e] = n], some' = some
        PROVE  left' \in [Envs -> 0..2] /\ some' \in [Envs -> BOOLEAN]
    BY <2>2
  <2>3. ASSUME NEW e \in Envs, NEW point, End(e, point)
        PROVE  left' \in [Envs -> 0..2] /\ some' \in [Envs -> BOOLEAN]
    BY <2>3 DEF End
  <2>4. ASSUME NEW e \in Envs, Turn(e)
        PROVE  left' \in [Envs -> 0..2] /\ some' \in [Envs -> BOOLEAN]
    <3>1. CASE Return(e)
      BY <2>3, <3>1 DEF Return
    <3>2. CASE /\ left[e] > 1 /\ left' = [left EXCEPT ![e] = @ - 1]
               /\ some' = [some EXCEPT ![e] = op[e] = "read"]
      <4>1. left[e] - 1 \in 0..2
        BY <3>2
      <4>2. (op[e] = "read") \in BOOLEAN
        OBVIOUS
      <4>3. left' \in [Envs -> 0..2]
        BY <3>2, <4>1
      <4>4. some' \in [Envs -> BOOLEAN]
        BY <3>2, <4>2
      <4> QED
        BY <4>3, <4>4
    <3> QED
      BY <2>4, <3>1, <3>2 DEF Turn
  <2>5. ASSUME NEW e \in Envs, Begin(e)
        PROVE  left' \in [Envs -> 0..2] /\ some' \in [Envs -> BOOLEAN]
    <3>1. CASE CallRead(e, 2)
      BY <2>2, <3>1 DEF CallRead, Call
    <3>2. ASSUME NEW n \in 1..2, CallWrite(e, n)
          PROVE  left' \in [Envs -> 0..2] /\ some' \in [Envs -> BOOLEAN]
      BY <2>2, <3>2 DEF CallWrite, Call
    <3>3. ASSUME NEW x \in Ends, CallCheck(e, x) \/ CallClose(e, x) \/ CallDup(e, x)
          PROVE  left' \in [Envs -> 0..2] /\ some' \in [Envs -> BOOLEAN]
      <4>1. 0 \in 0..2
        OBVIOUS
      <4> QED
        BY <2>2, <3>3, <4>1 DEF CallCheck, CallClose, CallDup, Call
    <3>4. ASSUME NEW k \in Envs, CallFork(e, k)
          PROVE  left' \in [Envs -> 0..2] /\ some' \in [Envs -> BOOLEAN]
      BY <2>2, <3>4 DEF CallFork, MakeChild, Call
    <3> QED
      BY <2>5, <3>1, <3>2, <3>3, <3>4 DEF Begin
  <2>6. ASSUME NEW e \in Envs, Continue(e)
        PROVE  left' \in [Envs -> 0..2] /\ some' \in [Envs -> BOOLEAN]
    BY <2>1, <2>3, <2>4, <2>6 DEF Return, Continue, ReadTest, Take, Taken, WriteTest, Store,
       Stored, ReadFdRef, ReadDataRef, UnmapFd, UnmapData, MapData, MapFd, ShareFd,
       ShareData, Start
  <2> QED
    BY <2>1, <2>3, <2>5, <2>6 DEF Next, vars, Dispatch, Die
<1>4. same' \in [Envs -> BOOLEAN] /\ ref' \in [Envs -> Nat]
  <2> USE DEF Bounds, testVars
  <2>1. CASE UNCHANGED <<same, ref>>
    BY <2>1
  <2>2. ASSUME NEW e \in Envs, ReadFdRef(e) PROVE same' \in [Envs -> BOOLEAN] /\ ref' \in [Envs -> Nat]
    <3>1. FdRefs(end[e]) \in Nat
      BY RefsAreNat DEF CInv, CountTypes
    <3> QED
      BY <2>2, <3>1 DEF ReadFdRef
  <2>3. ASSUME NEW e \in Envs, ReadDataRef(e) \/ Dispatch(e) \/ Die(e)
        PROVE  same' \in [Envs -> BOOLEAN] /\ ref' \in [Envs -> Nat]
    <3>1. CASE ReadDataRef(e)
      BY <3>1 DEF ReadDataRef
    <3>2. CASE Dispatch(e)
      BY <3>2 DEF Dispatch
    <3>3. CASE Die(e)
      BY <3>3 DEF Die
    <3> QED
      BY <2>3, <3>1, <3>2, <3>3
  <2>4. ASSUME NEW e \in Envs, Begin(e) PROVE UNCHANGED <<same, ref>>
    BY <2>4 DEF Begin, CallRead, CallWrite, CallCheck, CallClose, CallDup, CallFork,
                MakeChild, Call
  <2>5. ASSUME NEW e \in Envs, Continue(e), ~ReadFdRef(e), ~ReadDataRef(e)
        PROVE  UNCHANGED <<same, ref>>
    BY <2>5 DEF Continue, ReadTest, Take, Taken, WriteTest, Store, Stored, UnmapFd,
       UnmapData, MapData, MapFd, ShareFd, ShareData, Start
  <2> QED
    BY <2>1, <2>2, <2>3, <2>4, <2>5 DEF Next, vars
<1> QED
  BY <1>1, <1>2, <1>3, <1>4 DEF Bounds

(* No environment has more mappings of a page than it has descriptors. *)
LEMMA Fits ==
    ASSUME CInv
    PROVE  fds \in [Envs -> [Ends -> 0..MAXFD]] /\ data \in [Envs -> 0..MAXFD]
<1> USE MaxfdAssumption DEF CInv, CountTypes
<1>1. ASSUME NEW e \in Envs, ~IsKid(e), NEW x \in Ends
      PROVE  fds[e][x] <= MAXFD
  BY <1>1 DEF Covers, Covered, Ends
<1>2. ASSUME NEW e \in Envs, IsKid(e), NEW x \in Ends
      PROVE  fds[e][x] <= MAXFD
  <2>1. PICK m \in Envs : kid[m] = e /\ m # e
    BY <1>2 DEF IsKid
  <2>2. pc[m] = "share" /\ ~IsKid(m)
    BY <2>1, Grown DEF Kids
  <2>3. fds[m][x] <= MAXFD /\ fds[e][x] <= fds[m][x]
    BY <1>1, <2>1, <2>2 DEF Shared
  <2> QED
    BY <2>3
<1> QED
  BY <1>1, <1>2

AllInv == PInv /\ CInv /\ Bounds

LEMMA AllInvIsIInv == AllInv => IInv
<1> SUFFICES ASSUME AllInv PROVE IInv
  OBVIOUS
<1> USE DEF AllInv
<1>1. TypeOK
  <2>1. rpos \in 0..Limit /\ wpos \in 0..Limit
    BY SizeAssumption DEF PInv, Values, RingHolds, Bounds
  <2>2. fds \in [Envs -> [Ends -> 0..MAXFD]] /\ data \in [Envs -> 0..MAXFD]
    BY Fits
  <2> QED
    BY <2>1, <2>2 DEF TypeOK, Bounds, CInv, CountTypes, Points, Calls
<1>2. DataCoversEnds
  BY DEF DataCoversEnds, CInv, Covers, Covered, IsKid
<1>3. RingHolds
  BY DEF PInv
<1> QED
  BY <1>1, <1>2, <1>3 DEF IInv

LEMMA AllInvariance == Spec => []AllInv
<1>1. Init => AllInv
  <2>1. Init => Bounds
    BY SizeAssumption, EnvsAssumption DEF Init, Bounds
  <2> QED
    BY <2>1, InitPInv, InitCInv DEF AllInv
<1>2. AllInv /\ [Next]_vars => AllInv'
  <2>1. PInv /\ [Next]_vars => PInv'
    BY NextStep, Still DEF vars, callVars
  <2> QED
    BY <2>1, CountsStep, BoundsStep DEF AllInv
<1> QED
  BY <1>1, <1>2, PTL DEF Spec

(* In an environment that is not just being made the data page has as many *)
(* mappings as the two ends together, or one more between the two steps of *)
(* close() and dup(), never one less; and the ring holds what is under way. *)
THEOREM Invariance == Spec => []IInv
BY AllInvariance, AllInvIsIInv, PTL

-----------------------------------------------------------------------------
(* Closed ends *)

(* What _pipeisclosed() relies on: as the data page has a mapping for each *)
(* of the two ends, the counts are only equal when nobody has the other    *)
(* one.  A child that is being made has too few mappings of the data page, *)
(* but while it is made nobody else has an end that its parent has.        *)
LEMMA EqualCounts ==
    ASSUME CInv, NEW e \in started, pc[e] # "share", NEW x \in Ends, fds[e][x] > 0,
           FdRefs(x) = DataRefs
    PROVE  ~Open(OtherEnd(x))
<1> USE DEF CInv, CountTypes
<1> DEFINE y == OtherEnd(x)
           F == {m \in Envs \X (1..MAXFD) : m[2] <= fds[m[1]][x]}
           D == {m \in Envs \X (1..MAXFD) : m[2] <= data[m[1]]}
<1>1. y \in Ends /\ y # x
  BY DEF Ends, OtherEnd
<1>2. ASSUME NEW d \in Envs, ~IsKid(d)
      PROVE  fds[d][x] + fds[d][y] <= data[d]
  BY <1>1, <1>2 DEF Covers, Covered, Ends
<1>3. ASSUME NEW d \in Envs
      PROVE  fds[d][x] <= data[d]
  <2>1. CASE ~IsKid(d)
    <3>1. fds[d][x] + fds[d][y] <= data[d]
      BY <1>2, <2>1
    <3>2. fds[d][x] \in Nat /\ fds[d][y] \in Nat /\ data[d] \in Nat
      BY <1>1
    <3> HIDE DEF y
    <3> QED
      BY ONLY <3>1, <3>2
  <2>2. CASE IsKid(d)
    <3>1. PICK m \in Envs : kid[m] = d /\ m # d
      BY <2>2 DEF IsKid
    <3>2. pc[m] = "share" /\ e # m /\ e # d
      BY <3>1 DEF Kids
    <3>3. fds[m][x] = 0
      <4>1. fds[m][x] > 0 => fds[e][x] = 0
        BY <3>1, <3>2 DEF Alone
      <4>2. fds[m][x] \in Nat
        OBVIOUS
      <4> QED
        BY ONLY <4>1, <4>2, fds[e][x] > 0
    <3>4. fds[d][x] <= fds[m][x] /\ fds[d][x] \in Nat /\ data[d] \in Nat
      BY <3>1, <3>2 DEF Shared
    <3> QED
      BY ONLY <3>3, <3>4
  <2> QED
    BY <2>1, <2>2
<1>4. F = D
  <2>1. F \in SUBSET D
    BY <1>3
  <2>2. IsFiniteSet(D)
    BY CountIsNat, EnvsAssumption
  <2>3. Cardinality(D) = Cardinality(F)
    BY DEF FdRefs, DataRefs
  <2> HIDE DEF F, D
  <2> QED
    BY <2>1, <2>2, <2>3, FS_Subset
<1>5. ASSUME NEW d \in Envs, ~IsKid(d)
      PROVE  fds[d][y] = 0
  <2> SUFFICES ASSUME fds[d][y] > 0 PROVE FALSE
    BY <1>1
  <2>1. data[d] \in 1..MAXFD /\ ~(data[d] <= fds[d][x])
    BY <1>1, <1>2, <1>5, MaxfdAssumption
  <2>2. <<d, data[d]>> \in D /\ <<d, data[d]>> \notin F
    BY <2>1
  <2> QED
    BY <1>4, <2>2
<1>6. ASSUME NEW d \in Envs, IsKid(d)
      PROVE  fds[d][y] = 0
  <2>1. PICK m \in Envs : kid[m] = d /\ m # d
    BY <1>6 DEF IsKid
  <2>2. pc[m] = "share" /\ ~IsKid(m)
    BY <2>1, Grown DEF Kids
  <2>3. fds[m][y] = 0 /\ fds[d][y] <= fds[m][y]
    BY <1>1, <1>5, <2>1, <2>2 DEF Shared
  <2> QED
    BY <1>1, <2>3
<1> QED
  BY <1>1, <1>5, <1>6 DEF Open

(* What changes while a processor stays with an environment is its doing.  *)
Attended ==
    /\ \A d, e \in running : d = e
    /\ \A e \in running : pc[e] = "data" /\ same[e] => ref[e] = FdRefs(end[e])

(* Only the first read of a count leads to the second. *)
LEMMA OnlyReadFdRef ==
    ASSUME PInv, CInv, NEW e \in Envs, Begin(e) \/ Continue(e)
    PROVE  /\ e \in running /\ UNCHANGED running
           /\ pc'[e] = "data" => ReadFdRef(e)
           /\ \A d \in Envs : d # e => pc'[d] = pc[d]
<1> USE DEF CInv, CountTypes, At, Goto, runVars
<1>1. CASE Begin(e)
  BY <1>1 DEF Begin, CallRead, CallWrite, CallCheck, CallClose, CallDup, CallFork,
              MakeChild, Call
<1>2. CASE ReadTest(e) \/ Take(e) \/ WriteTest(e) \/ Store(e) \/ ReadFdRef(e)
  BY <1>2 DEF ReadTest, Take, WriteTest, Store, ReadFdRef, Return, End
<1>3. CASE Taken(e) \/ Stored(e)
  <2>1. op[e] \in {"read", "write"}
    BY <1>3 DEF Taken, Stored, PInv, Owners, Reading, Writing
  <2> QED
    BY <1>3, <2>1 DEF Taken, Stored, Turn, Return, End
<1>4. CASE ReadDataRef(e)
  <2>1. op[e] \in {"read", "write", "check"}
    BY <1>4 DEF ReadDataRef, PInv, Owners
  <2> QED
    BY <1>4, <2>1 DEF ReadDataRef, Return, End
<1>5. CASE UnmapFd(e) \/ UnmapData(e) \/ MapData(e) \/ MapFd(e)
  BY <1>5 DEF UnmapFd, UnmapData, MapData, MapFd, Return, End
<1>6. CASE ShareFd(e) \/ ShareData(e) \/ Start(e)
  BY <1>6 DEF ShareFd, ShareData, Start, Return, End
<1> QED
  BY <1>1, <1>2, <1>3, <1>4, <1>5, <1>6 DEF Continue

LEMMA AttendedStep ==
    ASSUME NCPU = 1, AllInv, Attended, [Next]_vars
    PROVE  Attended'
<1> USE DEF AllInv
<1>1. CASE UNCHANGED vars
  BY <1>1 DEF vars, mapVars, runVars, callVars, testVars, Attended, FdRefs
<1>2. ASSUME NEW d \in Envs, Begin(d) \/ Continue(d)
      PROVE  Attended'
  <2>1. d \in running /\ UNCHANGED running /\ (pc'[d] = "data" => ReadFdRef(d))
    BY <1>2, OnlyReadFdRef
  <2>2. ASSUME ReadFdRef(d)
        PROVE  ref'[d] = FdRefs(end[d])'
    BY <2>2 DEF ReadFdRef, FdRefs, Bounds, mapVars, callVars
  <2> QED
    BY <2>1, <2>2 DEF Attended
<1>3. ASSUME NEW d \in Envs, Dispatch(d)
      PROVE  Attended'
  <2>1. IsFiniteSet(running)
    BY EnvsAssumption, FS_Subset DEF CInv, CountTypes
  <2>2. Cardinality(running) \in Nat
    BY <2>1, FS_CardinalityType
  <2>3. running' = {d}
    <3>1. CASE Cardinality(running) < NCPU /\ running' = running \cup {d}
      <4>1. running = {}
        BY <2>1, <2>2, <3>1, FS_EmptySet
      <4> QED
        BY <3>1, <4>1
    <3>2. ASSUME NEW c \in running, running' = (running \ {c}) \cup {d}
          PROVE  running' = {d}
      BY <3>2 DEF Attended
    <3> QED
      BY <1>3, <3>1, <3>2 DEF Dispatch
  <2>4. same'[d] = FALSE
    BY <1>3 DEF Dispatch, Bounds
  <2> QED
    BY <2>3, <2>4 DEF Attended
<1>4. ASSUME NEW d \in Envs, Die(d)
      PROVE  Attended'
  <2>1. PICK c \in running : c = d \/ pc[c] = "idle"
    BY <1>4 DEF Die
  <2>2. running' = running \ {d} /\ \A e \in Envs \ {d} : pc'[e] = pc[e]
    BY <1>4 DEF Die, End, Goto, CInv, CountTypes
  <2>3. \A e \in running' : pc'[e] = "idle"
    BY <2>1, <2>2 DEF Attended, CInv, CountTypes
  <2> QED
    BY <2>2, <2>3 DEF Attended
<1> QED
  BY <1>1, <1>2, <1>3, <1>4 DEF Next

(* On one processor a call that ends because the two counts are equal has  *)
(* read both while nobody else did anything.                               *)
LEMMA ClosedStep ==
    ASSUME AllInv, Attended, [Next]_vars, NEW e \in Envs, SaysClosed(e)
    PROVE  ~Open(OtherEnd(end[e]))
<1> USE DEF AllInv
<1>1. pc[e] = "data" /\ ref[e] = DataRefs /\ pc'[e] = "idle"
  BY DEF SaysClosed
<1>2. ReadDataRef(e)
  <2>1. PICK d \in Envs : Begin(d) \/ Continue(d) \/ Dispatch(d) \/ Die(d)
    BY <1>1 DEF Next, vars
  <2>2. ~Dispatch(d) /\ ~Die(d)
    BY <1>1 DEF Dispatch, Die, End, Goto, CInv, CountTypes
  <2>3. d = e
    BY <1>1, <2>1, <2>2, OnlyReadFdRef
  <2>4. ~Begin(e)
    BY <1>1 DEF Begin, CallRead, CallWrite, CallCheck, CallClose, CallDup, CallFork,
                MakeChild, Call, At
  <2> QED
    BY <1>1, <2>1, <2>2, <2>3, <2>4 DEF Continue, ReadTest, Take, Taken, WriteTest, Store,
       Stored, ReadFdRef, UnmapFd, UnmapData, MapData, MapFd, ShareFd, ShareData, Start, At
<1>3. e \in running /\ same[e]
  BY <1>1, <1>2 DEF ReadDataRef, At, Trust, Goto, CInv, CountTypes
<1>4. FdRefs(end[e]) = DataRefs
  BY <1>1, <1>3 DEF Attended
<1>5. e \in started /\ fds[e][end[e]] > 0 /\ end[e] \in Ends
  BY <1>1, <1>3 DEF CInv, CountTypes, Holds
<1> QED
  BY <1>1, <1>4, <1>5, EqualCounts

(* With one processor no call ever takes an open end for closed, whatever  *)
(* forks, duplicates, closes or dies between its two reads: an environment *)
(* that was interrupted reads again.  With two processors the run          *)
(* pipe_race shows that it may.                                            *)
THEOREM OneProcessor == ASSUME NCPU = 1 PROVE Spec => ClosedIsTrue
<1>1. Init => Attended
  BY EnvsAssumption DEF Init, Attended
<1>2. Attended /\ AllInv /\ [Next]_vars => Attended'
  BY AttendedStep
<1>3. Attended /\ AllInv /\ [Next]_vars
        => [\A e \in Envs : SaysClosed(e) => ~Open(OtherEnd(end[e]))]_vars
  BY ClosedStep
<1> QED
  BY AllInvariance, <1>1, <1>2, <1>3, PTL DEF Spec, ClosedIsTrue
=============================================================================
