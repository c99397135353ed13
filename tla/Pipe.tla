---------------------------------- MODULE Pipe ----------------------------------
(***************************************************************************)
(* A pipe of TP 4 (lib/pipe.c) and the operations on descriptors that act  *)
(* on it (lib/fd.c, the PTE_SHARE pages of lib/fork.c and lib/spawn.c).    *)
(*                                                                         *)
(* A descriptor is two mappings: its fd page says which end it is, and all *)
(* descriptors of the pipe share one data page, the struct Pipe.  Nobody   *)
(* counts open ends: an end is closed when the fd page of the other end    *)
(* has no mapping left, which _pipeisclosed() reads off two reference      *)
(* counts, one after the other.  Descriptors of one end in one environment *)
(* are alike here, so they are counted.  A system call is a step, and so   *)
(* is an access to shared memory.                                          *)
(***************************************************************************)
EXTENDS Integers, Sequences, FiniteSets

CONSTANTS Envs,      \* the environments
          Creator,   \* the one that called pipe()
          Reader,    \* the only one that calls read()
          Writer,    \* the only one that calls write()
          MAXFD,     \* descriptors of an environment
          NCPU,      \* processors
          SIZE,      \* PIPEBUFSIZ; 32 in the code
          Limit      \* bound on the bytes that are written

ASSUME SizeAssumption == SIZE \in Nat \ {0} /\ NCPU \in Nat \ {0} /\ Limit \in Nat
ASSUME MaxfdAssumption == MAXFD \in Nat /\ MAXFD >= 2
ASSUME EnvsAssumption ==
    IsFiniteSet(Envs) /\ {Creator, Reader, Writer} \subseteq Envs /\ Reader # Writer

Ends == {"r", "w"}
OtherEnd(end) == IF end = "r" THEN "w" ELSE "r"

VARIABLES
    fds,        \* the mappings of the fd page of each end, per environment
    data,       \* the mappings of the data page, per environment
    started,    \* the environments that were made runnable
    running,    \* the environments that a processor executes
    rpos, wpos, \* p_rpos, p_wpos
    buf,        \* p_buf; byte number i of the stream is i
    got,        \* the bytes the reader has stored in its own buffer
    pc,         \* what each environment is about to do
    op,         \* the library call it is in
    end,        \* the end its descriptor is
    left,       \* n - i in devpipe_read() and devpipe_write()
    some,       \* i > 0 in devpipe_read()
    kid,        \* the child it is making
    same,       \* env_runs has not changed since it was read
    ref         \* pageref(fd) as it was read

mapVars  == <<fds, data>>
pipeVars == <<rpos, wpos, buf, got>>
runVars  == <<started, running>>
callVars == <<op, end, left, some, kid>>
testVars == <<same, ref>>
vars     == <<mapVars, pipeVars, runVars, pc, callVars, testVars>>

(* pipe() has returned to its caller. *)
Init ==
    /\ fds = [e \in Envs |-> [x \in Ends |-> IF e = Creator THEN 1 ELSE 0]]
    /\ data = [e \in Envs |-> IF e = Creator THEN 2 ELSE 0]
    /\ started = {Creator} /\ running = {Creator}
    /\ rpos = 0 /\ wpos = 0 /\ buf = [i \in 0..SIZE-1 |-> 0] /\ got = << >>
    /\ pc = [e \in Envs |-> "idle"] /\ op = [e \in Envs |-> "none"]
    /\ end = [e \in Envs |-> "r"] /\ left = [e \in Envs |-> 0]
    /\ some = [e \in Envs |-> FALSE] /\ kid = [e \in Envs |-> e]
    /\ same = [e \in Envs |-> FALSE] /\ ref = [e \in Envs |-> 0]

(* pageref() of the fd page of an end, and of the data page: how many      *)
(* mappings the environments have of it.                                   *)
FdRefs(x) == Cardinality({m \in Envs \X (1..MAXFD) : m[2] <= fds[m[1]][x]})
DataRefs  == Cardinality({m \in Envs \X (1..MAXFD) : m[2] <= data[m[1]]})

At(e, point)   == e \in running /\ pc[e] = point
Goto(e, point) == pc' = [pc EXCEPT ![e] = point]

Call(e, name, x, n, k, point) ==
    /\ At(e, "idle")
    /\ op' = [op EXCEPT ![e] = name] /\ end' = [end EXCEPT ![e] = x]
    /\ left' = [left EXCEPT ![e] = n] /\ kid' = [kid EXCEPT ![e] = k]
    /\ Goto(e, point)
    /\ UNCHANGED <<mapVars, pipeVars, runVars, some, testVars>>

(* What the call kept in its variables is forgotten. *)
End(e, point) ==
    /\ Goto(e, point)
    /\ op' = [op EXCEPT ![e] = "none"] /\ end' = [end EXCEPT ![e] = "r"]
    /\ left' = [left EXCEPT ![e] = 0] /\ some' = [some EXCEPT ![e] = FALSE]
    /\ kid' = [kid EXCEPT ![e] = e]

Return(e) == End(e, "idle")

-----------------------------------------------------------------------------
(* devpipe_read() *)

CallRead(e, n) == e = Reader /\ fds[e]["r"] > 0 /\ Call(e, "read", "r", n, e, "read")

ReadTest(e) ==
    /\ At(e, "read")
    /\ \/ rpos # wpos /\ Goto(e, "take") /\ UNCHANGED callVars
       \/ rpos = wpos /\ some[e] /\ Return(e)
       \/ rpos = wpos /\ ~some[e] /\ Goto(e, "fd") /\ UNCHANGED callVars
    /\ UNCHANGED <<mapVars, pipeVars, runVars, testVars>>

Take(e) ==
    /\ At(e, "take")
    /\ got' = Append(got, buf[rpos % SIZE])
    /\ Goto(e, "taken")
    /\ UNCHANGED <<mapVars, runVars, rpos, wpos, buf, callVars, testVars>>

(* The end of a turn of the loops over i. *)
Turn(e) ==
    \/ left[e] = 1 /\ Return(e)
    \/ /\ left[e] > 1 /\ Goto(e, op[e])
       /\ left' = [left EXCEPT ![e] = @ - 1]
       /\ some' = [some EXCEPT ![e] = op[e] = "read"]
       /\ UNCHANGED <<op, end, kid>>

Taken(e) ==
    /\ At(e, "taken")
    /\ rpos' = rpos + 1
    /\ Turn(e)
    /\ UNCHANGED <<mapVars, runVars, wpos, buf, got, testVars>>

-----------------------------------------------------------------------------
(* devpipe_write() *)

CallWrite(e, n) ==
    /\ e = Writer /\ fds[e]["w"] > 0 /\ wpos + n <= Limit
    /\ Call(e, "write", "w", n, e, "write")

FullLate == wpos > rpos + SIZE          \* Mutant: one byte too many
Full     == wpos >= rpos + SIZE

WriteTest(e) ==
    /\ At(e, "write")
    /\ Goto(e, IF Full THEN "fd" ELSE "store")
    /\ UNCHANGED <<mapVars, pipeVars, runVars, callVars, testVars>>

Store(e) ==
    /\ At(e, "store")
    /\ buf' = [buf EXCEPT ![wpos % SIZE] = wpos + 1]
    /\ Goto(e, "stored")
    /\ UNCHANGED <<mapVars, runVars, rpos, wpos, got, callVars, testVars>>

Stored(e) ==
    /\ At(e, "stored")
    /\ wpos' = wpos + 1
    /\ Turn(e)
    /\ UNCHANGED <<mapVars, runVars, rpos, buf, got, testVars>>

-----------------------------------------------------------------------------
(* _pipeisclosed(), called by the loops above and by pipeisclosed() *)

CallCheck(e, x) == fds[e][x] > 0 /\ Call(e, "check", x, 0, e, "fd")

(* n = thisenv->env_runs and then pageref(fd).  env_runs only changes when *)
(* e is taken up again, before its next step, so it needs no step of its   *)
(* own here or below.                                                      *)
ReadFdRef(e) ==
    /\ At(e, "fd")
    /\ same' = [same EXCEPT ![e] = TRUE]
    /\ ref' = [ref EXCEPT ![e] = FdRefs(end[e])]
    /\ Goto(e, "data")
    /\ UNCHANGED <<mapVars, pipeVars, runVars, callVars>>

TrustAlways(e) == TRUE                  \* Mutant: env_runs is not compared
Trust(e)       == same[e]

(* pageref(p), nn = thisenv->env_runs, and what the callers do with ret. *)
ReadDataRef(e) ==
    /\ At(e, "data")
    /\ \/ ~Trust(e) /\ Goto(e, "fd") /\ UNCHANGED callVars
       \/ Trust(e) /\ (ref[e] = DataRefs \/ op[e] = "check") /\ Return(e)
       \/ /\ Trust(e) /\ ref[e] # DataRefs /\ op[e] # "check"
          /\ Goto(e, op[e]) /\ UNCHANGED callVars    \* sys_yield(), and again
    /\ same' = [same EXCEPT ![e] = FALSE] /\ ref' = [ref EXCEPT ![e] = 0]
    /\ UNCHANGED <<mapVars, pipeVars, runVars>>

-----------------------------------------------------------------------------
(* close() and dup() *)

CallClose(e, x) == fds[e][x] > 0 /\ Call(e, "close", x, 0, e, "unmap_fd")

(* devpipe_close() *)
UnmapFd(e) ==
    /\ At(e, "unmap_fd")
    /\ fds' = [fds EXCEPT ![e][end[e]] = @ - 1]
    /\ Goto(e, "unmap_data")
    /\ UNCHANGED <<data, pipeVars, runVars, callVars, testVars>>

UnmapDataNever(e) ==                    \* Mutant: only the fd page goes
    /\ At(e, "unmap_data")
    /\ Return(e)
    /\ UNCHANGED <<mapVars, pipeVars, runVars, testVars>>
UnmapData(e) ==
    /\ At(e, "unmap_data")
    /\ data' = [data EXCEPT ![e] = @ - 1]
    /\ Return(e)
    /\ UNCHANGED <<fds, pipeVars, runVars, testVars>>

(* dup() to a descriptor that is not open; to one that is, it is close()   *)
(* and then this.                                                          *)
CallDup(e, x) ==
    /\ fds[e][x] > 0 /\ fds[e]["r"] + fds[e]["w"] < MAXFD
    /\ Call(e, "dup", x, 0, e, "map_data")

MapData(e) ==
    /\ At(e, "map_data")
    /\ data' = [data EXCEPT ![e] = @ + 1]
    /\ Goto(e, "map_fd")
    /\ UNCHANGED <<fds, pipeVars, runVars, callVars, testVars>>

MapFd(e) ==
    /\ At(e, "map_fd")
    /\ fds' = [fds EXCEPT ![e][end[e]] = @ + 1]
    /\ Return(e)
    /\ UNCHANGED <<data, pipeVars, runVars, testVars>>

-----------------------------------------------------------------------------
(* fork() and spawn() share the pages of descriptors in address order: the *)
(* fd pages come before the data pages.                                    *)

MakeChild(e, k) ==
    /\ k \notin started /\ \A d \in Envs \ {k} : kid[d] # k
    /\ \E x \in Ends : fds[e][x] > 0
    /\ Call(e, "fork", "r", 0, k, "share")

(* In the tests an environment makes a child while nobody else has open    *)
(* an end that it has open.  The shell is less careful: see module Shell.  *)
NobodyElseHas(e) ==
    \A d \in Envs \ {e}, x \in Ends : fds[e][x] > 0 => fds[d][x] = 0

CallFork(e, k) == NobodyElseHas(e) /\ MakeChild(e, k)

ShareFd(e) ==
    /\ At(e, "share")
    /\ \E x \in Ends :
          /\ fds[kid[e]][x] < fds[e][x]
          /\ fds' = [fds EXCEPT ![kid[e]][x] = @ + 1]
    /\ UNCHANGED <<data, pipeVars, runVars, pc, callVars, testVars>>

ShareData(e) ==
    /\ At(e, "share") /\ fds[kid[e]] = fds[e]
    /\ data[kid[e]] < data[e]
    /\ data' = [data EXCEPT ![kid[e]] = @ + 1]
    /\ UNCHANGED <<fds, pipeVars, runVars, pc, callVars, testVars>>

(* sys_env_set_status() *)
Start(e) ==
    /\ At(e, "share") /\ fds[kid[e]] = fds[e] /\ data[kid[e]] = data[e]
    /\ started' = started \cup {kid[e]}
    /\ Return(e)
    /\ UNCHANGED <<running, mapVars, pipeVars, testVars>>

(* env_free(): the environment faults or another one destroys it.  One     *)
(* that is making a child does not die.                                    *)
Die(e) ==
    /\ e \in started /\ pc[e] \notin {"share", "dead"}
    /\ \E d \in running : d = e \/ pc[d] = "idle"
    /\ fds' = [fds EXCEPT ![e] = [x \in Ends |-> 0]]
    /\ data' = [data EXCEPT ![e] = 0]
    /\ running' = running \ {e}
    /\ End(e, "dead")
    /\ same' = [same EXCEPT ![e] = FALSE] /\ ref' = [ref EXCEPT ![e] = 0]
    /\ UNCHANGED <<started, pipeVars>>

-----------------------------------------------------------------------------
(* env_run(): a processor takes up an environment, and leaves another one  *)
(* when all are busy.  env_runs of the one it takes up changes.            *)
Dispatch(e) ==
    /\ e \in started \ running /\ pc[e] # "dead"
    /\ \/ Cardinality(running) < NCPU /\ running' = running \cup {e}
       \/ /\ Cardinality(running) = NCPU
          /\ \E d \in running : running' = (running \ {d}) \cup {e}
    /\ same' = [same EXCEPT ![e] = FALSE]
    /\ UNCHANGED <<started, mapVars, pipeVars, pc, callVars, ref>>

Continue(e) ==
    \/ ReadTest(e) \/ Take(e) \/ Taken(e)
    \/ WriteTest(e) \/ Store(e) \/ Stored(e)
    \/ ReadFdRef(e) \/ ReadDataRef(e)
    \/ UnmapFd(e) \/ UnmapData(e) \/ MapData(e) \/ MapFd(e)
    \/ ShareFd(e) \/ ShareData(e) \/ Start(e)

Begin(e) ==
    \/ CallRead(e, 2) \/ \E n \in 1..2 : CallWrite(e, n)
    \/ \E x \in Ends : CallCheck(e, x) \/ CallClose(e, x) \/ CallDup(e, x)
    \/ \E k \in Envs : CallFork(e, k)

Next == \E e \in Envs : Begin(e) \/ Continue(e) \/ Dispatch(e) \/ Die(e)

Spec == Init /\ [][Next]_vars

(* Module Kernel: every environment that can run gets a processor again    *)
(* and again, for a time slice that is long enough for a step.  It is also *)
(* much longer than _pipeisclosed(): not every comparison is interrupted.  *)
Fairness == \A e \in Envs :
    /\ WF_vars(Dispatch(e)) /\ SF_vars(Continue(e))
    /\ []<><<ReadFdRef(e)>>_vars => []<><<ReadDataRef(e) /\ same[e]>>_vars

FairSpec == Spec /\ Fairness

-----------------------------------------------------------------------------
(* Properties *)

Open(x) == \E e \in Envs : fds[e][x] > 0

TypeOK ==
    /\ fds \in [Envs -> [Ends -> 0..MAXFD]] /\ data \in [Envs -> 0..MAXFD]
    /\ started \subseteq Envs /\ running \subseteq started
    /\ rpos \in 0..Limit /\ wpos \in 0..Limit
    /\ buf \in [0..SIZE-1 -> 0..Limit] /\ got \in Seq(1..Limit)
    /\ pc \in [Envs -> {"idle", "read", "take", "taken", "write", "store", "stored",
                        "fd", "data", "unmap_fd", "unmap_data",
                        "map_data", "map_fd", "share", "dead"}]
    /\ op \in [Envs -> {"none", "read", "write", "check", "close", "dup", "fork"}]
    /\ end \in [Envs -> Ends] /\ left \in [Envs -> 0..2]
    /\ some \in [Envs -> BOOLEAN] /\ kid \in [Envs -> Envs]
    /\ same \in [Envs -> BOOLEAN] /\ ref \in [Envs -> Nat]

(* The counts add up, but for the one step in the middle of close() and of *)
(* dup(): there the data page has a mapping more than the ends, never one  *)
(* less, which would make an open end look closed.                         *)
DataCoversEnds ==
    \A e \in Envs : (\A d \in Envs \ {e} : kid[d] # e) =>
        data[e] = fds[e]["r"] + fds[e]["w"]
                  + (IF pc[e] \in {"unmap_data", "map_fd"} THEN 1 ELSE 0)

(* The ring holds the bytes that are under way, each at its place. *)
RingHolds ==
    /\ rpos <= wpos /\ wpos <= rpos + SIZE
    /\ \A i \in rpos..wpos-1 : buf[i % SIZE] = i + 1

IInv == TypeOK /\ DataCoversEnds /\ RingHolds

(* Some step of e ends a call that found the other end closed. *)
SaysClosed(e) ==
    pc[e] = "data" /\ ref[e] = DataRefs /\ pc'[e] = "idle"

(* testpiperace2.c: while somebody has the other end open no call takes it *)
(* for closed, whatever dup(), close() and fork() do to the counts it      *)
(* reads one after the other.                                              *)
ClosedIsTrue == [][\A e \in Envs : SaysClosed(e) => ~Open(OtherEnd(end[e]))]_vars

(* The bytes come out in the order they went in, each once, and the buffer *)
(* is never overrun, although its positions are tested and moved without   *)
(* any lock.  A byte is got before its place is free.                      *)
Stream == INSTANCE ByteStream WITH
    Bytes    <- 1..Limit,
    Capacity <- SIZE,
    written  <- [i \in 1..wpos |-> i],
    taken    <- got

ImplementsByteStream == Stream!Spec

(* A reader that waits for bytes, or a writer that waits for room, does    *)
(* not wait for ever when nobody has the other end open.  It may only miss *)
(* the end as long as others are in the middle of dup() or close().        *)
Halfway(e) == pc[e] \in {"unmap_data", "map_fd", "share"}

WaitsInVain(e) ==
    /\ op[e] \in {"read", "write"} /\ ~Open(OtherEnd(end[e]))
    /\ \A d \in Envs : ~Halfway(d)

WaitingEnds == \A e \in Envs : []<>~WaitsInVain(e)
=============================================================================
