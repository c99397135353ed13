------------------------------- MODULE FileServer -------------------------------
(***************************************************************************)
(* The file server of TP 4, fs/serv.c, with its clients, lib/file.c and    *)
(* lib/fd.c.                                                               *)
(*                                                                         *)
(* An open file is a page that holds a struct Fd.  The server gives it to  *)
(* the client that opens the file, and from then on the client's           *)
(* descriptors are mappings of this page, which dup() and fork() multiply  *)
(* without telling the server.  The server finds out that nobody has the   *)
(* file open any more by the reference count of the page: an entry of      *)
(* opentab[] whose page only the server maps is given to the next open().  *)
(*                                                                         *)
(* A request is one message to the server and one back (module Ipc, whose  *)
(* abstract form, a meeting of the two, is a step here).  What files       *)
(* contain is in module Fs.                                                *)
(***************************************************************************)
EXTENDS Naturals, FiniteSets

CONSTANTS Clients,    \* slots of envs[] that hold clients
          First,      \* the one that exists at the start
          FileOf,     \* the file each client opens
          MAXOPEN,    \* entries of opentab[]; 1024 in the code
          MAXFD,      \* descriptors of a client; 32 in the code
          MaxOffset,  \* bound on offsets
          MaxOpens,   \* bound on the calls of open()
          None

Files == {FileOf[c] : c \in Clients}

ASSUME ServerAssumption ==
    /\ IsFiniteSet(Clients) /\ First \in Clients /\ DOMAIN FileOf = Clients
    /\ {MAXOPEN, MAXFD} \subseteq Nat \ {0} /\ {MaxOffset, MaxOpens} \subseteq Nat
    /\ None \notin Clients \cup Files

Entries == 0..MAXOPEN-1

VARIABLES
    opens,      \* o_fileid \div MAXOPEN of each entry: how often it was given out
    o_file,     \* o_file: the file of each entry
    allocated,  \* the entries with a page at o_fd
    fd_id,      \* fd_file.id in this page, as o_fileid \div MAXOPEN
    fd_offset,  \* fd_offset in this page
    maps,       \* the descriptors of each client that map the page of each entry
    alive,
    pc,         \* what each client is about to do
    args,       \* its fsipcbuf, and the entry its descriptor maps
    spc,        \* what the server is about to do
    whom,       \* the client it serves; None when that one has gone meanwhile
    req,        \* the request at fsreq
    o           \* the entry it works on; MAXOPEN stands for an error to return

tabVars    == <<opens, o_file, allocated>>
pageVars   == <<fd_id, fd_offset>>
clientVars == <<alive, pc, args>>
serverVars == <<spc, whom, req, o>>
allVars    == <<tabVars, pageVars, maps, clientVars, serverVars>>

(* After serve_init(), fs_init() and fs_test(). *)
ServerInit ==
    /\ opens = [i \in Entries |-> 0] /\ o_file = [i \in Entries |-> None]
    /\ allocated = {} /\ fd_id = [i \in Entries |-> 0]
    /\ fd_offset = [i \in Entries |-> 0]
    /\ maps = [c \in Clients |-> [i \in Entries |-> 0]]
    /\ alive = {First} /\ pc = [c \in Clients |-> "idle"]
    /\ args = [c \in Clients |-> None]
    /\ spc = "recv" /\ whom = None /\ req = None /\ o = 0

pageref(i) == Cardinality({i} \cap allocated)
              + Cardinality({m \in Clients \X (1..MAXFD) : m[2] <= maps[m[1]][i]})

Fds(c)   == Cardinality({m \in Entries \X (1..MAXFD) : m[2] <= maps[c][m[1]]})
GivenOut == Cardinality({n \in Entries \X (1..MaxOpens) : n[2] <= opens[n[1]]})

Goto(c, point) == pc' = [pc EXCEPT ![c] = point]
At(c, point)   == c \in alive /\ pc[c] = point

-----------------------------------------------------------------------------
(* The client *)

(* fsipc() with the request r. *)
Call(c, r) ==
    /\ At(c, "idle")
    /\ args' = [args EXCEPT ![c] = r]
    /\ Goto(c, "send")
    /\ UNCHANGED <<tabVars, pageVars, maps, alive, serverVars>>

Opening == {c \in Clients : args[c] # None /\ args[c].type = "open"}

(* open().  fd_alloc() finds a free descriptor. *)
CallOpen(c) ==
    /\ Fds(c) < MAXFD
    /\ GivenOut + Cardinality(Opening) < MaxOpens
    /\ Call(c, [type |-> "open", file |-> FileOf[c], fd |-> None, id |-> 0])

(* read() and write(), which move the offset; also fstat() and ftruncate(), *)
(* which do not.                                                           *)
(* The identifier in the request comes from the page of the descriptor.    *)
CallMove(c, i) ==
    maps[c][i] > 0 /\ Call(c, [type |-> "move", file |-> None, fd |-> i, id |-> fd_id[i]])

(* close(): devfile_flush(), and then the page is unmapped. *)
CallClose(c, i) ==
    maps[c][i] > 0 /\ Call(c, [type |-> "flush", file |-> None, fd |-> i, id |-> fd_id[i]])

(* The end of fd_close(), whatever the answer was. *)
Unmap(c) ==
    /\ At(c, "unmap")
    /\ maps' = [maps EXCEPT ![c][args[c].fd] = @ - 1]
    /\ args' = [args EXCEPT ![c] = None] /\ Goto(c, "idle")
    /\ UNCHANGED <<tabVars, pageVars, alive, serverVars>>

(* sys_ipc_recv(): until then the server cannot answer. *)
Wait(c) ==
    /\ At(c, "sent")
    /\ Goto(c, "wait")
    /\ UNCHANGED <<tabVars, pageVars, maps, alive, args, serverVars>>

(* The client writes to the page.  In the programs nobody else is in a     *)
(* request on this open file meanwhile.                                    *)
Seek(c, i) ==
    /\ At(c, "idle") /\ maps[c][i] > 0
    /\ \A d \in Clients : args[d] # None => args[d].fd # i
    /\ fd_offset' = [fd_offset EXCEPT ![i] = 0]
    /\ UNCHANGED <<tabVars, fd_id, maps, clientVars, serverVars>>

(* dup() to a descriptor that is not open. *)
Dup(c, i) ==
    /\ At(c, "idle") /\ maps[c][i] > 0 /\ Fds(c) < MAXFD
    /\ maps' = [maps EXCEPT ![c][i] = @ + 1]
    /\ UNCHANGED <<tabVars, pageVars, clientVars, serverVars>>

(* fork() and spawn() share the pages of the descriptors. *)
Fork(c, k) ==
    /\ At(c, "idle") /\ k \notin alive
    /\ alive' = alive \cup {k}
    /\ maps' = [maps EXCEPT ![k] = maps[c]]
    /\ UNCHANGED <<tabVars, pageVars, pc, args, serverVars>>

(* The client exits, faults or is destroyed, in the middle of whatever it  *)
(* does.  Its slot is free for another one.                                *)
Die(c) ==
    /\ c \in alive
    /\ alive' = alive \ {c}
    /\ maps' = [maps EXCEPT ![c] = [i \in Entries |-> 0]]
    /\ args' = [args EXCEPT ![c] = None] /\ Goto(c, "idle")
    /\ whom' = IF whom = c THEN None ELSE whom
    /\ UNCHANGED <<tabVars, pageVars, spc, req, o>>

-----------------------------------------------------------------------------
(* The server *)

Server(from, to) == spc = from /\ spc' = to

(* ipc_recv() in serve(). *)
Receive(c) ==
    /\ At(c, "send")
    /\ Server("recv", IF args[c].type = "open" THEN "scan" ELSE "lookup")
    /\ whom' = c /\ req' = args[c] /\ o' = 0
    /\ Goto(c, "sent")
    /\ UNCHANGED <<tabVars, pageVars, maps, alive, args>>

(* One turn of openfile_alloc(), up to memset(). *)
FreeAlways(i) == TRUE                  \* Mutant: the count is not looked at
Free(i)       == pageref(i) \in {0, 1}

OffsetKept(i) == fd_offset             \* Mutant: the page is not cleared
Cleared(i)    == [fd_offset EXCEPT ![i] = 0]

Scan ==
    /\ spc = "scan" /\ o < MAXOPEN
    /\ \/ /\ Free(o)
          /\ allocated' = allocated \cup {o}
          /\ opens' = [opens EXCEPT ![o] = @ + 1]
          /\ fd_id' = [fd_id EXCEPT ![o] = 0] /\ fd_offset' = Cleared(o)
          /\ spc' = "fill" /\ UNCHANGED o
       \/ /\ ~Free(o)
          /\ o' = o + 1
          /\ UNCHANGED <<spc, opens, allocated, pageVars>>
    /\ UNCHANGED <<o_file, maps, clientVars, whom, req>>

(* -E_MAX_OPEN *)
ScanFails ==
    /\ o = MAXOPEN /\ Server("scan", "reply")
    /\ UNCHANGED <<tabVars, pageVars, maps, clientVars, whom, req, o>>

(* The rest of serve_open(), which may find no such file, or no space. *)
Fill ==
    /\ Server("fill", "reply")
    /\ \/ /\ o_file' = [o_file EXCEPT ![o] = req.file]
          /\ fd_id' = [fd_id EXCEPT ![o] = opens[o]]
          /\ UNCHANGED o
       \/ o' = MAXOPEN /\ UNCHANGED <<o_file, fd_id>>
    /\ UNCHANGED <<opens, allocated, fd_offset, maps, clientVars, whom, req>>

(* openfile_lookup() *)
Known(i) == pageref(i) > 1 /\ opens[i] = req.id

Lookup ==
    /\ Server("lookup", IF Known(req.fd) THEN "act" ELSE "reply")
    /\ o' = IF Known(req.fd) THEN req.fd ELSE MAXOPEN
    /\ UNCHANGED <<tabVars, pageVars, maps, clientVars, whom, req>>

(* The handlers; n bytes are read or written, none at the end of the file, *)
(* when it cannot grow, and by the other handlers.                         *)
Act(n) ==
    /\ Server("act", "reply")
    /\ req.type # "move" => n = 0
    /\ fd_offset[o] + n <= MaxOffset
    /\ fd_offset' = [fd_offset EXCEPT ![o] = @ + n]
    /\ UNCHANGED <<tabVars, fd_id, maps, clientVars, whom, req, o>>

(* The page of an open goes with the answer. *)
Grants == req.type = "open" /\ o # MAXOPEN

Maps == IF Grants THEN [maps EXCEPT ![whom][o] = @ + 1] ELSE maps

AnswersSuccess == whom # None /\ pc[whom] = "wait" /\ o # MAXOPEN   \* Mutant
Answers        == whom # None /\ pc[whom] = "wait"

(* ipc_send() to a client that waits; sys_page_unmap() of fsreq. *)
Reply ==
    /\ Server("reply", "recv")
    /\ Answers
    /\ maps' = Maps
    /\ IF req.type = "flush" THEN Goto(whom, "unmap") /\ UNCHANGED args
       ELSE Goto(whom, "idle") /\ args' = [args EXCEPT ![whom] = None]
    /\ whom' = None /\ req' = None /\ o' = 0
    /\ UNCHANGED <<tabVars, pageVars, alive>>

(* ... and to one that has gone: ipc_send() panics. *)
Panic ==
    /\ Server("reply", "panicked")
    /\ whom = None
    /\ req' = None /\ o' = 0
    /\ UNCHANGED <<tabVars, pageVars, maps, clientVars, whom>>

Serve == \/ \E c \in Clients : Receive(c)
         \/ Scan \/ ScanFails \/ Fill \/ Lookup
         \/ \E n \in 0..1 : Act(n)
         \/ Reply \/ Panic

-----------------------------------------------------------------------------
ServerNext ==
    \/ Serve
    \/ \E c \in Clients :
          \/ CallOpen(c)
          \/ \E i \in Entries : CallMove(c, i) \/ CallClose(c, i)
                                \/ Seek(c, i) \/ Dup(c, i)
          \/ Unmap(c) \/ Wait(c) \/ Die(c)
          \/ \E k \in Clients : Fork(c, k)

ServerSpec == ServerInit /\ [][ServerNext]_allVars

(* Every environment that can run gets a processor again and again; a      *)
(* client that has asked goes on, it need not ask.                         *)
Fairness == WF_allVars(Serve) /\ \A c \in Clients : WF_allVars(Wait(c) \/ Unmap(c))

FairServerSpec == ServerSpec /\ Fairness

-----------------------------------------------------------------------------
(* Properties *)

Requests == [type : {"open", "move", "flush"}, file : Files \cup {None},
             fd : Entries \cup {None}, id : Nat]

ServerTypeOK ==
    /\ opens \in [Entries -> Nat] /\ o_file \in [Entries -> Files \cup {None}]
    /\ allocated \subseteq Entries
    /\ fd_id \in [Entries -> Nat] /\ fd_offset \in [Entries -> 0..MaxOffset]
    /\ maps \in [Clients -> [Entries -> 0..MAXFD]] /\ alive \subseteq Clients
    /\ pc \in [Clients -> {"idle", "send", "sent", "wait", "unmap"}]
    /\ args \in [Clients -> Requests \cup {None}]
    /\ spc \in {"recv", "scan", "fill", "lookup", "act", "reply", "panicked"}
    /\ whom \in Clients \cup {None} /\ req \in Requests \cup {None}
    /\ o \in 0..MAXOPEN

(* Whoever waits for an answer is the client the server works for, on the  *)
(* request of this client, so each answer is the one to its own question.  *)
ServesWhoWaits ==
    /\ \A c \in Clients : pc[c] \in {"sent", "wait"} => whom = c
    /\ whom # None => /\ pc[whom] \in {"sent", "wait"} /\ req = args[whom]
                      /\ spc \notin {"recv", "panicked"}

(* A descriptor is an open file the server knows, by the identifier the    *)
(* client finds in the page; and the entry the server is working on for an *)
(* open() belongs to nobody yet.                                           *)
DescriptorsAreOpen ==
    /\ \A c \in Clients, i \in Entries : maps[c][i] > 0 =>
          i \in allocated /\ o_file[i] # None /\ fd_id[i] = opens[i]
    /\ spc = "fill" \/ (spc = "reply" /\ Grants) =>
          \A c \in Clients : maps[c][o] = 0

(* No request on a descriptor is refused, or served for another open file, *)
(* as long as its client lives: the identifier in the page is not stale,   *)
(* and the count of the page is not taken for that of a closed file.       *)
NeverRefused == spc = "lookup" /\ whom # None => Known(req.fd)

ServerIInv == ServerTypeOK /\ ServesWhoWaits /\ DescriptorsAreOpen /\ NeverRefused

(* opentab[], the pages and their counts implement open files that are     *)
(* shared, keep their offset, and are closed when nobody holds them.       *)
OpenIds == Entries \X (1..MaxOpens)

Holds(c, id) == IF opens[id[1]] = id[2] THEN maps[c][id[1]] ELSE 0
Held(id)     == \E c \in Clients : Holds(c, id) > 0

Abstract == INSTANCE OpenFiles WITH
    Offsets <- 0..1,
    Closed  <- None,
    holds   <- [c \in Clients |-> [id \in OpenIds |-> Holds(c, id)]],
    file    <- [id \in OpenIds |-> IF Held(id) THEN o_file[id[1]] ELSE None],
    offset  <- [id \in OpenIds |-> IF Held(id) THEN fd_offset[id[1]] ELSE 0]

ImplementsOpenFiles == Abstract!Spec

(* Every client that waits is answered, or dies, unless the server has     *)
(* panicked because another one died while it was served.                  *)
Answered == \A c \in Clients :
    pc[c] = "sent" ~> pc[c] \notin {"sent", "wait"} \/ spc = "panicked"
=============================================================================
