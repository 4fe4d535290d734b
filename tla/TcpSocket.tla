----------------------------- MODULE TcpSocket -----------------------------
(***************************************************************************)
(* transport/builtin/TcpSocket.hpp: the life of a descriptor in the hands  *)
(* of TcpSocket objects, and the connect, wait, read and write loops over  *)
(* the non-blocking calls of the kernel.                                   *)
(*                                                                         *)
(* A step ends at a system call.  The kernel is modelled by what these     *)
(* calls do on Linux: a new descriptor has the lowest free number, close   *)
(* gives it up even when it reports an error, and a descriptor that select *)
(* reports as ready is ready.  After EINTR the loops make the same call    *)
(* again, a select with the time that is left: a stuttering step.  Other   *)
(* parts of the program open descriptors at any time.                      *)
(*                                                                         *)
(* The user makes one call at a time, does not use an object it has moved  *)
(* from, connects after a successful init, and reads and writes after a    *)
(* successful connect.                                                     *)
(***************************************************************************)
EXTENDS Integers

CONSTANTS
  Objects,   (* TcpSocket objects: the first one and those moved to *)
  MaxFd,     (* descriptors the process may have, the limit of EMFILE *)
  MaxBytes,  (* room in the kernel's receive queue (bound) *)
  Lens,      (* sizes of the span passed to read_some; BufferedSocket passes no
                empty one *)
  Reuse      (* whether the user calls init again after close *)

VARIABLES
  obj,        (* each object: unborn, live, moved from, dead *)
  fd,         (* fd_ of each object *)
  connected,  (* connected_ of each object *)
  table,      (* the kernel's descriptors: free, ours, others' *)
  link,       (* the kernel's socket behind our descriptor *)
  avail,      (* bytes that have arrived and that no read_some has reported *)
  fin,        (* the peer has closed its side *)
  room,       (* its send queue takes bytes *)
  pc,         (* the system call that comes next, "idle" between calls *)
  call,       (* the call in progress: its object, its name, its span *)
  expired,    (* its timeout has run out *)
  res,        (* what the last call returned *)
  stale       (* history: objects whose last ::close reported an error *)

vars == <<obj, fd, connected, table, link, avail, fin, room, pc, call, expired, res,
          stale>>
kernelVars == <<table, link, avail, fin, room>>
objectVars == <<obj, fd, connected, stale>>

None == -1
Fds == 0..(MaxFd - 1)
NoCall == [on |-> "nobody", name |-> "none", len |-> 0]

Free == {d \in Fds : table[d] = "free"}

(* The number the kernel gives to the next descriptor. *)
Lowest(d) == d \in Free /\ \A e \in Free : d <= e

Return(r) ==
  /\ pc' = "idle"
  /\ call' = NoCall
  /\ expired' = FALSE
  /\ res' = r

(* A call that returns without a wait. *)
Result(r) ==
  /\ res' = r
  /\ UNCHANGED <<pc, call, expired>>

Begin(o, name, len, label) ==
  /\ pc' = label
  /\ call' = [on |-> o, name |-> name, len |-> len]
  /\ expired' = FALSE
  /\ UNCHANGED res

-----------------------------------------------------------------------------
(* construction, init, move, destruction *)

Init ==
  /\ \E o \in Objects : obj = [p \in Objects |-> IF p = o THEN "live" ELSE "unborn"]
  /\ fd = [o \in Objects |-> None]
  /\ connected = [o \in Objects |-> FALSE]
  /\ table = [d \in Fds |-> "free"]
  /\ link = "none" /\ avail = 0 /\ fin = FALSE /\ room = TRUE
  /\ pc = "idle" /\ call = NoCall /\ expired = FALSE /\ res = "none"
  /\ stale = {}

(* socket(), then the options: a failure of one of these leaves fd_ set *)
init(o) ==
  /\ pc = "idle" /\ obj[o] = "live"
  /\ Reuse \/ ~connected[o]
  /\ \/ /\ fd[o] # None \/ Free = {}
        /\ Result("error")
        /\ UNCHANGED <<fd, kernelVars>>
     \/ /\ fd[o] = None
        /\ \E d \in Free : /\ Lowest(d)
                           /\ table' = [table EXCEPT ![d] = "ours"]
                           /\ fd' = [fd EXCEPT ![o] = d]
        /\ link' \in {"fresh", "raw"}
        /\ avail' = 0 /\ fin' = FALSE /\ room' = TRUE
        /\ Result(IF link' = "fresh" THEN "ok" ELSE "error")
  /\ UNCHANGED <<obj, connected, stale>>

(* Mutant: both objects keep the descriptor. *)
moved_fdMutant(o, p) == [fd EXCEPT ![p] = fd[o]]

(* fd_(other.fd_), then other.fd_ = -1 *)
moved_fd(o, p) == [fd EXCEPT ![p] = fd[o], ![o] = None]

(* TcpSocket p(std::move(o)) *)
move(o, p) ==
  /\ pc = "idle" /\ obj[o] = "live" /\ obj[p] = "unborn"
  /\ obj' = [obj EXCEPT ![o] = "moved", ![p] = "live"]
  /\ fd' = moved_fd(o, p)
  /\ connected' = [connected EXCEPT ![p] = connected[o]]
  /\ stale' = (IF o \in stale THEN stale \cup {p} ELSE stale)
  /\ UNCHANGED <<kernelVars, pc, call, expired, res>>

(* ::close(fd_): the descriptor is free in any case, whoever owned it; fd_
   is reset only when no error is reported *)
close_fd(o, ok) ==
  /\ table' = [table EXCEPT ![fd[o]] = "free"]
  /\ link' = "none" /\ avail' = 0 /\ fin' = FALSE /\ room' = TRUE
  /\ \/ /\ ok /\ table[fd[o]] # "free"
        /\ fd' = [fd EXCEPT ![o] = None] /\ stale' = stale \ {o}
     \/ ~ok /\ fd' = fd /\ stale' = stale \cup {o}

close(o) ==
  /\ pc = "idle" /\ obj[o] = "live"
  /\ \/ fd[o] = None /\ Result("ok") /\ UNCHANGED <<fd, stale, kernelVars>>
     \/ fd[o] # None /\ close_fd(o, TRUE) /\ Result("ok")
     \/ fd[o] # None /\ close_fd(o, FALSE) /\ Result("error")
  /\ UNCHANGED <<obj, connected>>

(* ~TcpSocket *)
destroy(o) ==
  /\ pc = "idle" /\ obj[o] \in {"live", "moved"}
  /\ obj' = [obj EXCEPT ![o] = "dead"]
  /\ \/ fd[o] = None /\ UNCHANGED <<fd, stale, kernelVars>>
     \/ fd[o] # None /\ \E ok \in BOOLEAN : close_fd(o, ok)
  /\ UNCHANGED <<connected, pc, call, expired, res>>

(* shutdown(fail_connection): ::shutdown unless the connection is failed;
   it aborts a connect in progress and reports a socket without connection *)
shutdown(o) ==
  /\ pc = "idle" /\ obj[o] = "live" /\ o \notin stale
  /\ \/ Result("ok") /\ UNCHANGED link
     \/ /\ fd[o] # None
        /\ \/ link \in {"up", "shut"} /\ link' = "shut" /\ Result("ok")
           \/ link = "connecting" /\ link' = "fresh" /\ Result("ok")
           \/ link # "up" /\ link' = link /\ Result("error")
  /\ UNCHANGED <<objectVars, table, avail, fin, room>>

-----------------------------------------------------------------------------
(* connect *)

connect(o) ==
  /\ pc = "idle" /\ obj[o] = "live"
  /\ \/ fd[o] = None /\ Result("error")
     \/ fd[o] # None /\ connected[o] /\ Result("already established")
     \/ /\ fd[o] # None /\ ~connected[o]
        /\ link \notin {"none", "raw"}
        /\ Begin(o, "connect", 0, "connect")
  /\ UNCHANGED <<objectVars, kernelVars>>

(* ::connect: at once, also when an earlier attempt that timed out has succeeded
   since; in progress; or an error, which it is too while that attempt goes on *)
connect_start ==
  /\ pc = "connect"
  /\ \/ /\ link \in {"fresh", "up"} /\ link' = "up"
        /\ connected' = [connected EXCEPT ![call.on] = TRUE]
        /\ Return("ok")
     \/ /\ link = "fresh" /\ link' = "connecting"
        /\ pc' = "select"
        /\ UNCHANGED <<connected, call, expired, res>>
     \/ /\ link' = (IF link = "refused" THEN "fresh" ELSE link)
        /\ Return("error")
        /\ UNCHANGED connected
  /\ UNCHANGED <<obj, fd, stale, table, avail, fin, room>>

(* Mutant: a writable socket is taken for a connected one. *)
connect_finishMutant ==
  /\ pc = "so_error"
  /\ link \in {"up", "refused"}
  /\ connected' = [connected EXCEPT ![call.on] = TRUE]
  /\ Return("ok")
  /\ UNCHANGED <<obj, fd, stale, kernelVars>>

(* getsockopt(SO_ERROR), which also clears the error, and which may itself
   fail *)
connect_finish ==
  /\ pc = "so_error"
  /\ \/ /\ link = "up"
        /\ connected' = [connected EXCEPT ![call.on] = TRUE]
        /\ Return("ok")
        /\ UNCHANGED link
     \/ /\ link' = (IF link = "refused" THEN "fresh" ELSE link)
        /\ Return("error")
        /\ UNCHANGED connected
  /\ UNCHANGED <<obj, fd, stale, table, avail, fin, room>>

-----------------------------------------------------------------------------
(* wait_readable, wait_writeable, read_some, write_some *)

Usable(o) == pc = "idle" /\ obj[o] = "live" /\ link \in {"up", "shut"} /\ connected[o]

wait_readable(o) ==
  /\ Usable(o)
  /\ Begin(o, "wait", 0, "select")
  /\ UNCHANGED <<objectVars, kernelVars>>

read_some(o) ==
  /\ Usable(o)
  /\ \E len \in Lens : Begin(o, "read", len, "recv")
  /\ UNCHANGED <<objectVars, kernelVars>>

write_some(o) ==
  /\ Usable(o)
  /\ Begin(o, "write", 0, "send")
  /\ UNCHANGED <<objectVars, kernelVars>>

Readable == avail > 0 \/ fin \/ link = "shut"
Writable == link \in {"refused", "shut"} \/ (link = "up" /\ room)

(* What select waits for in the call in progress. *)
Ready == IF call.name \in {"wait", "read"} THEN Readable ELSE Writable

(* Where the code goes on when select has found the descriptor ready. *)
After == [connect |-> "so_error", read |-> "recv", write |-> "send"][call.name]

(* Mutant: only wait_readable passes the remaining time to select. *)
select_timeoutMutant ==
  /\ pc = "select" /\ expired /\ ~Ready
  /\ call.name = "wait"
  /\ Return("no")
  /\ UNCHANGED <<objectVars, kernelVars>>

(* select returns 0: no time remains and the descriptor is not ready *)
select_timeout ==
  /\ pc = "select" /\ expired /\ ~Ready
  /\ Return(IF call.name = "wait" THEN "no" ELSE "timeout")
  /\ UNCHANGED <<objectVars, kernelVars>>

(* select returns 1 *)
select_ready ==
  /\ pc = "select" /\ Ready
  /\ \/ call.name = "wait" /\ Return("ok")
     \/ /\ call.name # "wait"
        /\ pc' = After
        /\ UNCHANGED <<call, expired, res>>
  /\ UNCHANGED <<objectVars, kernelVars>>

(* select fails *)
select_failed ==
  /\ pc = "select"
  /\ Return("error")
  /\ UNCHANGED <<objectVars, kernelVars>>

(* Mutant: the size of the span is reported, not what recv has returned. *)
recvCountMutant ==
  /\ pc = "recv"
  /\ \/ avail > 0 /\ avail' = avail - call.len /\ Return("ok")
     \/ avail = 0 /\ Readable /\ Return("closed") /\ UNCHANGED avail
     \/ ~Readable /\ pc' = "select" /\ UNCHANGED <<avail, call, expired, res>>
     \/ Return("error") /\ UNCHANGED avail
  /\ UNCHANGED <<objectVars, table, link, fin, room>>

(* Mutant: EAGAIN is not told from the end of the stream. *)
recvMutant ==
  /\ pc = "recv"
  /\ \/ \E n \in 1..call.len : n <= avail /\ avail' = avail - n /\ Return("ok")
     \/ avail = 0 /\ Return("closed") /\ UNCHANGED avail
  /\ UNCHANGED <<objectVars, table, link, fin, room>>

(* ::recv: some bytes, the end of the stream, nothing yet, or an error *)
recv ==
  /\ pc = "recv"
  /\ \/ \E n \in 1..call.len : n <= avail /\ avail' = avail - n /\ Return("ok")
     \/ avail = 0 /\ Readable /\ Return("closed") /\ UNCHANGED avail
     \/ ~Readable /\ pc' = "select" /\ UNCHANGED <<avail, call, expired, res>>
     \/ Return("error") /\ UNCHANGED avail
  /\ UNCHANGED <<objectVars, table, link, fin, room>>

(* ::send: some bytes are taken, which may fill the queue; or the queue is
   full; or an error, the only outcome after a shutdown *)
send ==
  /\ pc = "send"
  /\ \/ link = "up" /\ room /\ room' \in BOOLEAN /\ Return("ok")
     \/ /\ link = "up" /\ ~room
        /\ pc' = "select"
        /\ UNCHANGED <<room, call, expired, res>>
     \/ Return("error") /\ UNCHANGED room
  /\ UNCHANGED <<objectVars, table, link, avail, fin>>

-----------------------------------------------------------------------------
(* the peer, the clock, and the rest of the program *)

Peer ==
  /\ \/ link = "connecting" /\ link' \in {"up", "refused"} /\ UNCHANGED <<avail, fin, room>>
     \/ /\ link = "up" /\ ~fin /\ avail < MaxBytes
        /\ avail' = avail + 1
        /\ UNCHANGED <<link, fin, room>>
     \/ link = "up" /\ ~fin /\ fin' = TRUE /\ UNCHANGED <<link, avail, room>>
     \/ link = "up" /\ ~room /\ room' = TRUE /\ UNCHANGED <<link, avail, fin>>
  /\ UNCHANGED <<objectVars, table, pc, call, expired, res>>

Expire ==
  /\ pc # "idle" /\ ~expired
  /\ expired' = TRUE
  /\ UNCHANGED <<objectVars, kernelVars, pc, call, res>>

(* Another part of the program opens a file. *)
Others ==
  /\ \E d \in Free : Lowest(d) /\ table' = [table EXCEPT ![d] = "others"]
  /\ UNCHANGED <<objectVars, link, avail, fin, room, pc, call, expired, res>>

User ==
  \E o \in Objects :
    \/ init(o) \/ connect(o) \/ wait_readable(o) \/ read_some(o) \/ write_some(o)
    \/ shutdown(o) \/ close(o) \/ destroy(o)
    \/ \E p \in Objects : move(o, p)

Step == connect_start \/ connect_finish \/ select_timeout \/ select_ready \/ recv \/ send

Next == User \/ Step \/ select_failed \/ Peer \/ Expire \/ Others

Spec == Init /\ [][Next]_vars

(* A system call that can return does so, unless signals interrupt it for
   ever, and the clock runs. *)
FairSpec == Spec /\ WF_vars(Step) /\ WF_vars(Expire)

-----------------------------------------------------------------------------

TypeOK ==
  /\ obj \in [Objects -> {"unborn", "live", "moved", "dead"}]
  /\ fd \in [Objects -> Fds \cup {None}]
  /\ connected \in [Objects -> BOOLEAN]
  /\ table \in [Fds -> {"free", "ours", "others"}]
  /\ link \in {"none", "raw", "fresh", "connecting", "refused", "up", "shut"}
  /\ avail \in 0..MaxBytes
  /\ fin \in BOOLEAN /\ room \in BOOLEAN /\ expired \in BOOLEAN
  /\ pc \in {"idle", "connect", "select", "so_error", "recv", "send"}
  /\ call \in [on : Objects, name : {"connect", "wait", "read", "write"},
               len : Lens \cup {0}] \cup {NoCall}
  /\ res \in {"none", "ok", "no", "error", "timeout", "closed", "already established"}
  /\ stale \subseteq Objects

Holders(d) == {o \in Objects : fd[o] = d /\ obj[o] # "dead"}

(* A descriptor that init opened belongs to exactly one object, through
   moves, failed inits and destruction, until it is closed; and an object
   holds none that it does not own, unless closing it has
   failed. *)
OneOwner ==
  /\ \A d \in Fds : table[d] = "ours" => \E o \in Objects : Holders(d) = {o}
  /\ \A o \in Objects \ stale : fd[o] # None => table[fd[o]] = "ours"

(* "Connection already established": an object that says it is connected
   has a socket that the kernel has connected, also when connect was retried
   after a timeout or a refusal. *)
ConnectedIsReal ==
  \A o \in Objects \ stale : fd[o] # None /\ connected[o] => link \in {"up", "shut"}

(* "Connection closed on transport layer" is reported only when the peer or
   shutdown() has ended the stream and every byte has been read. *)
EndOfStreamIsReal == res' = "closed" /\ pc # "idle" => avail = 0 /\ (fin \/ link = "shut")

(* The call in progress has returned. *)
Returned == pc = "idle"

(* close is "safe to call multiple times": no call of ours closes a
   descriptor that another part of the program has opened. *)
OthersUntouched ==
  [][\A d \in Fds : table[d] = "others" => table'[d] = "others"]_vars
=============================================================================
