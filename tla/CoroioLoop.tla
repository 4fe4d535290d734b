----------------------------- MODULE CoroioLoop -----------------------------
(***************************************************************************)
(* The coroio event loop (poller.hpp, loop.hpp, epoll.cpp, poll.cpp,       *)
(* select.cpp) with the sockets of socket.hpp that CoroioSocket.hpp uses.  *)
(*                                                                         *)
(* A coroutine <<f, d>> reads ("r") or writes ("w") on the descriptor f.   *)
(* It tries the system call at once and, when that would block, suspends   *)
(* with a change of the poller's interest; the next Poll() applies the     *)
(* changes, waits, and the coroutines of the ready descriptors are resumed *)
(* one after the other.  A resumed coroutine runs until it suspends again. *)
(***************************************************************************)
EXTENDS Integers, FiniteSets, SequencesExt

CONSTANTS
  Backend,          (* "select", "epoll" or "poll" *)
  Readers, Writers, (* the descriptors that a coroutine reads, or writes *)
  MaxData,          (* messages a peer has under way on one connection *)
  Closes,           (* whether coroutines close their sockets *)
  Hangups,          (* whether peers end connections *)
  MaxChanges        (* bound on a repeated close() between two Poll(), and on Fds_,
                       in which entries without events may pile up *)

Fds == Readers \cup Writers
Dirs == {"r", "w"}
Tasks == (Readers \X {"r"}) \cup (Writers \X {"w"})

VARIABLES
  changes,    (* Changes_ *)
  in,         (* InEvents_: the directions that have a handle *)
  reg,        (* what the kernel is asked for: the epoll set, the fd_sets, Fds_ *)
  idx,        (* poll.cpp: the place of a descriptor in Fds_, 0 for none *)
  ready,      (* ReadyEvents_: how often each coroutine is still to be resumed *)
  pc,         (* poll or wake; threw, interrupted: Poll() left with an exception
                 of epoll_ctl, or because of a signal *)
  waiting,    (* suspended coroutines *)
  failed,     (* coroutines whose call has failed *)
  fd,         (* a descriptor: open, closed, or other's after it was closed *)
  avail, room,(* messages to be read, room to write *)
  hup,        (* the peer has ended the connection *)
  stray       (* a coroutine was resumed that did not wait for the event *)

poller == <<changes, in, reg, idx, ready, pc>>
net == <<fd, avail, room, hup>>
vars == <<poller, waiting, failed, net, stray>>

Change(f, type, h) == [fd |-> f, type |-> type, h |-> h]

Init ==
  /\ changes = <<>> /\ in = [f \in Fds |-> {}]
  /\ reg = IF Backend = "poll" THEN <<>> ELSE [f \in Fds |-> {}]
  /\ idx = [f \in Fds |-> 0]
  /\ ready = [t \in Fds \X Dirs |-> 0] /\ pc = "wake"
  /\ waiting = {} /\ failed = {} /\ stray = FALSE
  /\ fd = [f \in Fds |-> "open"]
  /\ avail = [f \in Fds |-> 0] /\ room = [f \in Fds |-> TRUE] /\ hup = [f \in Fds |-> FALSE]

-----------------------------------------------------------------------------
(* Poll(): one change applied to s = [in, reg, idx, ok]; "same" are the
   coroutines whose handle is the one the poller already has. *)

select_change(s, ch, same) ==
  IF ch.h THEN [s EXCEPT !.reg[ch.fd] = @ \cup ch.type, !.in[ch.fd] = @ \cup ch.type]
  ELSE [s EXCEPT !.reg[ch.fd] = @ \ ch.type, !.in[ch.fd] = @ \ ch.type]

(* epoll_ctl: of a closed descriptor it fails with EBADF *)
epoll_ctl_add(s, f, events) ==
  IF fd[f] # "open" \/ s.reg[f] # {} THEN [s EXCEPT !.ok = FALSE]
  ELSE [s EXCEPT !.reg[f] = events]
epoll_ctl_mod(s, f, events) ==
  IF fd[f] # "open" THEN [s EXCEPT !.ok = FALSE] ELSE [s EXCEPT !.reg[f] = events]

epoll_change(s, ch, same) ==
  LET f == ch.fd
      newEv == ch.h /\ s.in[f] = Dirs
      changed == IF ch.h THEN ch.type \ s.in[f] # {} \/ \E d \in ch.type : <<f, d>> \notin same
                 ELSE ch.type \cap s.in[f] # {}
      handles == IF ch.h THEN s.in[f] \cup ch.type ELSE s.in[f] \ ch.type
      events == IF ch.h THEN ch.type ELSE handles
      s1 == [s EXCEPT !.in[f] = handles]
  IN  CASE newEv -> epoll_ctl_add(s1, f, events)
        [] ~newEv /\ events = {} -> [s1 EXCEPT !.reg[f] = {}]
        [] ~newEv /\ events # {} /\ changed -> epoll_ctl_mod(s1, f, events)
        [] OTHER -> s1

(* Fds_ is a vector, idx the place in it.  A place behind its end is written
   all the same, which here has no effect on what is polled. *)
poll_change(s, ch, same) ==
  LET f == ch.fd
      n == IF ch.h /\ s.idx[f] = 0 THEN Len(s.reg) + 1 ELSE s.idx[f]
      fds == IF n = Len(s.reg) + 1 /\ s.idx[f] = 0 /\ ch.h
             THEN Append(s.reg, [fd |-> f, events |-> {}]) ELSE s.reg
      last == Len(fds)
      events == IF n \in DOMAIN fds
                THEN IF ch.h THEN fds[n].events \cup ch.type ELSE fds[n].events \ ch.type
                ELSE {}
      handles == IF ch.h THEN s.in[f] \cup ch.type ELSE s.in[f] \ ch.type
  IN  CASE n = 0 -> s
        [] n # 0 /\ n \notin DOMAIN fds -> [s EXCEPT !.in[f] = handles]
        [] n \in DOMAIN fds /\ ch.h ->
             [s EXCEPT !.reg = [fds EXCEPT ![n] = [fd |-> f, events |-> events]],
                       !.idx[f] = n, !.in[f] = handles]
        [] n \in DOMAIN fds /\ ~ch.h /\ events # {} ->
             [s EXCEPT !.reg = [fds EXCEPT ![n].events = events], !.in[f] = handles]
        [] OTHER ->   (* swapped with the last one, which then is empty *)
             [s EXCEPT !.reg = [fds EXCEPT ![n] = IF n = last THEN [@ EXCEPT !.events = {}]
                                                  ELSE fds[last],
                                           ![last] = [fds[n] EXCEPT !.events = {}]],
                       !.idx = [@ EXCEPT ![fds[last].fd] = n, ![f] = 0],
                       !.in[f] = handles]

Applied(s, ch, same) ==
  CASE Backend = "select" -> select_change(s, ch, same)
    [] Backend = "epoll" -> epoll_change(s, ch, same)
    [] OTHER -> poll_change(s, ch, same)

(* The changes are applied one after the other. *)
apply_change ==
  /\ pc = "poll" /\ changes # <<>>
  /\ \E s \in {Applied([in |-> in, reg |-> reg, idx |-> idx, ok |-> TRUE], Head(changes), same) :
                 same \in IF Backend = "epoll" THEN SUBSET Tasks ELSE {{}}} :
       /\ in' = s.in /\ reg' = s.reg /\ idx' = s.idx
       /\ pc' = IF s.ok THEN "poll" ELSE "threw"
  /\ changes' = Tail(changes)
  /\ UNCHANGED <<ready, waiting, failed, net, stray>>

(* while (!Fds_.empty() && !Fds_.back().events) Fds_.pop_back() *)
poll_trim(fds) ==
  LET used == {i \in DOMAIN fds : fds[i].events # {}}
  IN  SubSeq(fds, 1, IF used = {} THEN 0 ELSE Max(used))

(* What the kernel is asked for, one set of directions for each entry of f *)
Entries(r, f) == IF Backend = "poll" THEN {<<i, r[i].events>> : i \in {j \in DOMAIN r : r[j].fd = f}}
                 ELSE {<<1, r[f]>>}
Interest(r, f) == UNION {e[2] : e \in Entries(r, f)}

(* Its answer is an event that is asked for and there.  Of a connection that
   has been ended, epoll and poll report each entry, poll also one without
   events, and then every handle of the descriptor is woken up. *)
IsReady(f, d) == fd[f] = "open" /\ (hup[f] \/ (d = "r" /\ avail[f] > 0) \/ (d = "w" /\ room[f]))
Hup(t) == fd[t[1]] = "open" /\ hup[t[1]] /\ t[2] \in in[t[1]]

select_events(r, t) == {e \in Entries(r, t[1]) : t[2] \in e[2] /\ IsReady(t[1], t[2])}
epoll_events(r, t) == {e \in Entries(r, t[1]) :
                         e[2] # {} /\ ((t[2] \in e[2] /\ IsReady(t[1], t[2])) \/ Hup(t))}
poll_events(r, t) == {e \in Entries(r, t[1]) : (t[2] \in e[2] /\ IsReady(t[1], t[2])) \/ Hup(t)}

Events(r) ==
  [t \in Fds \X Dirs |->
     Cardinality(CASE Backend = "select" -> select_events(r, t)
                   [] Backend = "epoll" -> epoll_events(r, t)
                   [] OTHER -> poll_events(r, t))]

(* pselect and ppoll throw when a signal interrupts them; epoll waits again. *)
Poll ==
  /\ pc = "poll" /\ changes = <<>>
  /\ reg' = IF Backend = "poll" THEN poll_trim(reg) ELSE reg
  /\ \/ ready' = Events(reg') /\ pc' = "wake"
     \/ Backend # "epoll" /\ pc' = "interrupted" /\ UNCHANGED ready
  /\ UNCHANGED <<changes, in, idx, waiting, failed, net, stray>>

-----------------------------------------------------------------------------
(* A coroutine runs until it suspends. *)

(* the system call: a message, the end of the connection, or EAGAIN *)
TryOp(t) == LET f == t[1] IN
            CASE fd[f] # "open" -> "error"
              [] fd[f] = "open" /\ t[2] = "r" /\ avail[f] > 0 -> "ok"
              [] fd[f] = "open" /\ t[2] = "w" /\ room[f] /\ ~hup[f] -> "ok"
              [] fd[f] = "open" /\ hup[f] /\ ~(t[2] = "r" /\ avail[f] > 0) -> "error"
              [] OTHER -> "again"

(* Suspending asks for the event (AddRead, AddWrite).  Close() closes the
   descriptor now, and asks Poll() to forget it (RemoveEvent). *)
Suspend(t) == <<Change(t[1], {t[2]}, TRUE)>>
Close(t) == <<Change(t[1], Dirs, FALSE)>>

(* CoroioSocket's read_some and write_some: an exception, the end of the
   connection and -1 are errors, and -1 is also the EAGAIN after a resume. *)
Fails(r, resumed) == r = "error" \/ (r = "again" /\ resumed)

(* A coroutine makes its call, the second time when it has been resumed, and
   then suspends in the next call, is busy elsewhere, or closes the socket. *)
Run(t, resumed, asks) ==
  LET f == t[1]
      r == TryOp(t)
      closes == asks = Close(t)
  IN
  /\ avail' = IF r = "ok" /\ t[2] = "r" THEN [avail EXCEPT ![f] = @ - 1] ELSE avail
  /\ room' \in IF r = "ok" /\ t[2] = "w" THEN {room, [room EXCEPT ![f] = FALSE]} ELSE {room}
  /\ failed' = IF Fails(r, resumed) THEN failed \cup {t} ELSE failed
  /\ \/ asks = <<>> /\ (r # "again" \/ resumed)
     \/ /\ asks = Suspend(t) /\ t \notin failed' /\ ~hup[f]
        /\ IF t[2] = "r" THEN avail'[f] = 0 ELSE ~room'[f]
     \/ closes /\ Closes /\ fd[f] = "open"
  /\ waiting' = IF asks = Suspend(t) THEN waiting \cup {t} ELSE waiting \ {t}
  /\ fd' = IF closes THEN [fd EXCEPT ![f] = "closed"] ELSE fd
  /\ reg' = IF closes /\ Backend = "epoll" THEN [reg EXCEPT ![f] = {}] ELSE reg
  /\ UNCHANGED <<in, idx, pc, hup>>

(* Mutant: only the descriptor is compared. *)
MatchMutant(ch, f, d) == ch.fd = f

Match(ch, f, d) == ch.fd = f /\ d \in ch.type

(* Mutant: the interest is always taken back. *)
AfterResumeMutant(chs, f, d) == Append(chs, Change(f, {d}, FALSE))

(* After the coroutine has suspended, the event's interest is taken back
   unless the last change is the coroutine's own for the same event. *)
AfterResume(chs, f, d) ==
  IF chs # <<>> /\ Match(Last(chs), f, d) THEN chs
  ELSE Append(chs, Change(f, {d}, FALSE))

Wakeup(t) ==
  /\ pc = "wake" /\ ready[t] > 0
  /\ ready' = [ready EXCEPT ![t] = @ - 1]
  /\ stray' = (stray \/ t \notin waiting)
  /\ \E asks \in {<<>>, Suspend(t), Close(t)} :
       /\ Run(t, TRUE, asks)
       /\ changes' = AfterResume(changes \o asks, t[1], t[2])

(* A coroutine that was busy elsewhere, or has just been started, comes to
   its call: it has been resumed by a timer or by another coroutine. *)
Start(t) ==
  /\ pc = "wake" /\ t \notin waiting \cup failed /\ fd[t[1]] = "open"
  /\ Backend = "poll" => Len(reg) < MaxChanges
  /\ \E asks \in {<<>>, Suspend(t), Close(t)} :
       /\ Run(t, FALSE, asks)
       /\ changes' = changes \o asks
  /\ UNCHANGED <<ready, stray>>

(* Step(): when all handles have been woken up, the next Poll() *)
StepDone ==
  /\ pc = "wake" /\ \A t \in Fds \X Dirs : ready[t] = 0
  /\ pc' = "poll"
  /\ UNCHANGED <<changes, in, reg, idx, ready, waiting, failed, net, stray>>

(* The number of a closed descriptor is given to somebody else; the socket
   object keeps it, and closes it again when close() is called a second time
   or the object is destroyed. *)
Reuse(f) ==
  /\ fd[f] = "closed" /\ fd' = [fd EXCEPT ![f] = "other"]
  /\ UNCHANGED <<poller, waiting, failed, avail, room, hup, stray>>

close_again(f) ==
  /\ pc = "wake" /\ Closes /\ fd[f] # "open"
  /\ fd' = [fd EXCEPT ![f] = "closed"]
  /\ Len(changes) < MaxChanges
  /\ changes' = Append(changes, Change(f, Dirs, FALSE))
  /\ UNCHANGED <<in, reg, idx, ready, pc, waiting, failed, avail, room, hup, stray>>

-----------------------------------------------------------------------------

Peer(f) ==
  /\ fd[f] = "open" /\ ~hup[f]
  /\ \/ avail[f] < MaxData /\ avail' = [avail EXCEPT ![f] = @ + 1] /\ UNCHANGED <<room, hup>>
     \/ ~room[f] /\ room' = [room EXCEPT ![f] = TRUE] /\ UNCHANGED <<avail, hup>>
     \/ Hangups /\ hup' = [hup EXCEPT ![f] = TRUE] /\ UNCHANGED <<avail, room>>
  /\ UNCHANGED <<poller, waiting, failed, fd, stray>>

Loop == apply_change \/ Poll \/ StepDone \/ \E t \in Fds \X Dirs : Wakeup(t)

Next ==
  \/ Loop
  \/ \E t \in Tasks : Start(t)
  \/ \E f \in Fds : Peer(f) \/ Reuse(f) \/ close_again(f)

(* Loop() goes on; nothing is assumed of the coroutines and the peers. *)
Spec == Init /\ [][Next]_vars /\ WF_vars(Loop)

-----------------------------------------------------------------------------

(* A coroutine is resumed only by an event it waits for: an interest that the
   coroutine no longer has is taken back before Poll() waits again, also when
   the coroutines of both directions run in between. *)
NoStrayResume == ~stray

(* the changes of <<f, d>> that Poll() has still to apply *)
Pending(f, d) == {i \in DOMAIN changes : changes[i].fd = f /\ d \in changes[i].type}

(* A coroutine that is suspended on an open socket is in the events Poll() is
   about to resume, or Poll() has still to apply its wait and no later removal
   undoes it, or the kernel has been asked for its event. *)
NoWaiterForgotten ==
  pc # "threw" => \A t \in waiting :
    fd[t[1]] = "open" =>
      \/ ready[t] > 0
      \/ Pending(t[1], t[2]) # {} /\ changes[Max(Pending(t[1], t[2]))].h
      \/ Pending(t[1], t[2]) = {} /\ t[2] \in Interest(reg, t[1])

(* a reader is suspended although its data has come *)
Overdue(f) == <<f, "r">> \in waiting /\ avail[f] > 0

(* read_message "waits until a message is received, the timeout expires, or
   an error occurs": a reader whose data has come is resumed and takes it, unless
   a signal has ended the loop. *)
DataWakesReader ==
  \A f \in Readers : Overdue(f) ~> (~Overdue(f) \/ fd[f] # "open" \/ pc = "interrupted")

(* The same sentence for a server that stays silent: the call ends with its
   timeout. *)
ReadsEnd ==
  \A f \in Readers : <<f, "r">> \in waiting ~> (<<f, "r">> \notin waiting \/ pc = "interrupted")

(* InEvents_ has "all events in epoll": when Poll() waits, the kernel is asked
   for the events that have a handle, of every descriptor that is open. *)
AllEventsInEpoll ==
  pc = "poll" /\ changes = <<>> => \A f \in Fds : fd[f] = "open" => reg[f] = in[f]

(* "closed descriptor after TSocket -> close": Poll() survives that a socket
   is closed. *)
PollSurvivesClose == pc # "threw"

(* close() is "Safe to call multiple times": it never closes a descriptor
   that has become somebody else's. *)
OthersUntouched == [][\A f \in Fds : fd[f] = "other" => fd'[f] = "other"]_vars
=============================================================================
