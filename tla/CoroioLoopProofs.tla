--------------------------- MODULE CoroioLoopProofs ---------------------------
(***************************************************************************)
(* Theorems about the event loop, for each poller as far as it keeps what  *)
(* its callers need (Usable): select with any sockets, epoll with sockets  *)
(* that are used in one direction, poll with one socket that the peer does *)
(* not end.                                                                *)
(*                                                                         *)
(* The argument rests on what Poll() will have asked the kernel for once   *)
(* all pending changes are applied (Asked): exactly the events that the    *)
(* suspended coroutines of the open sockets wait for.                      *)
(***************************************************************************)
EXTENDS CoroioLoop, FiniteSetTheorems, TLAPS

Usable ==
  \/ Backend = "select"
  \/ Backend = "epoll" /\ Readers \cap Writers = {}
  \/ Backend = "poll" /\ ~Hangups /\ \E f : Fds = {f}

-----------------------------------------------------------------------------
(* Changes that are pending *)

Changes == [fd : Fds, type : (SUBSET Dirs) \ {{}}, h : BOOLEAN]

Concerns(ch, f, d) == ch.fd = f /\ d \in ch.type

(* The last change that concerns <<f, d>> decides, or what is in force now. *)
Asked(chs, ins, f, d) ==
  \/ \E k \in 1..Len(chs) :
       /\ Concerns(chs[k], f, d) /\ chs[k].h = TRUE
       /\ \A l \in 1..Len(chs) : l > k => ~Concerns(chs[l], f, d)
  \/ d \in ins[f] /\ \A k \in 1..Len(chs) : ~Concerns(chs[k], f, d)

(* one change, when it is applied *)
Changed(ins, ch) == [ins EXCEPT ![ch.fd] = IF ch.h = TRUE THEN @ \cup ch.type ELSE @ \ ch.type]

LEMMA ChangeIsOne ==
  ASSUME NEW f \in Fds, NEW type \in (SUBSET Dirs) \ {{}}, NEW h \in BOOLEAN
  PROVE  /\ Change(f, type, h) \in Changes
         /\ Change(f, type, h).fd = f /\ Change(f, type, h).type = type
         /\ (Change(f, type, h).h = TRUE <=> h = TRUE)
BY DEF Change, Changes

LEMMA ChangeFacts ==
  ASSUME NEW ch \in Changes
  PROVE  ch.fd \in Fds /\ ch.type \in SUBSET Dirs /\ ch.type # {} /\ ch.h \in BOOLEAN
BY DEF Changes

LEMMA Appended ==
  ASSUME NEW S, NEW u \in Seq(S), NEW e \in S
  PROVE  /\ u \o <<e>> = Append(u, e) /\ u \o <<>> = u
         /\ Append(u, e) \in Seq(S) /\ Len(Append(u, e)) = Len(u) + 1 /\ Len(u) \in Nat
         /\ \A j \in 1..Len(u) : Append(u, e)[j] = u[j]
         /\ Append(u, e)[Len(u) + 1] = e
OBVIOUS

LEMMA Followed ==
  ASSUME NEW chs \in Seq(Changes), NEW ch \in Changes
  PROVE  chs \o <<ch>> = Append(chs, ch)
BY Appended

LEMMA Tailed ==
  ASSUME NEW S, NEW u \in Seq(S), u # <<>>
  PROVE  /\ Tail(u) \in Seq(S) /\ Len(Tail(u)) = Len(u) - 1 /\ Len(u) \in Nat /\ Len(u) >= 1
         /\ \A j \in 1..Len(Tail(u)) : Tail(u)[j] = u[j + 1] /\ j + 1 \in 1..Len(u)
         /\ \A j \in 1..Len(u) : j # 1 => j - 1 \in 1..Len(Tail(u)) /\ Tail(u)[j - 1] = u[j]
         /\ Head(u) \in S /\ Head(u) = u[1]
OBVIOUS

LEMMA Replaced ==
  ASSUME NEW S, NEW u \in Seq(S), NEW k \in 1..Len(u), NEW e \in S
  PROVE  /\ [u EXCEPT ![k] = e] \in Seq(S) /\ Len([u EXCEPT ![k] = e]) = Len(u)
         /\ [u EXCEPT ![k] = e][k] = e
         /\ \A j \in 1..Len(u) : j # k => [u EXCEPT ![k] = e][j] = u[j]
OBVIOUS

LEMMA AskedAppended ==
  ASSUME NEW chs \in Seq(Changes), NEW ch \in Changes, NEW ins, NEW f, NEW d
  PROVE  Asked(Append(chs, ch), ins, f, d)
           <=> IF Concerns(ch, f, d) THEN ch.h = TRUE ELSE Asked(chs, ins, f, d)
<1> DEFINE all == Append(chs, ch)
           n == Len(chs)
<1>1. /\ Len(all) = n + 1 /\ n \in Nat /\ all[n + 1] = ch
      /\ \A j \in 1..n : all[j] = chs[j]
  BY Appended
<1> HIDE DEF all, n
<1>2. CASE Concerns(ch, f, d)
  <2>1. ASSUME Asked(all, ins, f, d) PROVE ch.h = TRUE
    <3>1. n + 1 \in 1..Len(all) /\ Concerns(all[n + 1], f, d)
      BY <1>1, <1>2
    <3>2. PICK k \in 1..Len(all) :
            /\ Concerns(all[k], f, d) /\ all[k].h = TRUE
            /\ \A l \in 1..Len(all) : l > k => ~Concerns(all[l], f, d)
      BY <2>1, <3>1 DEF Asked
    <3>3. k = n + 1
      BY <3>1, <3>2, <1>1
    <3> QED
      BY <3>2, <3>3, <1>1
  <2>2. ASSUME ch.h = TRUE PROVE Asked(all, ins, f, d)
    <3>1. n + 1 \in 1..Len(all) /\ \A l \in 1..Len(all) : ~(l > n + 1)
      BY <1>1
    <3> QED
      BY <3>1, <1>1, <1>2, <2>2 DEF Asked
  <2> QED
    BY <1>2, <2>1, <2>2 DEF all
<1>3. CASE ~Concerns(ch, f, d)
  <2>1. ASSUME Asked(all, ins, f, d) PROVE Asked(chs, ins, f, d)
    <3>1. CASE d \in ins[f] /\ \A k \in 1..Len(all) : ~Concerns(all[k], f, d)
      <4>1. \A k \in 1..n : k \in 1..Len(all)
        BY <1>1
      <4> QED
        BY <3>1, <4>1, <1>1 DEF Asked, n
    <3>2. ASSUME NEW k \in 1..Len(all), Concerns(all[k], f, d), all[k].h = TRUE,
                 \A l \in 1..Len(all) : l > k => ~Concerns(all[l], f, d)
          PROVE  Asked(chs, ins, f, d)
      <4>1. k \in 1..n /\ \A l \in 1..n : l \in 1..Len(all)
        BY <1>1, <1>3, <3>2
      <4>2. Concerns(chs[k], f, d) /\ chs[k].h = TRUE
        BY <1>1, <3>2, <4>1
      <4>3. \A l \in 1..n : l > k => ~Concerns(chs[l], f, d)
        BY <1>1, <3>2, <4>1
      <4> QED
        BY <4>1, <4>2, <4>3 DEF Asked, n
    <3> QED
      BY <2>1, <3>1, <3>2 DEF Asked
  <2>2. ASSUME Asked(chs, ins, f, d) PROVE Asked(all, ins, f, d)
    <3>1. \A l \in 1..Len(all) : l \in 1..n \/ l = n + 1
      BY <1>1
    <3>2. CASE d \in ins[f] /\ \A k \in 1..n : ~Concerns(chs[k], f, d)
      BY <1>1, <1>3, <3>1, <3>2 DEF Asked
    <3>3. ASSUME NEW k \in 1..n, Concerns(chs[k], f, d), chs[k].h = TRUE,
                 \A l \in 1..n : l > k => ~Concerns(chs[l], f, d)
          PROVE  Asked(all, ins, f, d)
      <4>1. k \in 1..Len(all) /\ Concerns(all[k], f, d) /\ all[k].h = TRUE
        BY <1>1, <3>3
      <4>2. \A l \in 1..Len(all) : l > k => ~Concerns(all[l], f, d)
        BY <1>1, <1>3, <3>1, <3>3
      <4> QED
        BY <4>1, <4>2 DEF Asked
    <3> QED
      BY <2>2, <3>2, <3>3 DEF Asked, n
  <2> QED
    BY <1>3, <2>1, <2>2 DEF all
<1> QED
  BY <1>2, <1>3

(* Applying the first change changes nothing of what will be asked for. *)
LEMMA AskedApplied ==
  ASSUME NEW chs \in Seq(Changes), chs # <<>>, NEW ins \in [Fds -> SUBSET Dirs],
         NEW f \in Fds, NEW d
  PROVE  Asked(Tail(chs), Changed(ins, Head(chs)), f, d) <=> Asked(chs, ins, f, d)
<1> DEFINE rest == Tail(chs)
           ch == Head(chs)
           n == Len(chs)
           new == Changed(ins, ch)
<1>1. /\ Len(rest) = n - 1 /\ n \in Nat /\ n >= 1 /\ ch = chs[1] /\ ch \in Changes
      /\ \A j \in 1..Len(rest) : rest[j] = chs[j + 1] /\ j + 1 \in 1..n
      /\ \A j \in 1..n : j # 1 => j - 1 \in 1..Len(rest) /\ rest[j - 1] = chs[j]
  BY Tailed
<1>2. ch.fd \in Fds /\ ch.type \in SUBSET Dirs
  BY <1>1, ChangeFacts
<1>3. d \in new[f] <=> IF Concerns(ch, f, d) THEN ch.h = TRUE ELSE d \in ins[f]
  BY <1>2 DEF Changed, Concerns
<1> HIDE DEF rest, ch, n, new
<1>4. ASSUME Asked(rest, new, f, d) PROVE Asked(chs, ins, f, d)
  <2>1. ASSUME NEW k \in 1..Len(rest), Concerns(rest[k], f, d), rest[k].h = TRUE,
               \A l \in 1..Len(rest) : l > k => ~Concerns(rest[l], f, d)
        PROVE  Asked(chs, ins, f, d)
    <3>1. k + 1 \in 1..n /\ Concerns(chs[k + 1], f, d) /\ chs[k + 1].h = TRUE /\ k \in Nat
      BY <1>1, <2>1
    <3>2. ASSUME NEW l \in 1..n, l > k + 1 PROVE ~Concerns(chs[l], f, d)
      <4>1. l # 1 /\ l - 1 > k
        BY <3>1, <3>2
      <4> QED
        BY <4>1, <1>1, <2>1
    <3> QED
      BY <3>1, <3>2 DEF Asked, n
  <2>2. CASE d \in new[f] /\ \A k \in 1..Len(rest) : ~Concerns(rest[k], f, d)
    <3>1. \A l \in 1..n : l # 1 => ~Concerns(chs[l], f, d)
      BY <1>1, <2>2
    <3>2. 1 \in 1..n /\ \A l \in 1..n : l > 1 => l # 1
      BY <1>1
    <3>3. CASE Concerns(ch, f, d)
      BY <1>1, <1>3, <2>2, <3>1, <3>2, <3>3 DEF Asked, n
    <3>4. CASE ~Concerns(ch, f, d)
      BY <1>1, <1>3, <2>2, <3>1, <3>2, <3>4 DEF Asked, n
    <3> QED
      BY <3>3, <3>4
  <2> QED
    BY <1>4, <2>1, <2>2 DEF Asked
<1>5. ASSUME Asked(chs, ins, f, d) PROVE Asked(rest, new, f, d)
  <2>1. ASSUME NEW k \in 1..n, Concerns(chs[k], f, d), chs[k].h = TRUE,
               \A l \in 1..n : l > k => ~Concerns(chs[l], f, d)
        PROVE  Asked(rest, new, f, d)
    <3>1. CASE k = 1
      <4>1. \A l \in 1..Len(rest) : l + 1 > k
        BY <3>1
      <4> QED
        BY <1>1, <1>3, <2>1, <3>1, <4>1 DEF Asked
    <3>2. CASE k # 1
      <4>1. k - 1 \in 1..Len(rest) /\ Concerns(rest[k - 1], f, d) /\ rest[k - 1].h = TRUE
        BY <1>1, <2>1, <3>2
      <4>2. ASSUME NEW l \in 1..Len(rest), l > k - 1 PROVE ~Concerns(rest[l], f, d)
        <5>1. l + 1 > k
          BY <4>2
        <5> QED
          BY <5>1, <1>1, <2>1
      <4> QED
        BY <4>1, <4>2 DEF Asked
    <3> QED
      BY <3>1, <3>2
  <2>2. CASE d \in ins[f] /\ \A k \in 1..n : ~Concerns(chs[k], f, d)
    <3>1. 1 \in 1..n
      BY <1>1
    <3> QED
      BY <1>1, <1>3, <2>2, <3>1 DEF Asked
  <2> QED
    BY <1>5, <2>1, <2>2 DEF Asked, n
<1> QED
  BY <1>4, <1>5 DEF rest, ch, new

-----------------------------------------------------------------------------
(* What the kernel is asked for is what has a handle, in each poller's own form;
   closing a descriptor takes it out of the epoll set. *)

Slots == [fd : Fds, events : SUBSET Dirs]

InPoll(ins, r, ix) ==
  /\ r \in Seq(Slots) /\ ix \in [Fds -> Nat]
  /\ \A f \in Fds :
       /\ ix[f] = 0 => ins[f] = {} /\ \A j \in 1..Len(r) : r[j].events = {}
       /\ ix[f] # 0 => /\ ix[f] \in 1..Len(r) /\ r[ix[f]].events = ins[f] /\ ins[f] # {}
                       /\ \A j \in 1..Len(r) : j # ix[f] => r[j].events = {}

InEpoll(ins, r, fds) == r = [f \in Fds |-> IF fds[f] = "open" THEN ins[f] ELSE {}]

Fits(ins, r, ix, fds) ==
  /\ Backend = "select" => r = ins
  /\ Backend = "epoll" => InEpoll(ins, r, fds)
  /\ Backend = "poll" => InPoll(ins, r, ix)

(* With one coroutine on each descriptor a change adds what it waits for, of a
   descriptor that is open, or takes back all there is. *)
TakesAll(ch) == ch.h # TRUE => \A d \in Dirs : <<ch.fd, d>> \in Tasks => d \in ch.type
Whole(ch) ==
  /\ ch.h = TRUE => fd[ch.fd] = "open" /\ \A d \in ch.type : <<ch.fd, d>> \in Tasks
  /\ TakesAll(ch)
OneWay(ins) == \A f \in Fds : \A d \in ins[f] : <<f, d>> \in Tasks

(* s is what becomes of the poller's tables. *)
IsApplied(s, ins, ch) ==
  /\ s.in = Changed(ins, ch) /\ s.ok = TRUE /\ Fits(s.in, s.reg, s.idx, fd)
  /\ Backend = "epoll" => OneWay(s.in)

LEMMA SelectChange ==
  ASSUME Backend = "select",
         NEW ins \in [Fds -> SUBSET Dirs], NEW ix, NEW ch \in Changes, NEW same
  PROVE  IsApplied(select_change([in |-> ins, reg |-> ins, idx |-> ix, ok |-> TRUE], ch, same),
                   ins, ch)
<1> DEFINE s == select_change([in |-> ins, reg |-> ins, idx |-> ix, ok |-> TRUE], ch, same)
<1>1. ch.h \in BOOLEAN /\ ch.fd \in Fds
  BY ChangeFacts
<1>2. s.in = Changed(ins, ch) /\ s.reg = s.in /\ s.ok = TRUE
  <2>1. CASE ch.h = TRUE
    BY <1>1, <2>1 DEF select_change, Changed
  <2>2. CASE ch.h = FALSE
    BY <1>1, <2>2 DEF select_change, Changed
  <2> QED
    BY <1>1, <2>1, <2>2
<1> HIDE DEF s
<1>3. IsApplied(s, ins, ch)
  BY <1>2 DEF IsApplied, Fits
<1> QED
  BY <1>3 DEF s

LEMMA EpollChange ==
  ASSUME Backend = "epoll", Readers \cap Writers = {},
         NEW ins \in [Fds -> SUBSET Dirs], NEW r, InEpoll(ins, r, fd), NEW ix,
         NEW ch \in Changes, NEW same, OneWay(ins), Whole(ch)
  PROVE  IsApplied(epoll_change([in |-> ins, reg |-> r, idx |-> ix, ok |-> TRUE], ch, same),
                   ins, ch)
<1> DEFINE f == ch.fd
           s == epoll_change([in |-> ins, reg |-> r, idx |-> ix, ok |-> TRUE], ch, same)
           new == IF ch.h = TRUE THEN ins[f] \cup ch.type ELSE ins[f] \ ch.type
           asked == [g \in Fds |-> IF fd[g] = "open" THEN ins[g] ELSE {}]
<1>1. ch.h \in BOOLEAN /\ f \in Fds /\ ch.type \in SUBSET Dirs /\ ch.type # {}
  BY ChangeFacts
<1>2. /\ \A d, e \in Dirs : <<f, d>> \in Tasks /\ <<f, e>> \in Tasks => d = e
      /\ \A d \in ins[f] : d \in Dirs /\ <<f, d>> \in Tasks
  <2>1. f \in Readers => f \notin Writers
    OBVIOUS
  <2>2. \A d \in Dirs : <<f, d>> \in Tasks <=> (d = "r" /\ f \in Readers) \/ (d = "w" /\ f \in Writers)
    BY DEF Tasks, Dirs
  <2> QED
    BY <1>1, <2>1, <2>2 DEF OneWay, Dirs
<1>3. ins[f] # Dirs
  BY <1>2 DEF Dirs
<1>4. r = asked
  BY DEF InEpoll
<1>5. /\ s.in = [ins EXCEPT ![f] = new] /\ s.ok = TRUE
      /\ s.reg = [r EXCEPT ![f] = new] /\ (fd[f] # "open" => new = {})
      /\ \A d \in new : d \in Dirs /\ <<f, d>> \in Tasks
  <2>1. CASE ch.h = TRUE
    <3>1. PICK d \in Dirs : ch.type = {d} /\ ins[f] \in SUBSET {d} /\ <<f, d>> \in Tasks
      <4>1. fd[f] = "open" /\ \A d \in ch.type : d \in Dirs /\ <<f, d>> \in Tasks
        BY <1>1, <2>1 DEF Whole
      <4>2. PICK d \in ch.type : d \in Dirs /\ <<f, d>> \in Tasks
        BY <1>1, <4>1
      <4>3. ch.type = {d} /\ ins[f] \in SUBSET {d}
        BY <1>2, <4>1, <4>2
      <4> QED
        BY <4>2, <4>3
    <3>2. fd[f] = "open" /\ r[f] = ins[f]
      BY <1>1, <1>4, <2>1 DEF Whole
    <3>3. new = {d} /\ {d} # {}
      BY <2>1, <3>1
    <3>4. CASE ins[f] = {}
      BY <1>1, <1>3, <1>4, <2>1, <3>1, <3>2, <3>3, <3>4 DEF epoll_change, epoll_ctl_mod
    <3>5. CASE ins[f] = {d}
      BY <1>1, <1>3, <1>4, <2>1, <3>1, <3>2, <3>3, <3>5 DEF epoll_change, epoll_ctl_mod
    <3> QED
      BY <3>1, <3>4, <3>5
  <2>2. CASE ch.h = FALSE
    <3>1. new = {}
      BY <1>2, <2>2 DEF Whole, TakesAll
    <3> QED
      BY <1>1, <1>3, <2>2, <3>1 DEF epoll_change
  <2> QED
    BY <1>1, <2>1, <2>2
<1>6. OneWay([ins EXCEPT ![f] = new])
  BY <1>1, <1>2, <1>5 DEF OneWay
<1>7. Changed(ins, ch) = [ins EXCEPT ![f] = new]
  BY DEF Changed
<1>8. InEpoll([ins EXCEPT ![f] = new], [r EXCEPT ![f] = new], fd)
  <2> HIDE DEF new
  <2> QED
    BY <1>1, <1>4, <1>5 DEF InEpoll
<1> HIDE DEF s, new
<1>9. IsApplied(s, ins, ch)
  BY <1>5, <1>6, <1>7, <1>8 DEF IsApplied, Fits
<1> QED
  BY <1>9 DEF s

(* poll.cpp with one socket: its entry is the only one with events, and it has
   none while idx is 0. *)
LEMMA PollChange ==
  ASSUME Backend = "poll", NEW f, Fds = {f},
         NEW ins \in [Fds -> SUBSET Dirs], NEW r, NEW ix, NEW ch \in Changes, NEW same,
         InPoll(ins, r, ix)
  PROVE  IsApplied(poll_change([in |-> ins, reg |-> r, idx |-> ix, ok |-> TRUE], ch, same),
                   ins, ch)
<1> DEFINE s0 == [in |-> ins, reg |-> r, idx |-> ix, ok |-> TRUE]
           s == poll_change(s0, ch, same)
           new == IF ch.h = TRUE THEN ins[f] \cup ch.type ELSE ins[f] \ ch.type
           news == [ins EXCEPT ![f] = new]
<1> SUFFICES s.in = Changed(ins, ch) /\ s.ok = TRUE /\ InPoll(s.in, s.reg, s.idx)
  <2> HIDE DEF s
  <2>1. ASSUME s.in = Changed(ins, ch) /\ s.ok = TRUE /\ InPoll(s.in, s.reg, s.idx)
        PROVE  IsApplied(s, ins, ch)
    BY <2>1 DEF IsApplied, Fits
  <2> QED
    BY <2>1 DEF s
<1>1. ch.h \in BOOLEAN /\ ch.fd = f /\ f \in Fds /\ ch.type \in SUBSET Dirs /\ ch.type # {}
  BY ChangeFacts
<1>2. /\ r \in Seq(Slots) /\ ix \in [Fds -> Nat] /\ Len(r) \in Nat
      /\ ix[f] = 0 => ins[f] = {} /\ \A j \in 1..Len(r) : r[j].events = {}
      /\ ix[f] # 0 => /\ ix[f] \in 1..Len(r) /\ r[ix[f]].events = ins[f] /\ ins[f] # {}
                      /\ \A j \in 1..Len(r) : j # ix[f] => r[j].events = {}
  BY <1>1 DEF InPoll
<1>3. \A j \in 1..Len(r) : r[j] = [fd |-> f, events |-> r[j].events] /\ r[j].events \in SUBSET Dirs
  <2>1. ASSUME NEW j \in 1..Len(r)
        PROVE  r[j] = [fd |-> f, events |-> r[j].events] /\ r[j].events \in SUBSET Dirs
    <3>1. r[j] \in Slots
      BY <1>2
    <3>2. r[j].fd = f
      BY <3>1 DEF Slots
    <3> QED
      BY <3>1, <3>2 DEF Slots
  <2> QED
    BY <2>1
<1>4. Changed(ins, ch) = news /\ news \in [Fds -> SUBSET Dirs] /\ news[f] = new
  BY <1>1 DEF Changed
<1>5. ASSUME NEW q \in Seq(Slots), NEW n \in 1..Len(q), new # {}, q[n].events = new,
             \A j \in 1..Len(q) : j # n => q[j].events = {}
      PROVE  InPoll(news, q, [ix EXCEPT ![f] = n])
  BY <1>1, <1>2, <1>4, <1>5 DEF InPoll
<1>6. ASSUME NEW q \in Seq(Slots), new = {}, \A j \in 1..Len(q) : q[j].events = {}
      PROVE  InPoll(news, q, [ix EXCEPT ![f] = 0])
  BY <1>1, <1>2, <1>4, <1>6 DEF InPoll
<1>7. CASE ch.h = TRUE /\ ix[f] = 0
  <2> DEFINE slot == [fd |-> f, events |-> {}]
             fds == Append(r, slot)
             n == Len(r) + 1
             q == [fds EXCEPT ![n] = [fd |-> f, events |-> ch.type]]
  <2>1. slot \in Slots /\ [fd |-> f, events |-> ch.type] \in Slots
    BY <1>1 DEF Slots
  <2>2. /\ fds \in Seq(Slots) /\ Len(fds) = n /\ n \in 1..n /\ DOMAIN fds = 1..n
        /\ fds[n] = slot /\ \A j \in 1..Len(r) : fds[j] = r[j]
    BY <1>2, <2>1, Appended
  <2>3. /\ q \in Seq(Slots) /\ Len(q) = n /\ q[n].events = ch.type
        /\ \A j \in 1..n : j # n => q[j] = fds[j]
    <3>1. n \in DOMAIN fds
      BY <2>2
    <3> HIDE DEF fds, n, slot
    <3> QED
      BY <2>1, <2>2, <3>1, Replaced
  <2>4. new = ch.type
    BY <1>2, <1>7
  <2>5. \A j \in 1..Len(q) : j # n => q[j].events = {}
    <3>1. \A j \in 1..n : j # n => j \in 1..Len(r)
      BY <1>2
    <3> HIDE DEF q, fds, n
    <3> QED
      BY <1>2, <1>7, <2>2, <2>3, <3>1
  <2>6. s.in = news /\ s.reg = q /\ s.idx = [ix EXCEPT ![f] = n] /\ s.ok = TRUE
    <3>1. n = IF ch.h /\ s0.idx[ch.fd] = 0 THEN Len(s0.reg) + 1 ELSE s0.idx[ch.fd]
      BY <1>1, <1>7
    <3>2. n # 0 /\ n \in DOMAIN fds
      BY <1>2, <2>2
    <3>3. slot.events \cup ch.type = ch.type
      OBVIOUS
    <3> QED
      BY <1>1, <1>2, <1>7, <2>2, <2>4, <3>1, <3>2, <3>3 DEF poll_change
  <2>7. InPoll(news, q, [ix EXCEPT ![f] = n])
    BY <1>1, <1>5, <2>2, <2>3, <2>4, <2>5
  <2> HIDE DEF s, news, q, n
  <2> QED
    BY <1>4, <2>6, <2>7
<1>8. CASE ix[f] # 0 /\ ~(ch.h = FALSE /\ new = {})
  <2> DEFINE n == ix[f]
             q == [r EXCEPT ![n] = [fd |-> f, events |-> new]]
  <2>1. n \in 1..Len(r) /\ DOMAIN r = 1..Len(r) /\ n \in DOMAIN r /\ n # 0
    BY <1>2, <1>8
  <2>2. [fd |-> f, events |-> new] \in Slots
    BY <1>1, <1>2, <1>4 DEF Slots
  <2>3. /\ q \in Seq(Slots) /\ Len(q) = Len(r) /\ q[n].events = new
        /\ \A j \in 1..Len(r) : j # n => q[j] = r[j]
    <3> HIDE DEF n, new
    <3> QED
      BY <1>2, <2>1, <2>2, Replaced
  <2>4. new # {}
    BY <1>1, <1>8
  <2>5. s.in = news /\ s.reg = q /\ s.idx = [ix EXCEPT ![f] = n] /\ s.ok = TRUE
    <3>1. CASE ch.h = TRUE
      BY <1>1, <1>2, <1>8, <2>1, <2>4, <3>1 DEF poll_change
    <3>2. CASE ch.h = FALSE
      <4>1. [r EXCEPT ![n].events = new] = q
        <5>1. [r[n] EXCEPT !.events = new] = [fd |-> f, events |-> new]
          <6>1. r[n] = [fd |-> f, events |-> r[n].events]
            BY <1>3, <2>1
          <6> HIDE DEF new, n
          <6> QED
            BY <6>1
        <5> HIDE DEF new, n
        <5> QED
          BY <5>1
      <4>2. [ix EXCEPT ![f] = n] = ix
        BY <1>2
      <4> QED
        BY <1>1, <1>2, <1>8, <2>1, <2>4, <3>2, <4>1, <4>2 DEF poll_change
    <3> QED
      BY <1>1, <3>1, <3>2
  <2>6. \A j \in 1..Len(q) : j # n => q[j].events = {}
    BY <1>2, <1>8, <2>3
  <2>7. InPoll(news, q, [ix EXCEPT ![f] = n])
    BY <1>5, <2>1, <2>3, <2>4, <2>6
  <2> HIDE DEF s, news, q, n
  <2> QED
    BY <1>4, <2>5, <2>7
<1>9. CASE ix[f] # 0 /\ ch.h = FALSE /\ new = {}
  <2> DEFINE n == ix[f]
             last == Len(r)
             q == [r EXCEPT ![n] = IF n = last THEN [@ EXCEPT !.events = {}] ELSE r[last],
                            ![last] = [r[n] EXCEPT !.events = {}]]
             jx == [ix EXCEPT ![r[last].fd] = n, ![f] = 0]
  <2>1. n \in 1..last /\ DOMAIN r = 1..last /\ n \in DOMAIN r /\ n # 0 /\ last \in 1..last
    BY <1>2, <1>9
  <2>2. r[n].events \ ch.type = {}
    BY <1>2, <1>9
  <2>3. s.in = news /\ s.reg = q /\ s.idx = jx /\ s.ok = TRUE
    BY <1>1, <1>2, <1>9, <2>1, <2>2 DEF poll_change
  <2>4. jx = [ix EXCEPT ![f] = 0]
    BY <1>2, <1>3, <2>1
  <2>5. [fd |-> f, events |-> {}] \in Slots
    BY <1>1 DEF Slots
  <2>6. [r[n] EXCEPT !.events = {}] = [fd |-> f, events |-> {}]
    <3>1. r[n] = [fd |-> f, events |-> r[n].events]
      BY <1>3, <2>1
    <3> HIDE DEF n
    <3> QED
      BY <3>1
  <2>7. q \in Seq(Slots) /\ Len(q) = last
    BY <1>2, <2>1, <2>5, <2>6
  <2>8. \A j \in 1..Len(q) : q[j].events = {}
    <3>1. n # last => r[last].events = {}
      BY <1>2, <1>9, <2>1
    <3>2. q[last].events = {}
      BY <1>2, <2>1, <2>6
    <3>3. n # last => q[n].events = {}
      BY <1>2, <2>1, <3>1
    <3>4. \A j \in 1..last : j # n /\ j # last => q[j] = r[j]
      BY <1>2, <2>1
    <3> QED
      BY <1>2, <1>9, <2>7, <3>2, <3>3, <3>4
  <2>9. InPoll(news, q, [ix EXCEPT ![f] = 0])
    BY <1>6, <1>9, <2>7, <2>8
  <2> HIDE DEF s, news, q, jx
  <2> QED
    BY <1>4, <2>3, <2>4, <2>9
<1>10. CASE ix[f] = 0 /\ ch.h = FALSE
  <2>1. new = {} /\ news = ins
    BY <1>1, <1>2, <1>10
  <2>2. s = s0
    BY <1>1, <1>2, <1>10 DEF poll_change
  <2>3. s.in = ins /\ s.reg = r /\ s.idx = ix /\ s.ok = TRUE
    BY <2>2
  <2> HIDE DEF s, news
  <2> QED
    BY <1>4, <2>1, <2>3
<1> QED
  BY <1>1, <1>7, <1>8, <1>9, <1>10

LEMMA OneApplied ==
  ASSUME Usable, NEW ins \in [Fds -> SUBSET Dirs], NEW r, NEW ix, Fits(ins, r, ix, fd),
         NEW ch \in Changes, NEW same,
         Backend = "epoll" => OneWay(ins) /\ Whole(ch)
  PROVE  IsApplied(Applied([in |-> ins, reg |-> r, idx |-> ix, ok |-> TRUE], ch, same), ins, ch)
<1>1. CASE Backend = "select"
  BY <1>1, SelectChange DEF Applied, Fits
<1>2. CASE Backend = "epoll" /\ Readers \cap Writers = {}
  BY <1>2, EpollChange DEF Applied, Fits
<1>3. CASE Backend = "poll" /\ \E f : Fds = {f}
  BY <1>3, PollChange DEF Applied, Fits
<1> QED
  BY <1>1, <1>2, <1>3 DEF Usable

-----------------------------------------------------------------------------
(* The invariant *)

Typed ==
  /\ changes \in Seq(Changes) /\ in \in [Fds -> SUBSET Dirs]
  /\ ready \in [Fds \X Dirs -> {0, 1}] /\ waiting \in SUBSET Tasks
  /\ fd \in [Fds -> {"open", "closed", "other"}] /\ pc \in {"poll", "wake", "interrupted"}

(* no pending change asks for the event *)
Unasked(chs, f, d) ==
  \A k \in 1..Len(chs) : Concerns(chs[k], f, d) => chs[k].h # TRUE

(* epoll's sockets have one coroutine each, which waits for none that is closed. *)
Apart ==
  Backend = "epoll" =>
    /\ OneWay(in)
    /\ \A k \in 1..Len(changes) : TakesAll(changes[k])
    /\ \A f \in Fds, d \in Dirs : <<f, d>> \in waiting => fd[f] = "open"

Waits ==
  \A f \in Fds, d \in Dirs :
    fd[f] = "open" => (<<f, d>> \in waiting <=> Asked(changes, in, f, d))

(* A coroutine that is about to be resumed still waits, and has not asked again;
   nobody else asks for a coroutine that does not wait. *)
Woken ==
  \A f \in Fds, d \in Dirs :
    /\ ready[<<f, d>>] > 0 => <<f, d>> \in waiting /\ Unasked(changes, f, d)
    /\ <<f, d>> \notin waiting => Unasked(changes, f, d)

LoopInv ==
  /\ Typed /\ Fits(in, reg, idx, fd) /\ Apart /\ Waits /\ Woken
  /\ stray = FALSE /\ (~Hangups => hup = [f \in Fds |-> FALSE])

LEMMA LoopInit == ASSUME Usable, Init PROVE LoopInv
<1>1. /\ changes = <<>> /\ in = [f \in Fds |-> {}] /\ waiting = {} /\ stray = FALSE
      /\ ready = [t \in Fds \X Dirs |-> 0] /\ pc = "wake" /\ fd = [f \in Fds |-> "open"]
      /\ idx = [f \in Fds |-> 0] /\ hup = [f \in Fds |-> FALSE]
      /\ reg = IF Backend = "poll" THEN <<>> ELSE [f \in Fds |-> {}]
  BY DEF Init
<1>2. Len(changes) = 0 /\ changes \in Seq(Changes) /\ \A k \in 1..Len(changes) : FALSE
  BY <1>1
<1>3. Typed
  BY <1>1, <1>2 DEF Typed
<1>4. Fits(in, reg, idx, fd)
  <2>1. CASE Backend = "poll"
    <3>1. reg \in Seq(Slots) /\ \A j \in 1..Len(reg) : FALSE
      BY <1>1, <2>1
    <3> QED
      BY <1>1, <2>1, <3>1 DEF Fits, InPoll
  <2>2. CASE Backend # "poll"
    BY <1>1, <2>2 DEF Fits, InEpoll
  <2> QED
    BY <2>1, <2>2
<1>5. Apart
  BY <1>1, <1>2 DEF Apart, OneWay
<1>6. Waits /\ Woken
  BY <1>1, <1>2 DEF Waits, Woken, Asked, Unasked
<1> QED
  BY <1>1, <1>3, <1>4, <1>5, <1>6 DEF LoopInv

LEMMA LoopApply == ASSUME Usable, LoopInv, apply_change PROVE LoopInv'
<1> DEFINE ch == Head(changes)
           s0 == [in |-> in, reg |-> reg, idx |-> idx, ok |-> TRUE]
<1>1. PICK same :
        /\ in' = Applied(s0, ch, same).in /\ reg' = Applied(s0, ch, same).reg
        /\ idx' = Applied(s0, ch, same).idx
        /\ pc' = IF Applied(s0, ch, same).ok THEN "poll" ELSE "threw"
  BY DEF apply_change
<1>2. /\ changes # <<>> /\ changes' = Tail(changes) /\ ready' = ready /\ waiting' = waiting
      /\ stray' = stray /\ fd' = fd /\ hup' = hup
  BY DEF apply_change, net
<1>3. changes \in Seq(Changes) /\ in \in [Fds -> SUBSET Dirs] /\ Fits(in, reg, idx, fd)
  BY DEF LoopInv, Typed
<1>4. /\ ch \in Changes /\ ch = changes[1] /\ changes' \in Seq(Changes) /\ 1 \in 1..Len(changes)
      /\ \A j \in 1..Len(changes') : changes'[j] = changes[j + 1] /\ j + 1 \in 1..Len(changes)
  BY <1>2, <1>3, Tailed
<1>5. Backend = "epoll" => OneWay(in) /\ Whole(ch)
  <2> SUFFICES ASSUME Backend = "epoll" PROVE OneWay(in) /\ Whole(ch)
    OBVIOUS
  <2>1. OneWay(in) /\ TakesAll(ch)
    BY <1>4 DEF LoopInv, Apart
  <2>2. CASE ch.h = TRUE
    <3>1. ch.fd \in Fds /\ ch.type \in SUBSET Dirs /\ ch.type # {}
      BY <1>4, ChangeFacts
    <3>2. ASSUME NEW d \in ch.type PROVE <<ch.fd, d>> \in waiting
      <4>1. Concerns(changes[1], ch.fd, d) /\ changes[1].h = TRUE
        BY <1>4, <2>2 DEF Concerns
      <4>2. ~Unasked(changes, ch.fd, d)
        BY <1>4, <4>1 DEF Unasked
      <4> QED
        BY <3>1, <4>2 DEF LoopInv, Woken
    <3>3. \A d \in ch.type : fd[ch.fd] = "open" /\ <<ch.fd, d>> \in Tasks
      BY <3>1, <3>2 DEF LoopInv, Apart, Typed
    <3> QED
      BY <2>1, <3>1, <3>3 DEF Whole
  <2> QED
    BY <2>1, <2>2 DEF Whole
<1>6. /\ in' = Changed(in, ch) /\ Fits(in', reg', idx', fd') /\ pc' = "poll"
      /\ Backend = "epoll" => OneWay(in')
  <2> DEFINE s == Applied(s0, ch, same)
  <2>1. IsApplied(s, in, ch)
    <3> HIDE DEF ch
    <3> QED
      BY <1>3, <1>4, <1>5, OneApplied
  <2>2. in' = s.in /\ reg' = s.reg /\ idx' = s.idx /\ pc' = IF s.ok THEN "poll" ELSE "threw"
    BY <1>1
  <2> HIDE DEF s, ch
  <2> QED
    BY <1>2, <2>1, <2>2 DEF IsApplied
<1>7. in' \in [Fds -> SUBSET Dirs]
  BY <1>3, <1>4, <1>6, ChangeFacts DEF Changed
<1>8. Typed'
  BY <1>2, <1>4, <1>6, <1>7 DEF LoopInv, Typed
<1>9. Apart'
  BY <1>2, <1>4, <1>6 DEF LoopInv, Apart
<1>10. Waits'
  <2> SUFFICES ASSUME NEW f \in Fds, NEW d \in Dirs, fd'[f] = "open"
               PROVE  <<f, d>> \in waiting' <=> Asked(changes', in', f, d)
    BY DEF Waits
  <2>1. Asked(Tail(changes), Changed(in, Head(changes)), f, d) <=> Asked(changes, in, f, d)
    BY <1>2, <1>3, AskedApplied
  <2> QED
    BY <1>2, <1>6, <2>1 DEF LoopInv, Waits
<1>11. Woken'
  BY <1>2, <1>4 DEF LoopInv, Woken, Unasked
<1> QED
  BY <1>2, <1>6, <1>8, <1>9, <1>10, <1>11 DEF LoopInv

-----------------------------------------------------------------------------
(* Poll() *)

LEMMA AtMostOne ==
  ASSUME NEW S, NEW e, S \subseteq {e}
  PROVE  Cardinality(S) \in {0, 1} /\ (Cardinality(S) > 0 => S # {})
<1>1. CASE S = {}
  BY <1>1, FS_EmptySet
<1>2. CASE S = {e}
  BY <1>2, FS_Singleton
<1> QED
  BY <1>1, <1>2

(* An entry without events is at the end, or has none to be reported. *)
LEMMA Trimmed ==
  ASSUME Backend = "poll", NEW f, Fds = {f}, NEW ins \in [Fds -> SUBSET Dirs],
         NEW r, NEW ix, InPoll(ins, r, ix)
  PROVE  InPoll(ins, poll_trim(r), ix)
<1> DEFINE used == {i \in DOMAIN r : r[i].events # {}}
           end == IF used = {} THEN 0 ELSE Max(used)
<1>1. /\ r \in Seq(Slots) /\ ix \in [Fds -> Nat] /\ Len(r) \in Nat /\ DOMAIN r = 1..Len(r)
      /\ f \in Fds
      /\ ix[f] = 0 => ins[f] = {} /\ \A j \in 1..Len(r) : r[j].events = {}
      /\ ix[f] # 0 => /\ ix[f] \in 1..Len(r) /\ r[ix[f]].events = ins[f] /\ ins[f] # {}
                      /\ \A j \in 1..Len(r) : j # ix[f] => r[j].events = {}
  BY DEF InPoll
<1>2. CASE ix[f] = 0
  <2>1. used = {}
    BY <1>1, <1>2
  <2>2. poll_trim(r) \in Seq(Slots) /\ Len(poll_trim(r)) = 0
    BY <1>1, <2>1 DEF poll_trim
  <2>3. \A j \in 1..Len(poll_trim(r)) : FALSE
    BY <2>2
  <2> QED
    BY <1>1, <1>2, <2>2, <2>3 DEF InPoll
<1>3. CASE ix[f] # 0
  <2> DEFINE n == ix[f]
  <2>1. used = {n} /\ n \in 1..Len(r) /\ n \in Nat
    BY <1>1, <1>3
  <2>2. end = n
    <3>1. Max({n}) = n
      <4>1. n >= n
        BY <2>1
      <4> HIDE DEF n
      <4> QED
        BY <4>1 DEF Max
    <3> QED
      BY <2>1, <3>1
  <2>3. poll_trim(r) = SubSeq(r, 1, n)
    BY <2>2 DEF poll_trim
  <2> DEFINE q == SubSeq(r, 1, n)
  <2>4. q \in Seq(Slots) /\ Len(q) = n /\ \A j \in 1..n : q[j] = r[j] /\ j \in 1..Len(r)
    <3> HIDE DEF n
    <3> QED
      BY <1>1, <2>1
  <2> HIDE DEF q
  <2>5. InPoll(ins, q, ix)
    BY <1>1, <1>3, <2>1, <2>4 DEF InPoll
  <2> QED
    BY <2>3, <2>5 DEF q
<1> QED
  BY <1>2, <1>3

LEMMA LoopPoll ==
  ASSUME Usable, LoopInv, Poll, ready' = Events(reg'), pc' = "wake"
  PROVE  LoopInv'
<1>1. /\ changes = <<>> /\ reg' = IF Backend = "poll" THEN poll_trim(reg) ELSE reg
      /\ ready' = Events(reg') /\ pc' = "wake" /\ changes' = changes /\ in' = in
      /\ idx' = idx /\ waiting' = waiting /\ fd' = fd /\ hup' = hup /\ stray' = stray
  BY DEF Poll, net
<1>2. in \in [Fds -> SUBSET Dirs] /\ Fits(in, reg, idx, fd)
  BY DEF LoopInv, Typed
<1>3. Fits(in, reg', idx, fd)
  <2>1. CASE Backend = "poll"
    BY <1>1, <1>2, <2>1, Trimmed DEF Usable, Fits
  <2> QED
    BY <1>1, <1>2, <2>1 DEF Fits
<1>4. ASSUME NEW t \in Fds \X Dirs
      PROVE  /\ ready'[t] \in {0, 1}
             /\ ready'[t] > 0 => fd[t[1]] = "open" /\ t[2] \in in[t[1]]
  <2> DEFINE f == t[1]
             r == reg'
  <2>1. f \in Fds
    OBVIOUS
  <2>2. CASE Backend \in {"select", "epoll"}
    <3>1. r[f] \in {in[f], {}} /\ Entries(r, f) = {<<1, r[f]>>}
      BY <1>3, <2>1, <2>2 DEF Fits, InEpoll, Entries
    <3>2. ready'[t] = Cardinality(IF Backend = "select" THEN select_events(r, t)
                                  ELSE epoll_events(r, t))
      BY <1>1, <2>2 DEF Events
    <3>3. /\ select_events(r, t) \subseteq {<<1, r[f]>>} /\ epoll_events(r, t) \subseteq {<<1, r[f]>>}
          /\ select_events(r, t) # {} => fd[f] = "open" /\ t[2] \in in[f]
          /\ epoll_events(r, t) # {} => fd[f] = "open" /\ t[2] \in in[f]
      BY <3>1 DEF select_events, epoll_events, IsReady, Hup
    <3> HIDE DEF f, r
    <3>4. CASE Backend = "select"
      BY <3>2, <3>3, <3>4, AtMostOne DEF f
    <3>5. CASE Backend = "epoll"
      BY <3>2, <3>3, <3>5, AtMostOne DEF f
    <3> QED
      BY <2>2, <3>4, <3>5
  <2>3. CASE Backend = "poll"
    <3>1. hup[f] = FALSE
      BY <2>1, <2>3 DEF Usable, LoopInv
    <3>2. ready'[t] = Cardinality(poll_events(r, t))
      BY <1>1, <2>3 DEF Events
    <3>3. InPoll(in, r, idx)
      BY <1>3, <2>3 DEF Fits
    <3>4. \A e \in poll_events(r, t) :
            /\ fd[f] = "open" /\ t[2] \in e[2]
            /\ \E j \in 1..Len(r) : e = <<j, r[j].events>>
      BY <2>3, <3>1, <3>3 DEF poll_events, Entries, IsReady, Hup, InPoll
    <3>5. \A j \in 1..Len(r) : t[2] \in r[j].events => j = idx[f] /\ r[j].events = in[f]
      BY <2>1, <3>3 DEF InPoll
    <3>6. poll_events(r, t) \subseteq {<<idx[f], in[f]>>}
      BY <3>4, <3>5
    <3>7. poll_events(r, t) # {} => fd[f] = "open" /\ t[2] \in in[f]
      BY <3>4, <3>5
    <3> HIDE DEF f, r
    <3> QED
      BY <3>2, <3>6, <3>7, AtMostOne DEF f
  <2> QED
    BY <2>2, <2>3 DEF Usable
<1>5. Typed'
  <2>1. ready' \in [Fds \X Dirs -> {0, 1}]
    <3>1. ready' = [t \in Fds \X Dirs |-> ready'[t]]
      BY <1>1 DEF Events
    <3> QED
      BY <1>4, <3>1
  <2> QED
    BY <1>1, <2>1 DEF LoopInv, Typed
<1>6. Apart' /\ Waits'
  BY <1>1 DEF LoopInv, Apart, Waits
<1>7. Woken'
  <2>1. Len(changes) = 0 /\ \A k \in 1..Len(changes) : FALSE
    BY <1>1
  <2>2. ASSUME NEW f \in Fds, NEW d \in Dirs, ready'[<<f, d>>] > 0
        PROVE  <<f, d>> \in waiting
    <3>1. fd[f] = "open" /\ d \in in[f]
      BY <1>4, <2>2
    <3>2. Asked(changes, in, f, d)
      BY <2>1, <3>1 DEF Asked
    <3> QED
      BY <3>1, <3>2 DEF LoopInv, Waits
  <2> QED
    BY <1>1, <2>1, <2>2 DEF Woken, Unasked
<1> QED
  BY <1>1, <1>3, <1>5, <1>6, <1>7 DEF LoopInv

-----------------------------------------------------------------------------
(* What a coroutine asks for *)

LEMMA AsksFacts ==
  ASSUME NEW f \in Fds, NEW d \in Dirs
  PROVE  /\ Suspend(<<f, d>>) = <<Change(f, {d}, TRUE)>> /\ Change(f, {d}, TRUE) \in Changes
         /\ Close(<<f, d>>) = <<Change(f, Dirs, FALSE)>> /\ Change(f, Dirs, FALSE) \in Changes
         /\ Change(f, {d}, FALSE) \in Changes
         /\ Suspend(<<f, d>>) # Close(<<f, d>>) /\ Suspend(<<f, d>>) # <<>> /\ Close(<<f, d>>) # <<>>
<1>1. {d} \in (SUBSET Dirs) \ {{}} /\ Dirs \in (SUBSET Dirs) \ {{}}
  BY DEF Dirs
<1>2. Suspend(<<f, d>>) = <<Change(f, {d}, TRUE)>> /\ Close(<<f, d>>) = <<Change(f, Dirs, FALSE)>>
  BY DEF Suspend, Close
<1>3. /\ Change(f, {d}, TRUE) \in Changes /\ Change(f, Dirs, FALSE) \in Changes
      /\ Change(f, {d}, FALSE) \in Changes
  BY <1>1, ChangeIsOne
<1>4. Change(f, {d}, TRUE).type = {d} /\ Change(f, Dirs, FALSE).type = Dirs /\ {d} # Dirs
  BY <1>1, ChangeIsOne, ZenonT(60) DEF Dirs
<1>5. \A u, v : <<u>> = <<v>> => u = v
  OBVIOUS
<1>6. \A u : <<u>> # <<>>
  OBVIOUS
<1> QED
  BY <1>2, <1>3, <1>4, <1>5, <1>6

(* Concerns, for each of the changes above *)
LEMMA ConcernsFacts ==
  ASSUME NEW f \in Fds, NEW d \in Dirs, NEW g \in Fds, NEW e \in Dirs
  PROVE  /\ Concerns(Change(f, {d}, TRUE), g, e) <=> g = f /\ e = d
         /\ Concerns(Change(f, {d}, FALSE), g, e) <=> g = f /\ e = d
         /\ Concerns(Change(f, Dirs, FALSE), g, e) <=> g = f
         /\ Change(f, {d}, TRUE).h = TRUE /\ Change(f, {d}, FALSE).h # TRUE
         /\ Change(f, Dirs, FALSE).h # TRUE
BY DEF Concerns, Change

LEMMA UnaskedAppended ==
  ASSUME NEW chs \in Seq(Changes), NEW ch \in Changes, NEW f, NEW d, Unasked(chs, f, d),
         Concerns(ch, f, d) => ch.h # TRUE
  PROVE  Unasked(Append(chs, ch), f, d)
<1> DEFINE all == Append(chs, ch)
<1>1. /\ Len(all) = Len(chs) + 1 /\ Len(chs) \in Nat /\ all[Len(chs) + 1] = ch
      /\ \A j \in 1..Len(chs) : all[j] = chs[j]
  BY Appended
<1> HIDE DEF all
<1>2. \A k \in 1..Len(all) : k \in 1..Len(chs) \/ k = Len(chs) + 1
  BY <1>1
<1>3. Unasked(all, f, d)
  BY <1>1, <1>2 DEF Unasked
<1> QED
  BY <1>3 DEF all

(* The last change takes the interest back. *)
LEMMA LastTakesBack ==
  ASSUME NEW chs \in Seq(Changes), chs # <<>>, NEW ins, NEW f, NEW d, Unasked(chs, f, d),
         Concerns(chs[Len(chs)], f, d)
  PROVE  ~Asked(chs, ins, f, d)
<1>1. Len(chs) \in 1..Len(chs)
  OBVIOUS
<1> QED
  BY <1>1 DEF Asked, Unasked

(* AfterResume: a change of the coroutine's own for the event stays the last one. *)
LEMMA OwnStays ==
  ASSUME NEW chs \in Seq(Changes), NEW ch \in Changes, NEW f \in Fds, NEW d \in Dirs,
         Concerns(ch, f, d)
  PROVE  AfterResume(Append(chs, ch), f, d) = Append(chs, ch)
<1> DEFINE all == Append(chs, ch)
<1>1. /\ Len(all) = Len(chs) + 1 /\ Len(chs) \in Nat /\ all[Len(chs) + 1] = ch /\ all # <<>>
  BY Appended
<1> HIDE DEF all
<1>2. AfterResume(all, f, d) = all
  BY <1>1 DEF AfterResume, Match, Concerns, Last
<1> QED
  BY <1>2 DEF all

LEMMA TakenBack ==
  ASSUME NEW chs \in Seq(Changes), NEW f \in Fds, NEW d \in Dirs
  PROVE  \/ AfterResume(chs, f, d) = Append(chs, Change(f, {d}, FALSE))
         \/ AfterResume(chs, f, d) = chs /\ chs # <<>> /\ Concerns(chs[Len(chs)], f, d)
BY DEF AfterResume, Match, Concerns, Last

LEMMA RunFacts ==
  ASSUME NEW t, NEW resumed, NEW asks, Run(t, resumed, asks)
  PROVE  /\ reg' = (IF asks = Close(t) /\ Backend = "epoll" THEN [reg EXCEPT ![t[1]] = {}] ELSE reg)
         /\ in' = in /\ idx' = idx /\ pc' = pc /\ hup' = hup
         /\ waiting' = IF asks = Suspend(t) THEN waiting \cup {t} ELSE waiting \ {t}
         /\ asks # Close(t) => fd' = fd
         /\ asks = Close(t) => fd' = [fd EXCEPT ![t[1]] = "closed"] /\ fd[t[1]] = "open"
<1>1. Close(t) # <<>>
  BY DEF Close
<1>2. Suspend(t) # Close(t)
  <2>1. Change(t[1], {t[2]}, TRUE) # Change(t[1], Dirs, FALSE)
    BY DEF Change
  <2> QED
    BY <2>1 DEF Suspend, Close
<1>3. asks = Close(t) => fd[t[1]] = "open"
  BY <1>1, <1>2 DEF Run
<1> QED
  BY <1>3 DEF Run

LEMMA AllAppended ==
  ASSUME NEW chs \in Seq(Changes), NEW ch \in Changes, TakesAll(ch),
         \A k \in 1..Len(chs) : TakesAll(chs[k])
  PROVE  \A k \in 1..Len(Append(chs, ch)) : TakesAll(Append(chs, ch)[k])
<1> DEFINE all == Append(chs, ch)
<1>1. /\ Len(all) = Len(chs) + 1 /\ Len(chs) \in Nat /\ all[Len(chs) + 1] = ch
      /\ \A j \in 1..Len(chs) : all[j] = chs[j]
  BY Appended
<1> HIDE DEF all
<1>2. \A k \in 1..Len(all) : k \in 1..Len(chs) \/ k = Len(chs) + 1
  BY <1>1
<1>3. \A k \in 1..Len(all) : TakesAll(all[k])
  BY <1>1, <1>2
<1> QED
  BY <1>3 DEF all

(* A descriptor that is used in one direction has one coroutine. *)
LEMMA OneEach ==
  ASSUME Readers \cap Writers = {}, NEW f, NEW d, NEW e, <<f, d>> \in Tasks, <<f, e>> \in Tasks
  PROVE  d = e
BY DEF Tasks

(* A coroutine has run: chs are the changes then, and it waits, or does not. *)
HasRun(f, d, chs, waits) ==
  /\ chs \in Seq(Changes)
  /\ Backend = "epoll" => \A k \in 1..Len(chs) : TakesAll(chs[k])
  /\ ~waits => Unasked(chs, f, d)
  /\ \A g \in Fds, e \in Dirs : (g # f \/ e # d) /\ Unasked(changes, g, e) => Unasked(chs, g, e)
  /\ \A g \in Fds, e \in Dirs :
       Asked(chs, in, g, e) <=> IF g = f /\ e = d THEN waits ELSE Asked(changes, in, g, e)

LEMMA HasRunAppended ==
  ASSUME NEW f \in Fds, NEW d \in Dirs, NEW h \in BOOLEAN, Usable, LoopInv, <<f, d>> \in Tasks,
         ~h => Unasked(changes, f, d)
  PROVE  HasRun(f, d, Append(changes, Change(f, {d}, h)), h)
<1> DEFINE ch == Change(f, {d}, h)
           chs == Append(changes, ch)
<1>1. changes \in Seq(Changes)
  BY DEF LoopInv, Typed
<1>2. ch \in Changes /\ ch.fd = f /\ ch.type = {d} /\ (ch.h = TRUE <=> h = TRUE)
  <2>1. {d} \in (SUBSET Dirs) \ {{}}
    OBVIOUS
  <2> QED
    BY ONLY <2>1, f \in Fds, h \in BOOLEAN DEF Change, Changes, ch
<1> HIDE DEF ch
<1>3. \A g, e : Concerns(ch, g, e) <=> g = f /\ e = d
  BY <1>2 DEF Concerns
<1>4. chs \in Seq(Changes)
  BY <1>1, <1>2, Appended
<1>5. Backend = "epoll" => \A k \in 1..Len(chs) : TakesAll(chs[k])
  <2> SUFFICES ASSUME Backend = "epoll" PROVE \A k \in 1..Len(chs) : TakesAll(chs[k])
    OBVIOUS
  <2>1. \A e \in Dirs : <<f, e>> \in Tasks => e = d
    BY OneEach DEF Usable
  <2>2. TakesAll(ch)
    BY <1>2, <2>1 DEF TakesAll
  <2> QED
    BY <1>1, <1>2, <2>2, AllAppended DEF LoopInv, Apart
<1>6. \A g \in Fds, e \in Dirs : (g # f \/ e # d) /\ Unasked(changes, g, e) => Unasked(chs, g, e)
  BY <1>1, <1>2, <1>3, UnaskedAppended
<1>7. \A g \in Fds, e \in Dirs :
        Asked(chs, in, g, e) <=> IF g = f /\ e = d THEN h ELSE Asked(changes, in, g, e)
  BY <1>1, <1>2, <1>3, AskedAppended
<1>8. ~h => Unasked(chs, f, d)
  BY <1>1, <1>2, UnaskedAppended
<1> HIDE DEF chs
<1>9. HasRun(f, d, chs, h)
  BY <1>4, <1>5, <1>6, <1>7, <1>8 DEF HasRun
<1> QED
  BY <1>9 DEF chs, ch

LEMMA Ran ==
  ASSUME NEW f \in Fds, NEW d \in Dirs, Usable, LoopInv, <<f, d>> \in Tasks,
         Backend = "epoll" => fd[f] = "open",
         in' = in, reg' = reg, idx' = idx, pc' = pc, hup' = hup, stray' = FALSE, fd' = fd,
         ready' \in [Fds \X Dirs -> {0, 1}], ready'[<<f, d>>] = 0,
         \A g \in Fds, e \in Dirs : ready'[<<g, e>>] > 0 => ready[<<g, e>>] > 0,
         \/ waiting' = waiting \cup {<<f, d>>} /\ HasRun(f, d, changes', TRUE)
         \/ waiting' = waiting \ {<<f, d>>} /\ HasRun(f, d, changes', FALSE)
  PROVE  LoopInv'
<1>1. waiting' \in SUBSET Tasks /\ changes' \in Seq(Changes)
  BY DEF LoopInv, Typed, HasRun
<1>2. Typed'
  BY <1>1 DEF LoopInv, Typed
<1>3. Apart'
  <2>1. Backend = "epoll" => \A k \in 1..Len(changes') : TakesAll(changes'[k])
    BY DEF HasRun
  <2>2. ASSUME NEW g \in Fds, NEW e \in Dirs, <<g, e>> \in waiting'
        PROVE  <<g, e>> \in waiting \/ g = f
    <3>1. <<g, e>> = <<f, d>> => g = f
      OBVIOUS
    <3>2. <<g, e>> \in waiting \/ <<g, e>> = <<f, d>>
      BY <2>2
    <3> QED
      BY <3>1, <3>2
  <2>3. Backend = "epoll" => \A g \in Fds, e \in Dirs : <<g, e>> \in waiting' => fd'[g] = "open"
    BY <2>2 DEF LoopInv, Apart
  <2>4. Backend = "epoll" => OneWay(in')
    BY DEF LoopInv, Apart
  <2> QED
    BY <2>1, <2>3, <2>4 DEF Apart, TakesAll, OneWay
<1>4. Waits'
  <2> SUFFICES ASSUME NEW g \in Fds, NEW e \in Dirs, fd'[g] = "open"
               PROVE  <<g, e>> \in waiting' <=> Asked(changes', in', g, e)
    BY DEF Waits
  <2>1. <<g, e>> \in waiting <=> Asked(changes, in, g, e)
    BY DEF LoopInv, Waits
  <2>2. <<g, e>> = <<f, d>> <=> g = f /\ e = d
    OBVIOUS
  <2> QED
    BY <2>1, <2>2 DEF HasRun
<1>5. Woken'
  <2>1. ASSUME NEW g \in Fds, NEW e \in Dirs, ready'[<<g, e>>] > 0
        PROVE  <<g, e>> \in waiting' /\ Unasked(changes', g, e)
    <3>1. <<g, e>> # <<f, d>>
      BY <2>1
    <3>2. <<g, e>> \in waiting /\ Unasked(changes, g, e)
      BY <2>1 DEF LoopInv, Woken
    <3> QED
      BY <3>1, <3>2 DEF HasRun
  <2>2. ASSUME NEW g \in Fds, NEW e \in Dirs, <<g, e>> \notin waiting'
        PROVE  Unasked(changes', g, e)
    <3>1. CASE g = f /\ e = d
      BY <2>2, <3>1 DEF HasRun
    <3>2. CASE g # f \/ e # d
      <4>1. <<g, e>> # <<f, d>>
        BY <3>2
      <4>2. <<g, e>> \notin waiting
        BY <2>2, <4>1
      <4>3. Unasked(changes, g, e)
        BY <4>2 DEF LoopInv, Woken
      <4> QED
        BY <3>2, <4>3 DEF HasRun
    <3> QED
      BY <3>1, <3>2
  <2> QED
    BY <2>1, <2>2 DEF Woken
<1> QED
  BY <1>2, <1>3, <1>4, <1>5 DEF LoopInv

(* It has closed its socket, and nothing that is still asked for matters there. *)
LEMMA Closed ==
  ASSUME NEW f \in Fds, NEW d \in Dirs, Usable, LoopInv,
         in' = in, idx' = idx, pc' = pc, hup' = hup, stray' = FALSE,
         reg' = IF Backend = "epoll" THEN [reg EXCEPT ![f] = {}] ELSE reg,
         fd' = [fd EXCEPT ![f] = "closed"],
         changes' = Append(changes, Change(f, Dirs, FALSE)),
         ready' \in [Fds \X Dirs -> {0, 1}],
         \A g \in Fds, e \in Dirs : ready'[<<g, e>>] > 0 => ready[<<g, e>>] > 0,
         Backend = "epoll" => \A e \in Dirs : <<f, e>> \notin waiting',
         \/ waiting' = waiting
         \/ waiting' = waiting \ {<<f, d>>} /\ ready'[<<f, d>>] = 0 /\ Unasked(changes, f, d)
  PROVE  LoopInv'
<1>1. changes \in Seq(Changes) /\ Change(f, Dirs, FALSE) \in Changes
  BY AsksFacts DEF LoopInv, Typed
<1>2. changes' \in Seq(Changes)
  BY <1>1, Appended
<1>3. Typed'
  BY <1>2 DEF LoopInv, Typed
<1>4. Waits'
  <2> SUFFICES ASSUME NEW g \in Fds, NEW e \in Dirs, fd'[g] = "open"
               PROVE  <<g, e>> \in waiting' <=> Asked(changes', in', g, e)
    BY DEF Waits
  <2>1. g # f /\ fd[g] = "open"
    BY DEF LoopInv, Typed
  <2>2. <<g, e>> \in waiting <=> Asked(changes, in, g, e)
    BY <2>1 DEF LoopInv, Waits
  <2>3. ~Concerns(Change(f, Dirs, FALSE), g, e)
    BY ONLY <2>1 DEF Concerns, Change
  <2>4. Asked(changes', in, g, e) <=> Asked(changes, in, g, e)
    BY <1>1, <2>3, AskedAppended
  <2> QED
    BY <2>1, <2>2, <2>4
<1>5. Woken'
  <2>1. \A g \in Fds, e \in Dirs : Unasked(changes, g, e) => Unasked(changes', g, e)
    <3>1. Change(f, Dirs, FALSE).h # TRUE
      BY ConcernsFacts
    <3> QED
      BY <1>1, <3>1, UnaskedAppended
  <2>2. ASSUME NEW g \in Fds, NEW e \in Dirs, ready'[<<g, e>>] > 0
        PROVE  <<g, e>> \in waiting' /\ Unasked(changes, g, e)
    <3>1. <<g, e>> \in waiting /\ Unasked(changes, g, e)
      BY <2>2 DEF LoopInv, Woken
    <3>2. <<g, e>> \in waiting'
      BY <2>2, <3>1
    <3> QED
      BY <3>1, <3>2
  <2>3. ASSUME NEW g \in Fds, NEW e \in Dirs, <<g, e>> \notin waiting'
        PROVE  Unasked(changes, g, e)
    <3>1. CASE <<g, e>> \notin waiting
      BY <3>1 DEF LoopInv, Woken
    <3>2. CASE <<g, e>> \in waiting
      <4>1. <<g, e>> = <<f, d>> /\ Unasked(changes, f, d)
        BY <2>3, <3>2
      <4>2. g = f /\ e = d
        BY <4>1
      <4> QED
        BY <4>1, <4>2
    <3> QED
      BY <3>1, <3>2
  <2> QED
    BY <2>1, <2>2, <2>3 DEF Woken
<1>6. Apart'
  <2> SUFFICES ASSUME Backend = "epoll" PROVE Apart'
    BY DEF Apart
  <2>1. TakesAll(Change(f, Dirs, FALSE))
    BY DEF TakesAll, Change
  <2>2. \A k \in 1..Len(changes') : TakesAll(changes'[k])
    BY <1>1, <2>1, AllAppended DEF LoopInv, Apart
  <2>3. \A g \in Fds, e \in Dirs : <<g, e>> \in waiting' => g # f /\ <<g, e>> \in waiting
    OBVIOUS
  <2>4. \A g \in Fds : g # f => fd'[g] = fd[g]
    BY DEF LoopInv, Typed
  <2> QED
    BY <2>2, <2>3, <2>4 DEF LoopInv, Apart, TakesAll
<1>7. Fits(in', reg', idx', fd')
  <2>1. InEpoll(in, reg, fd) /\ Backend = "epoll" => InEpoll(in, reg', fd')
    BY DEF InEpoll, LoopInv, Typed
  <2> QED
    BY <2>1 DEF LoopInv, Fits
<1> QED
  BY <1>3, <1>4, <1>5, <1>6, <1>7 DEF LoopInv

LEMMA LoopWakeup == ASSUME Usable, LoopInv, NEW t \in Fds \X Dirs, Wakeup(t) PROVE LoopInv'
<1>1. PICK f \in Fds, d \in Dirs : t = <<f, d>>
  OBVIOUS
<1>2. PICK asks \in {<<>>, Suspend(t), Close(t)} :
        Run(t, TRUE, asks) /\ changes' = AfterResume(changes \o asks, f, d)
  BY <1>1 DEF Wakeup
<1>3. /\ ready[<<f, d>>] > 0 /\ ready' = [ready EXCEPT ![<<f, d>>] = @ - 1]
      /\ stray' = (stray \/ <<f, d>> \notin waiting)
  BY <1>1 DEF Wakeup
<1>4. /\ <<f, d>> \in waiting /\ Unasked(changes, f, d) /\ <<f, d>> \in Tasks /\ stray' = FALSE
      /\ Backend = "epoll" => fd[f] = "open" /\ \A e \in Dirs : <<f, e>> \in waiting => e = d
  <2>1. <<f, d>> \in waiting /\ Unasked(changes, f, d) /\ <<f, d>> \in Tasks /\ stray' = FALSE
    BY <1>3 DEF LoopInv, Woken, Typed
  <2>2. Backend = "epoll" => fd[f] = "open"
    BY <2>1 DEF LoopInv, Apart
  <2>3. Backend = "epoll" => \A e \in Dirs : <<f, e>> \in waiting => e = d
    BY <2>1, OneEach DEF Usable, LoopInv, Typed
  <2> QED
    BY <2>1, <2>2, <2>3
<1>5. /\ ready' \in [Fds \X Dirs -> {0, 1}] /\ ready'[<<f, d>>] = 0
      /\ \A g \in Fds, e \in Dirs : ready'[<<g, e>>] > 0 => ready[<<g, e>>] > 0
  <2>1. ready \in [Fds \X Dirs -> {0, 1}] /\ <<f, d>> \in Fds \X Dirs
    BY DEF LoopInv, Typed
  <2>2. ready[<<f, d>>] = 1
    BY <1>3, <2>1
  <2>3. ready' = [ready EXCEPT ![<<f, d>>] = 0]
    BY <1>3, <2>2
  <2>4. \A g \in Fds, e \in Dirs : ready'[<<g, e>>] > 0 => <<g, e>> # <<f, d>>
    BY <2>1, <2>3
  <2> QED
    BY <2>1, <2>3, <2>4
<1>6. /\ reg' = (IF asks = Close(t) /\ Backend = "epoll" THEN [reg EXCEPT ![t[1]] = {}] ELSE reg)
      /\ in' = in /\ idx' = idx /\ pc' = pc /\ hup' = hup
      /\ waiting' = IF asks = Suspend(t) THEN waiting \cup {t} ELSE waiting \ {t}
      /\ asks # Close(t) => fd' = fd
      /\ asks = Close(t) => fd' = [fd EXCEPT ![t[1]] = "closed"] /\ fd[t[1]] = "open"
  BY <1>2, RunFacts
<1>7. /\ Suspend(t) = <<Change(f, {d}, TRUE)>> /\ Change(f, {d}, TRUE) \in Changes
      /\ Close(t) = <<Change(f, Dirs, FALSE)>> /\ Change(f, Dirs, FALSE) \in Changes
      /\ Suspend(t) # Close(t) /\ Suspend(t) # <<>> /\ Close(t) # <<>>
  BY <1>1, AsksFacts
<1>8. changes \in Seq(Changes)
  BY DEF LoopInv, Typed
<1>9. CASE asks = <<>>
  <2>1. changes' = AfterResume(changes, f, d)
    BY <1>2, <1>8, <1>9
  <2>2. HasRun(f, d, changes', FALSE)
    <3>1. CASE changes' = Append(changes, Change(f, {d}, FALSE))
      BY <1>4, <3>1, HasRunAppended
    <3>2. CASE changes' = changes /\ changes # <<>> /\ Concerns(changes[Len(changes)], f, d)
      <4>1. ~Asked(changes, in, f, d)
        BY <1>4, <1>8, <3>2, LastTakesBack
      <4> QED
        BY <1>4, <1>8, <3>2, <4>1 DEF HasRun, LoopInv, Apart
    <3> QED
      BY <1>7, <1>8, <2>1, <3>1, <3>2, TakenBack
  <2>3. waiting' = waiting \ {<<f, d>>} /\ fd' = fd /\ reg' = reg
    BY <1>1, <1>6, <1>7, <1>9
  <2> QED
    BY <1>4, <1>5, <1>6, <2>2, <2>3, Ran
<1>10. CASE asks = Suspend(t)
  <2>1. Concerns(Change(f, {d}, TRUE), f, d)
    BY ConcernsFacts
  <2>2. changes' = Append(changes, Change(f, {d}, TRUE))
    <3> DEFINE ch == Change(f, {d}, TRUE)
    <3>1. ch \in Changes /\ asks = <<ch>> /\ Concerns(ch, f, d)
      BY <1>7, <1>10, <2>1
    <3> HIDE DEF ch
    <3>2. changes \o asks = Append(changes, ch)
      BY <1>8, <3>1, Followed
    <3>3. AfterResume(Append(changes, ch), f, d) = Append(changes, ch)
      BY <1>8, <3>1, OwnStays
    <3>4. changes' = Append(changes, ch)
      BY <1>2, <3>2, <3>3
    <3> QED
      BY <3>4 DEF ch
  <2>3. HasRun(f, d, changes', TRUE)
    BY <1>4, <2>2, HasRunAppended
  <2>4. waiting' = waiting \cup {<<f, d>>} /\ fd' = fd /\ reg' = reg
    BY <1>1, <1>6, <1>7, <1>10
  <2> QED
    BY <1>4, <1>5, <1>6, <2>3, <2>4, Ran
<1>11. CASE asks = Close(t)
  <2>1. Concerns(Change(f, Dirs, FALSE), f, d)
    BY ConcernsFacts
  <2>2. changes' = Append(changes, Change(f, Dirs, FALSE))
    <3> DEFINE ch == Change(f, Dirs, FALSE)
    <3>1. ch \in Changes /\ asks = <<ch>> /\ Concerns(ch, f, d)
      BY <1>7, <1>11, <2>1
    <3> HIDE DEF ch
    <3>2. changes \o asks = Append(changes, ch)
      BY <1>8, <3>1, Followed
    <3>3. AfterResume(Append(changes, ch), f, d) = Append(changes, ch)
      BY <1>8, <3>1, OwnStays
    <3>4. changes' = Append(changes, ch)
      BY <1>2, <3>2, <3>3
    <3> QED
      BY <3>4 DEF ch
  <2>3. /\ waiting' = waiting \ {<<f, d>>} /\ fd' = [fd EXCEPT ![f] = "closed"]
        /\ reg' = IF Backend = "epoll" THEN [reg EXCEPT ![f] = {}] ELSE reg
    BY <1>1, <1>6, <1>7, <1>11
  <2>4. Backend = "epoll" => \A e \in Dirs : <<f, e>> \notin waiting'
    BY <1>4, <2>3
  <2> QED
    BY <1>4, <1>5, <1>6, <2>2, <2>3, <2>4, Closed
<1> QED
  BY <1>2, <1>9, <1>10, <1>11

LEMMA LoopStart == ASSUME Usable, LoopInv, NEW t \in Tasks, Start(t) PROVE LoopInv'
<1>1. PICK f \in Fds, d \in Dirs : t = <<f, d>> /\ <<f, d>> \in Tasks
  BY DEF Tasks, Fds, Dirs
<1>2. PICK asks \in {<<>>, Suspend(t), Close(t)} :
        Run(t, FALSE, asks) /\ changes' = changes \o asks
  BY DEF Start
<1>3. /\ <<f, d>> \notin waiting /\ ready' = ready /\ stray' = stray /\ stray = FALSE
      /\ fd[f] = "open"
  BY <1>1 DEF Start, LoopInv
<1>4. /\ ready' \in [Fds \X Dirs -> {0, 1}] /\ ready'[<<f, d>>] = 0
      /\ \A g \in Fds, e \in Dirs : ready'[<<g, e>>] > 0 => ready[<<g, e>>] > 0
  <2>1. ready \in [Fds \X Dirs -> {0, 1}] /\ <<f, d>> \in Fds \X Dirs
    BY DEF LoopInv, Typed
  <2>2. ~(ready[<<f, d>>] > 0)
    BY <1>3 DEF LoopInv, Woken
  <2> QED
    BY <1>3, <2>1, <2>2
<1>5. /\ reg' = (IF asks = Close(t) /\ Backend = "epoll" THEN [reg EXCEPT ![t[1]] = {}] ELSE reg)
      /\ in' = in /\ idx' = idx /\ pc' = pc /\ hup' = hup
      /\ waiting' = IF asks = Suspend(t) THEN waiting \cup {t} ELSE waiting \ {t}
      /\ asks # Close(t) => fd' = fd
      /\ asks = Close(t) => fd' = [fd EXCEPT ![t[1]] = "closed"] /\ fd[t[1]] = "open"
  BY <1>2, RunFacts
<1>6. /\ Suspend(t) = <<Change(f, {d}, TRUE)>> /\ Change(f, {d}, TRUE) \in Changes
      /\ Close(t) = <<Change(f, Dirs, FALSE)>> /\ Change(f, Dirs, FALSE) \in Changes
      /\ Suspend(t) # Close(t) /\ Suspend(t) # <<>> /\ Close(t) # <<>>
  BY <1>1, AsksFacts
<1>7. changes \in Seq(Changes)
  BY DEF LoopInv, Typed
<1>8. CASE asks = <<>>
  <2>1. changes' = changes /\ waiting' = waiting /\ fd' = fd /\ reg' = reg
    BY <1>1, <1>2, <1>3, <1>5, <1>6, <1>7, <1>8, SMTT(40)
  <2> QED
    BY <1>3, <1>5, <2>1
       DEF LoopInv, Typed, Apart, Waits, Woken
<1>9. CASE asks = Suspend(t)
  <2>1. changes' = Append(changes, Change(f, {d}, TRUE))
    BY <1>2, <1>6, <1>7, <1>9, Followed
  <2>2. HasRun(f, d, changes', TRUE)
    BY <1>1, <2>1, HasRunAppended
  <2>3. waiting' = waiting \cup {<<f, d>>} /\ fd' = fd /\ reg' = reg
    BY <1>1, <1>5, <1>6, <1>9
  <2> QED
    BY <1>1, <1>3, <1>4, <1>5, <2>2, <2>3, Ran
<1>10. CASE asks = Close(t)
  <2>1. changes' = Append(changes, Change(f, Dirs, FALSE))
    BY <1>2, <1>6, <1>7, <1>10, Followed
  <2>2. /\ waiting' = waiting /\ fd' = [fd EXCEPT ![f] = "closed"]
        /\ reg' = IF Backend = "epoll" THEN [reg EXCEPT ![f] = {}] ELSE reg
    BY <1>1, <1>3, <1>5, <1>6, <1>10
  <2>3. Backend = "epoll" => \A e \in Dirs : <<f, e>> \notin waiting'
    BY <1>1, <1>3, <2>2, OneEach DEF Usable, LoopInv, Typed
  <2> QED
    BY <1>3, <1>4, <1>5, <2>1, <2>2, <2>3, Closed
<1> QED
  BY <1>2, <1>8, <1>9, <1>10

LEMMA LoopPeer == ASSUME LoopInv, NEW f \in Fds, Peer(f) PROVE LoopInv'
<1>1. /\ changes' = changes /\ in' = in /\ reg' = reg /\ idx' = idx /\ ready' = ready
      /\ pc' = pc /\ waiting' = waiting /\ fd' = fd /\ stray' = stray
      /\ hup' = hup \/ Hangups
  BY DEF Peer, poller
<1>2. Typed' /\ Apart' /\ Waits' /\ Woken'
  BY <1>1 DEF LoopInv, Typed, Apart, Waits, Woken
<1> QED
  BY <1>1, <1>2 DEF LoopInv

LEMMA LoopReuse == ASSUME LoopInv, NEW f \in Fds, Reuse(f) PROVE LoopInv'
<1>1. /\ changes' = changes /\ in' = in /\ reg' = reg /\ idx' = idx /\ ready' = ready
      /\ pc' = pc /\ waiting' = waiting /\ stray' = stray /\ hup' = hup
      /\ fd[f] = "closed" /\ fd' = [fd EXCEPT ![f] = "other"]
  BY DEF Reuse, poller
<1>2. \A g \in Fds : fd'[g] = "open" <=> fd[g] = "open"
  BY <1>1 DEF LoopInv, Typed
<1>3. Fits(in', reg', idx', fd')
  BY <1>1, <1>2 DEF LoopInv, Fits, InEpoll
<1>4. Typed' /\ Apart' /\ Waits' /\ Woken'
  BY <1>1, <1>2 DEF LoopInv, Typed, Apart, Waits, Woken, TakesAll
<1> QED
  BY <1>1, <1>3, <1>4 DEF LoopInv

LEMMA LoopCloseAgain == ASSUME Usable, LoopInv, NEW f \in Fds, close_again(f) PROVE LoopInv'
<1>1. /\ changes' = Append(changes, Change(f, Dirs, FALSE)) /\ in' = in /\ reg' = reg
      /\ idx' = idx /\ ready' = ready /\ pc' = pc /\ waiting' = waiting /\ stray' = stray
      /\ hup' = hup /\ fd' = [fd EXCEPT ![f] = "closed"] /\ fd[f] # "open"
  BY DEF close_again
<1>2. stray' = FALSE /\ ready' \in [Fds \X Dirs -> {0, 1}]
  BY <1>1 DEF LoopInv, Typed
<1>3. "r" \in Dirs
  BY DEF Dirs
<1>4. reg' = IF Backend = "epoll" THEN [reg EXCEPT ![f] = {}] ELSE reg
  BY <1>1 DEF LoopInv, Fits, InEpoll
<1>5. Backend = "epoll" => \A e \in Dirs : <<f, e>> \notin waiting'
  BY <1>1 DEF LoopInv, Apart
<1> QED
  BY <1>1, <1>2, <1>3, <1>4, <1>5, Closed

(* A signal only ends the loop. *)
LEMMA LoopInterrupted ==
  ASSUME Usable, LoopInv, Poll, ready' = ready, pc' = "interrupted"
  PROVE  LoopInv'
<1>1. /\ reg' = IF Backend = "poll" THEN poll_trim(reg) ELSE reg
      /\ changes' = changes /\ in' = in /\ idx' = idx /\ waiting' = waiting /\ fd' = fd
      /\ hup' = hup /\ stray' = stray
  BY DEF Poll, net
<1>2. in \in [Fds -> SUBSET Dirs] /\ Fits(in, reg, idx, fd)
  BY DEF LoopInv, Typed
<1>3. Fits(in, reg', idx, fd)
  <2>1. CASE Backend = "poll"
    BY <1>1, <1>2, <2>1, Trimmed DEF Usable, Fits
  <2> QED
    BY <1>1, <1>2, <2>1 DEF Fits
<1>4. Typed' /\ Apart' /\ Waits' /\ Woken'
  BY <1>1 DEF LoopInv, Typed, Apart, Waits, Woken
<1> QED
  BY <1>1, <1>3, <1>4 DEF LoopInv

(* Each step of the loop, the coroutines, and the peers keeps the invariant. *)
LEMMA LoopStep == ASSUME Usable, LoopInv, Next PROVE LoopInv'
<1>1. CASE StepDone
  <2>1. Typed' /\ Apart' /\ Waits' /\ Woken'
    BY <1>1 DEF StepDone, net, LoopInv, Typed, Apart, Waits, Woken
  <2> QED
    BY <1>1, <2>1 DEF StepDone, net, LoopInv
<1>2. CASE Poll
  BY <1>2, LoopPoll, LoopInterrupted DEF Poll
<1> QED
  BY <1>1, <1>2, LoopApply, LoopWakeup, LoopStart, LoopPeer, LoopReuse, LoopCloseAgain
     DEF Next, Loop

LEMMA LoopStutters == ASSUME LoopInv, UNCHANGED vars PROVE LoopInv'
<1>1. Typed' /\ Apart' /\ Waits' /\ Woken'
  BY DEF vars, poller, net, LoopInv, Typed, Apart, Waits, Woken
<1> QED
  BY <1>1 DEF vars, poller, net, LoopInv

-----------------------------------------------------------------------------

LEMMA LastOne ==
  ASSUME NEW S, S \subseteq Int, NEW k \in S, \A l \in S : l <= k
  PROVE  Max(S) = k
<1>1. \A x \in S : (\A y \in S : x >= y) <=> x = k
  OBVIOUS
<1>2. Max(S) \in S /\ \A y \in S : Max(S) >= y
  BY <1>1 DEF Max
<1> QED
  BY <1>1, <1>2

(* The kernel is asked for what has a handle. *)
LEMMA InterestIsIn ==
  ASSUME Usable, LoopInv, NEW f \in Fds, fd[f] = "open", NEW d \in in[f]
  PROVE  d \in Interest(reg, f)
<1>1. CASE Backend = "poll"
  <2>1. InPoll(in, reg, idx)
    BY <1>1 DEF LoopInv, Fits
  <2>2. idx[f] \in 1..Len(reg) /\ reg[idx[f]].events = in[f] /\ reg[idx[f]] \in Slots
        /\ DOMAIN reg = 1..Len(reg)
    BY <2>1 DEF InPoll
  <2>3. reg[idx[f]].fd = f
    BY <1>1, <2>2 DEF Slots, Usable
  <2>4. <<idx[f], in[f]>> \in Entries(reg, f)
    BY <1>1, <2>2, <2>3 DEF Entries
  <2> QED
    BY <2>4 DEF Interest
<1>2. CASE Backend # "poll"
  <2>1. <<1, in[f]>> \in Entries(reg, f)
    BY <1>2 DEF Usable, LoopInv, Fits, InEpoll, Entries
  <2> QED
    BY <2>1 DEF Interest
<1> QED
  BY <1>1, <1>2

(* What the run asks of the loop: a coroutine is resumed only by an event it
   waits for, and one that waits is never forgotten. *)
LEMMA LoopPromises ==
  ASSUME Usable, LoopInv
  PROVE  NoStrayResume /\ NoWaiterForgotten
<1>1. NoStrayResume
  BY DEF LoopInv, NoStrayResume
<1>2. ASSUME NEW t \in waiting, fd[t[1]] = "open"
      PROVE  \/ Pending(t[1], t[2]) # {} /\ changes[Max(Pending(t[1], t[2]))].h
             \/ Pending(t[1], t[2]) = {} /\ t[2] \in Interest(reg, t[1])
  <2>1. PICK f \in Fds, d \in Dirs : t = <<f, d>>
    BY DEF LoopInv, Typed, Tasks, Fds, Dirs
  <2>2. Asked(changes, in, f, d)
    BY <1>2, <2>1 DEF LoopInv, Waits
  <2>3. /\ DOMAIN changes = 1..Len(changes) /\ Len(changes) \in Nat
        /\ \A k \in 1..Len(changes) : changes[k].h \in BOOLEAN
    BY ChangeFacts DEF LoopInv, Typed
  <2> DEFINE P == Pending(f, d)
  <2>4. P \subseteq Int /\ \A k : k \in P <=> k \in 1..Len(changes) /\ Concerns(changes[k], f, d)
    BY <2>3 DEF Pending, Concerns
  <2> HIDE DEF P
  <2>5. ASSUME NEW k \in 1..Len(changes), Concerns(changes[k], f, d), changes[k].h = TRUE,
               \A l \in 1..Len(changes) : l > k => ~Concerns(changes[l], f, d)
        PROVE  P # {} /\ changes[Max(P)].h
    <3>1. k \in P /\ \A l \in P : l <= k
      BY <2>3, <2>4, <2>5
    <3>2. Max(P) = k
      BY <2>4, <3>1, LastOne
    <3> QED
      BY <2>5, <3>1, <3>2
  <2>6. d \in in[f] => d \in Interest(reg, f)
    BY <1>2, <2>1, InterestIsIn
  <2>7. \/ P # {} /\ changes[Max(P)].h
        \/ P = {} /\ d \in Interest(reg, f)
    BY <2>2, <2>4, <2>5, <2>6 DEF Asked
  <2> QED
    BY <2>1, <2>7 DEF P
<1>3. NoWaiterForgotten
  BY <1>2 DEF NoWaiterForgotten
<1> QED
  BY <1>1, <1>3

(* TLoop::Step over a poller, for any sockets, bounds and coroutines with which it
   is usable: a coroutine is resumed only by an event it waits for, whoever is
   suspended on an open socket is about to be resumed, or Poll() has asked, or
   will ask, the kernel for its event, and Poll() does not throw because a socket
   was closed. *)
THEOREM LoopKeepsWaiters ==
  ASSUME Usable
  PROVE  Spec => [](NoStrayResume /\ NoWaiterForgotten /\ PollSurvivesClose)
<1>1. Init => LoopInv
  BY LoopInit
<1>2. LoopInv /\ [Next]_vars => LoopInv'
  BY LoopStep, LoopStutters
<1>3. LoopInv => NoStrayResume /\ NoWaiterForgotten /\ PollSurvivesClose
  BY LoopPromises DEF LoopInv, Typed, PollSurvivesClose
<1> QED
  BY <1>1, <1>2, <1>3, PTL DEF Spec
=============================================================================
