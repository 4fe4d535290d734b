----------------------------- MODULE CoroioProofs -----------------------------
(***************************************************************************)
(* Theorems about Coroio: the TLS socket and the resolver, for every size  *)
(* of a buffer and of what OpenSSL makes and for any number of clients and *)
(* requests, and the four event loops, about which CoroioLoopProofs proves *)
(* what is common to them.  The parts share no state: each has an          *)
(* invariant of its own, which holds while that part is the one that runs. *)
(***************************************************************************)
EXTENDS Coroio, FiniteSetTheorems, TLAPS

-----------------------------------------------------------------------------
(* Bytes on their way.  Sent: those the server has got are the first ones, those
   taken for sending come next, and then those that OpenSSL's buffer holds. *)

Sent(got, taken, held, n) ==
  /\ got \in Seq(Nat) /\ taken \in Seq(Nat) /\ held \in Seq(Nat)
  /\ n = Len(got) + Len(taken) + Len(held)
  /\ \A k \in 1..Len(got) : got[k] = k
  /\ \A k \in 1..Len(taken) : taken[k] = Len(got) + k
  /\ \A k \in 1..Len(held) : held[k] = Len(got) + Len(taken) + k

LEMMA Concatenated ==
  ASSUME NEW S, NEW u \in Seq(S), NEW v \in Seq(S)
  PROVE  /\ u \o v \in Seq(S) /\ Len(u \o v) = Len(u) + Len(v)
         /\ \A j \in 1..Len(u) : (u \o v)[j] = u[j]
         /\ \A j \in 1..Len(v) : (u \o v)[Len(u) + j] = v[j]
OBVIOUS

(* What is made comes behind everything that was made before. *)
LEMMA SentMore ==
  ASSUME NEW got, NEW taken, NEW held, NEW n, Sent(got, taken, held, n), NEW more \in Nat
  PROVE  Sent(got, taken, held \o [k \in 1..more |-> n + k], n + more)
<1> DEFINE new == [k \in 1..more |-> n + k]
           all == held \o new
<1>1. got \in Seq(Nat) /\ taken \in Seq(Nat) /\ held \in Seq(Nat)
  BY DEF Sent
<1>2. Len(got) \in Nat /\ Len(taken) \in Nat /\ Len(held) \in Nat
  BY <1>1
<1>3. n = Len(got) + Len(taken) + Len(held) /\ n \in Nat
  BY <1>2 DEF Sent
<1>4. new \in Seq(Nat) /\ Len(new) = more /\ \A k \in 1..more : new[k] = n + k
  BY <1>3
<1> HIDE DEF new
<1>5. all \in Seq(Nat) /\ Len(all) = Len(held) + more
  <2>1. all \in Seq(Nat) /\ Len(all) = Len(held) + Len(new)
    BY ONLY <1>1, <1>4, Concatenated DEF all
  <2> QED
    BY ONLY <2>1, <1>4
<1>6. ASSUME NEW k \in 1..Len(all) PROVE all[k] = Len(got) + Len(taken) + k
  <2>1. CASE k <= Len(held)
    <3>1. k \in 1..Len(held) /\ all[k] = held[k]
      BY <2>1, <1>1, <1>2, <1>4
    <3> QED
      BY <3>1 DEF Sent
  <2>2. CASE k > Len(held)
    <3>1. k - Len(held) \in 1..more /\ k \in Nat
      BY <2>2, <1>2, <1>5
    <3>2. all[k] = new[k - Len(held)]
      BY <2>2, <1>1, <1>2, <1>4, <1>5
    <3>3. new[k - Len(held)] = n + (k - Len(held))
      BY <3>1, <1>4
    <3> QED
      BY <3>1, <3>2, <3>3, <1>2, <1>3
  <2> QED
    BY <2>1, <2>2, <1>2
<1> HIDE DEF all
<1>7. Sent(got, taken, all, n + more)
  <2>1. n + more = Len(got) + Len(taken) + Len(all)
    BY <1>2, <1>3, <1>5
  <2> QED
    BY <2>1, <1>1, <1>5, <1>6 DEF Sent
<1> QED
  BY <1>7 DEF all, new

(* BIO_read takes bytes from the front. *)
LEMMA SentTaken ==
  ASSUME NEW got, NEW held, NEW n, Sent(got, <<>>, held, n), NEW some \in 1..Len(held)
  PROVE  Sent(got, SubSeq(held, 1, some), SubSeq(held, some + 1, Len(held)), n)
<1> DEFINE front == SubSeq(held, 1, some)
           rest == SubSeq(held, some + 1, Len(held))
           empty == <<>>
<1>1. /\ got \in Seq(Nat) /\ held \in Seq(Nat) /\ n = Len(got) + Len(empty) + Len(held)
      /\ \A k \in 1..Len(got) : got[k] = k
      /\ \A k \in 1..Len(held) : held[k] = Len(got) + Len(empty) + k
  BY DEF Sent
<1>2. Len(got) \in Nat /\ Len(held) \in Nat /\ Len(empty) = 0 /\ some \in Nat
  BY <1>1
<1>3. /\ front \in Seq(Nat) /\ Len(front) = some
      /\ \A k \in 1..some : front[k] = held[k]
  BY <1>1, <1>2
<1>4. /\ rest \in Seq(Nat) /\ Len(rest) = Len(held) - some
      /\ \A k \in 1..(Len(held) - some) : rest[k] = held[some + k]
  BY <1>1, <1>2
<1> HIDE DEF front, rest, empty
<1>5. ASSUME NEW k \in 1..Len(front) PROVE front[k] = Len(got) + k
  <2>1. k \in 1..some /\ k \in 1..Len(held) /\ k \in Nat
    BY <1>2, <1>3
  <2>2. held[k] = Len(got) + 0 + k
    BY <2>1, <1>1, <1>2
  <2> QED
    BY <2>1, <2>2, <1>2, <1>3
<1>6. ASSUME NEW k \in 1..Len(rest) PROVE rest[k] = Len(got) + Len(front) + k
  <2>1. some + k \in 1..Len(held) /\ rest[k] = held[some + k] /\ k \in Nat
    BY <1>2, <1>4
  <2>2. held[some + k] = Len(got) + 0 + (some + k)
    BY <1>1, <1>2, <2>1
  <2> QED
    BY <2>1, <2>2, <1>2, <1>3
<1>7. n = Len(got) + Len(front) + Len(rest)
  BY <1>1, <1>2, <1>3, <1>4
<1>8. Sent(got, front, rest, n)
  BY <1>1, <1>3, <1>4, <1>5, <1>6, <1>7 DEF Sent
<1> QED
  BY <1>8 DEF front, rest

(* The socket takes any part of what is being sent. *)
LEMMA SentOn ==
  ASSUME NEW got, NEW taken, NEW held, NEW n, Sent(got, taken, held, n),
         NEW some \in 1..Len(taken)
  PROVE  Sent(got \o SubSeq(taken, 1, some), SubSeq(taken, some + 1, Len(taken)), held, n)
<1> DEFINE front == SubSeq(taken, 1, some)
           rest == SubSeq(taken, some + 1, Len(taken))
           all == got \o front
<1>1. /\ got \in Seq(Nat) /\ taken \in Seq(Nat) /\ held \in Seq(Nat)
      /\ n = Len(got) + Len(taken) + Len(held)
      /\ \A k \in 1..Len(got) : got[k] = k
      /\ \A k \in 1..Len(taken) : taken[k] = Len(got) + k
      /\ \A k \in 1..Len(held) : held[k] = Len(got) + Len(taken) + k
  BY DEF Sent
<1>2. Len(got) \in Nat /\ Len(taken) \in Nat /\ Len(held) \in Nat /\ some \in Nat
  BY <1>1
<1>3. /\ front \in Seq(Nat) /\ Len(front) = some
      /\ \A k \in 1..some : front[k] = taken[k]
  BY <1>1, <1>2
<1>4. /\ rest \in Seq(Nat) /\ Len(rest) = Len(taken) - some
      /\ \A k \in 1..(Len(taken) - some) : rest[k] = taken[some + k]
  BY <1>1, <1>2, SMTT(40)
<1> HIDE DEF front, rest
<1>5. all \in Seq(Nat) /\ Len(all) = Len(got) + some
  <2>1. all \in Seq(Nat) /\ Len(all) = Len(got) + Len(front)
    BY ONLY <1>1, <1>3, Concatenated DEF all
  <2> QED
    BY ONLY <2>1, <1>3
<1>6. ASSUME NEW k \in 1..Len(all) PROVE all[k] = k
  <2>1. CASE k <= Len(got)
    <3>1. k \in 1..Len(got) /\ all[k] = got[k]
      BY <2>1, <1>1, <1>2, <1>3
    <3> QED
      BY <3>1, <1>1
  <2>2. CASE k > Len(got)
    <3>1. k - Len(got) \in 1..some /\ k \in Nat /\ k - Len(got) \in 1..Len(taken)
      BY <2>2, <1>2, <1>5
    <3>2. all[k] = front[k - Len(got)]
      BY <2>2, <1>1, <1>2, <1>3, <1>5
    <3>3. front[k - Len(got)] = taken[k - Len(got)]
      BY <3>1, <1>3
    <3>4. taken[k - Len(got)] = Len(got) + (k - Len(got))
      BY <3>1, <1>1
    <3> QED
      BY <3>1, <3>2, <3>3, <3>4, <1>2
  <2> QED
    BY <2>1, <2>2, <1>2
<1> HIDE DEF all
<1>7. ASSUME NEW k \in 1..Len(rest) PROVE rest[k] = Len(all) + k
  <2>1. some + k \in 1..Len(taken) /\ rest[k] = taken[some + k] /\ k \in Nat
    BY <1>2, <1>4
  <2>2. taken[some + k] = Len(got) + (some + k)
    BY <1>1, <2>1
  <2> QED
    BY <2>1, <2>2, <1>2, <1>5
<1>8. Len(all) + Len(rest) = Len(got) + Len(taken)
  BY <1>2, <1>4, <1>5
<1>9. n = Len(all) + Len(rest) + Len(held)
  BY <1>1, <1>2, <1>8
<1>10. Sent(all, rest, held, n)
  BY <1>1, <1>4, <1>5, <1>6, <1>7, <1>8, <1>9 DEF Sent
<1> QED
  BY <1>10 DEF all, front, rest

-----------------------------------------------------------------------------
(* TSslSocket.  Its one coroutine: what it has taken is sent before it does
   anything else, and it waits for the server only with nothing left to send. *)

Places == {"SSL_do_handshake", "SSL_read", "SSL_write", "DoIO", "send", "recv", "idle", "failed"}
Callers == {"SSL_do_handshake", "SSL_read", "SSL_write", "idle"}

SslTyped ==
  /\ task \in [{Main} -> [pc : Places, ret : Callers, buf : Seq(Nat), left : Nat]]
  /\ made \in Nat /\ wire \in Seq(Nat) /\ wbio \in Seq(Nat)

SslInv ==
  /\ SslTyped
  /\ Sent(wire, task[Main].buf, wbio, made)
  /\ task[Main].pc \notin {"send", "failed"} => task[Main].buf = <<>>
  /\ task[Main].pc = "recv" => wbio = <<>>

LEMMA SslInit == Ssl!Init => SslInv
<1> SUFFICES ASSUME Ssl!Init PROVE SslInv
  OBVIOUS
<1>1. Ssl!Coroutines = {Main}
  BY DEF Ssl!Coroutines
<1>2. /\ task \in [{Main} -> [pc : Places, ret : Callers, buf : Seq(Nat), left : Nat]]
      /\ task[Main].pc = "SSL_do_handshake" /\ task[Main].buf = <<>>
  BY <1>1 DEF Ssl!Init, Places, Callers
<1>3. wire = <<>> /\ wbio = <<>> /\ made = 0
  BY DEF Ssl!Init
<1>4. Sent(<<>>, <<>>, <<>>, 0)
  BY DEF Sent
<1> QED
  BY <1>2, <1>3, <1>4 DEF SslInv, SslTyped

(* Main's record with another pc, and with another buffer, is as well formed. *)
LEMMA SslRecord ==
  ASSUME SslInv
  PROVE  /\ task[Main] \in [pc : Places, ret : Callers, buf : Seq(Nat), left : Nat]
         /\ \A t \in [pc : Places, ret : Callers, buf : Seq(Nat), left : Nat] :
              /\ [task EXCEPT ![Main] = t] \in
                   [{Main} -> [pc : Places, ret : Callers, buf : Seq(Nat), left : Nat]]
              /\ [task EXCEPT ![Main] = t][Main] = t
BY DEF SslInv, SslTyped

(* a call that makes bytes, and DoIO() next *)
LEMMA SslMakes ==
  ASSUME SslInv, NEW n \in Nat, Ssl!Emit(n), wire' = wire,
         NEW t \in [pc : Places, ret : Callers, buf : Seq(Nat), left : Nat],
         task' = [task EXCEPT ![Main] = t], t.buf = task[Main].buf, t.pc = "DoIO",
         task[Main].pc \notin {"send", "failed"}
  PROVE  SslInv'
<1>1. Sent(wire, task[Main].buf, wbio', made')
  BY SentMore DEF SslInv, Ssl!Emit
<1>2. task' \in [{Main} -> [pc : Places, ret : Callers, buf : Seq(Nat), left : Nat]]
      /\ task'[Main] = t
  BY DEF SslInv, SslTyped
<1>3. wbio' \in Seq(Nat) /\ made' \in Nat
  BY <1>1 DEF SslInv, SslTyped, Sent, Ssl!Emit
<1> QED
  BY <1>1, <1>2, <1>3 DEF SslInv, SslTyped

(* Only the place changes, to one where nothing is sent or waited for. *)
LEMMA SslGoto ==
  ASSUME SslInv, NEW p \in Places, NEW r \in Callers,
         task' = [task EXCEPT ![Main].pc = p, ![Main].ret = r],
         task[Main].buf = <<>>, p = "recv" => wbio = <<>>,
         wire' = wire, wbio' = wbio, made' = made
  PROVE  SslInv'
<1> DEFINE t == [task[Main] EXCEPT !.pc = p, !.ret = r]
<1>1. /\ t \in [pc : Places, ret : Callers, buf : Seq(Nat), left : Nat]
      /\ t.pc = p /\ t.buf = task[Main].buf
  BY SslRecord
<1>2. task' = [task EXCEPT ![Main] = t]
  BY DEF SslInv, SslTyped
<1> HIDE DEF t
<1>3. task' \in [{Main} -> [pc : Places, ret : Callers, buf : Seq(Nat), left : Nat]]
      /\ task'[Main] = t
  BY <1>1, <1>2, SslRecord
<1>4. SslTyped'
  BY <1>3 DEF SslInv, SslTyped
<1> QED
  BY <1>1, <1>3, <1>4 DEF SslInv

LEMMA SslGotoOnly ==
  ASSUME SslInv, NEW p \in Places, Ssl!Goto(Main, p), task[Main].buf = <<>>,
         p = "recv" => wbio = <<>>, wire' = wire, wbio' = wbio, made' = made
  PROVE  SslInv'
<1>1. task' = [task EXCEPT ![Main].pc = p, ![Main].ret = task[Main].ret]
  BY SslRecord DEF Ssl!Goto, SslInv, SslTyped
<1>2. task[Main].ret \in Callers
  BY SslRecord
<1> QED
  BY <1>1, <1>2, SslGoto

(* a call that makes bytes, and lets DoIO() send them *)
LEMMA SslEmits ==
  ASSUME SslInv, NEW n \in Nat, Ssl!Emit(n), NEW r \in Callers, Ssl!DoIOThen(Main, r),
         task[Main].pc \notin {"send", "failed"}, wire' = wire
  PROVE  SslInv'
<1> DEFINE t == [task[Main] EXCEPT !.pc = "DoIO", !.ret = r]
<1>1. /\ t \in [pc : Places, ret : Callers, buf : Seq(Nat), left : Nat]
      /\ t.pc = "DoIO" /\ t.buf = task[Main].buf
  BY SslRecord DEF Places
<1>2. task' = [task EXCEPT ![Main] = t]
  BY DEF SslInv, SslTyped, Ssl!DoIOThen
<1> HIDE DEF t
<1> QED
  BY <1>1, <1>2, SslMakes

LEMMA SslDoHandshake == ASSUME SslInv, Ssl!DoHandshake(Main) PROVE SslInv'
<1>1. task[Main].pc = "SSL_do_handshake" /\ task[Main].buf = <<>> /\ wire' = wire
  BY DEF Ssl!DoHandshake, SslInv, Ssl!kernel
<1>2. Hello \in Nat /\ Finished \in Nat
  BY CoroioAssumption
<1>3. CASE Ssl!Emit(Hello) /\ Ssl!DoIOThen(Main, "SSL_do_handshake")
  BY <1>1, <1>2, <1>3, SslEmits DEF Callers
<1>4. CASE Ssl!Emit(Finished) /\ Ssl!DoIOThen(Main, "idle")
  BY <1>1, <1>2, <1>4, SslEmits DEF Callers
<1>5. CASE Ssl!DoIOThen(Main, "SSL_do_handshake") /\ wbio' = wbio /\ made' = made
  BY <1>1, <1>5, SslGoto DEF Callers, Places, Ssl!DoIOThen
<1>6. CASE Ssl!Goto(Main, "failed") /\ wbio' = wbio /\ made' = made
  BY <1>1, <1>6, SslGotoOnly DEF Places
<1> QED
  BY <1>3, <1>4, <1>5, <1>6 DEF Ssl!DoHandshake, Ssl!ssl

LEMMA SslReadSome == ASSUME SslInv, Ssl!ReadSome(Main) PROVE SslInv'
<1>1. task[Main].pc = "SSL_read" /\ task[Main].buf = <<>> /\ wire' = wire
      /\ wbio' = wbio /\ made' = made
  BY DEF Ssl!ReadSome, SslInv, Ssl!kernel
<1>2. CASE Ssl!DoIOThen(Main, "SSL_read")
  BY <1>1, <1>2, SslGoto DEF Callers, Places, Ssl!DoIOThen
<1>3. CASE Ssl!Goto(Main, "idle")
  BY <1>1, <1>3, SslGotoOnly DEF Places
<1> QED
  BY <1>2, <1>3 DEF Ssl!ReadSome

LEMMA SslWriteSome == ASSUME SslInv, Ssl!WriteSome(Main) PROVE SslInv'
<1>1. task[Main].pc = "SSL_write" /\ task[Main].buf = <<>> /\ wire' = wire
  BY DEF Ssl!WriteSome, SslInv, Ssl!kernel
<1>2. CASE task[Main].left = 0
  <2>1. Ssl!Goto(Main, "idle") /\ wbio' = wbio /\ made' = made
    BY <1>2 DEF Ssl!WriteSome, Ssl!ssl
  <2> QED
    BY <1>1, <2>1, SslGotoOnly DEF Places
<1>3. CASE task[Main].left # 0
  <2> DEFINE t == [task[Main] EXCEPT !.left = @ - 1, !.pc = "DoIO", !.ret = "SSL_write"]
  <2>1. task[Main].left \in Nat /\ task[Main].left - 1 \in Nat
    BY <1>3, SslRecord
  <2>2. /\ t \in [pc : Places, ret : Callers, buf : Seq(Nat), left : Nat]
        /\ t.pc = "DoIO" /\ t.buf = task[Main].buf
    BY <2>1, SslRecord DEF Places, Callers
  <2>3. task' = [task EXCEPT ![Main] = t] /\ Ssl!Emit(Record)
    BY <1>3 DEF SslInv, SslTyped, Ssl!WriteSome
  <2>4. Record \in Nat
    BY CoroioAssumption
  <2> HIDE DEF t
  <2> QED
    BY <1>1, <2>2, <2>3, <2>4, SslMakes
<1> QED
  BY <1>2, <1>3

LEMMA SslDoIO == ASSUME SslInv, Ssl!DoIO(Main) PROVE SslInv'
<1>1. /\ task[Main].pc = "DoIO" /\ task[Main].buf = <<>> /\ wire' = wire /\ made' = made
      /\ wbio \in Seq(Nat)
  BY DEF Ssl!DoIO, SslInv, SslTyped, Ssl!kernel
<1>2. CASE ~Ssl!Flushed
  <2> DEFINE n == Ssl!Min({BufSize, Len(wbio)})
             t == [task[Main] EXCEPT !.pc = "send", !.buf = SubSeq(wbio, 1, n)]
  <2>1. Len(wbio) \in Nat \ {0} /\ BufSize \in Nat \ {0}
    BY <1>1, <1>2, CoroioAssumption DEF Ssl!Flushed
  <2>2. n \in 1..Len(wbio)
    <3>1. \E x \in {BufSize, Len(wbio)} : \A y \in {BufSize, Len(wbio)} : x <= y
      BY <2>1
    <3>2. n \in {BufSize, Len(wbio)} /\ \A y \in {BufSize, Len(wbio)} : n <= y
      BY <3>1 DEF Ssl!Min
    <3> QED
      BY <2>1, <3>2
  <2>3. /\ task' = [task EXCEPT ![Main].pc = "send", ![Main].buf = SubSeq(wbio, 1, n)]
        /\ wbio' = SubSeq(wbio, n + 1, Len(wbio))
    BY <1>2 DEF Ssl!DoIO
  <2> HIDE DEF n
  <2>4. Sent(wire, <<>>, wbio, made)
    BY <1>1 DEF SslInv
  <2>5. Sent(wire, SubSeq(wbio, 1, n), wbio', made)
    BY <2>2, <2>3, <2>4, SentTaken
  <2>6. SubSeq(wbio, 1, n) \in Seq(Nat) /\ wbio' \in Seq(Nat)
    BY <2>5 DEF Sent
  <2>7. /\ t \in [pc : Places, ret : Callers, buf : Seq(Nat), left : Nat]
        /\ t.pc = "send" /\ t.buf = SubSeq(wbio, 1, n)
    BY <2>6, SslRecord DEF Places
  <2>8. task' = [task EXCEPT ![Main] = t]
    BY <2>3 DEF SslInv, SslTyped
  <2> HIDE DEF t
  <2>9. task' \in [{Main} -> [pc : Places, ret : Callers, buf : Seq(Nat), left : Nat]]
        /\ task'[Main] = t
    BY <2>7, <2>8, SslRecord
  <2> QED
    BY <1>1, <2>5, <2>6, <2>7, <2>9 DEF SslInv, SslTyped
<1>3. CASE Ssl!Flushed /\ Ssl!WantRead /\ Ssl!Goto(Main, "recv") /\ wbio' = wbio
  BY <1>1, <1>3, SslGotoOnly DEF Places, Ssl!Flushed
<1>4. CASE Ssl!Flushed /\ Ssl!Goto(Main, task[Main].ret) /\ wbio' = wbio
  <2>1. task[Main].ret \in Places /\ task[Main].ret # "recv"
    BY SslRecord DEF Places, Callers
  <2> QED
    BY <1>1, <1>4, <2>1, SslGotoOnly
<1> QED
  BY <1>2, <1>3, <1>4 DEF Ssl!DoIO

LEMMA SslWrite == ASSUME SslInv, Ssl!Write(Main) PROVE SslInv'
<1>1. task[Main].pc = "send" /\ wbio' = wbio /\ made' = made
  BY DEF Ssl!Write, Ssl!ssl
<1>2. CASE task[Main].buf = <<>> /\ Ssl!Goto(Main, "DoIO") /\ wire' = wire
  BY <1>1, <1>2, SslGotoOnly DEF Places
<1>3. ASSUME NEW n \in DOMAIN task[Main].buf,
             wire' = wire \o SubSeq(task[Main].buf, 1, n),
             task' = [task EXCEPT ![Main].buf = Ssl!Rest(task[Main].buf, n)]
      PROVE  SslInv'
  <2> DEFINE b == task[Main].buf
             rest == SubSeq(b, n + 1, Len(b))
             t == [task[Main] EXCEPT !.buf = rest]
  <2>1. b \in Seq(Nat) /\ n \in 1..Len(b)
    BY <1>3, SslRecord
  <2>2. Sent(wire', rest, wbio, made)
    <3>1. Sent(wire, b, wbio, made)
      BY DEF SslInv
    <3> QED
      BY <3>1, <2>1, <1>3, SentOn
  <2>3. wire' \in Seq(Nat) /\ rest \in Seq(Nat)
    BY <2>2 DEF Sent
  <2>4. /\ t \in [pc : Places, ret : Callers, buf : Seq(Nat), left : Nat]
        /\ t.pc = "send" /\ t.buf = rest
    BY <2>3, <1>1, SslRecord
  <2>5. task' = [task EXCEPT ![Main] = t]
    BY <1>3 DEF SslInv, SslTyped, Ssl!Rest
  <2> HIDE DEF t
  <2>6. task' \in [{Main} -> [pc : Places, ret : Callers, buf : Seq(Nat), left : Nat]]
        /\ task'[Main] = t
    BY <2>4, <2>5, SslRecord
  <2> QED
    BY <1>1, <2>2, <2>3, <2>4, <2>6 DEF SslInv, SslTyped
<1>4. CASE wire' = wire /\ task' = task
  BY <1>1, <1>4 DEF SslInv, SslTyped
<1> QED
  BY <1>2, <1>3, <1>4 DEF Ssl!Write

LEMMA SslRead == ASSUME SslInv, Ssl!Read(Main) PROVE SslInv'
<1>1. /\ task[Main].pc = "recv" /\ task[Main].buf = <<>> /\ wire' = wire /\ wbio' = wbio
      /\ made' = made
  BY DEF Ssl!Read, SslInv
<1>2. CASE Ssl!Goto(Main, task[Main].ret)
  <2>1. task[Main].ret \in Places /\ task[Main].ret # "recv"
    BY SslRecord DEF Places, Callers
  <2> QED
    BY <1>1, <1>2, <2>1, SslGotoOnly
<1>3. CASE task' = task
  BY <1>1, <1>3 DEF SslInv, SslTyped
<1> QED
  BY <1>2, <1>3 DEF Ssl!Read

LEMMA SslStart == ASSUME SslInv, Ssl!Start(Main) PROVE SslInv'
<1>1. /\ task[Main].pc = "idle" /\ task[Main].buf = <<>> /\ wire' = wire /\ wbio' = wbio
      /\ made' = made
  BY DEF Ssl!Start, SslInv, Ssl!ssl, Ssl!kernel
<1>2. CASE task' = [task EXCEPT ![Main].pc = "SSL_read", ![Main].ret = "SSL_read"]
  BY <1>1, <1>2, SslGoto DEF Places, Callers
<1>3. ASSUME NEW n \in 1..2,
             task' = [task EXCEPT ![Main].pc = "SSL_write", ![Main].ret = "SSL_write",
                                  ![Main].left = n]
      PROVE  SslInv'
  <2> DEFINE t == [task[Main] EXCEPT !.pc = "SSL_write", !.ret = "SSL_write", !.left = n]
  <2>1. /\ t \in [pc : Places, ret : Callers, buf : Seq(Nat), left : Nat]
        /\ t.pc = "SSL_write" /\ t.buf = task[Main].buf
    <3>1. n \in Nat
      OBVIOUS
    <3>2. /\ task[Main] \in [pc : Places, ret : Callers, buf : Seq(Nat), left : Nat]
          /\ "SSL_write" \in Places /\ "SSL_write" \in Callers
      BY SslRecord DEF Places, Callers
    <3> QED
      BY ONLY <3>1, <3>2
  <2>2. task' = [task EXCEPT ![Main] = t]
    <3>1. task \in [{Main} -> [pc : Places, ret : Callers, buf : Seq(Nat), left : Nat]]
      BY DEF SslInv, SslTyped
    <3> QED
      BY ONLY <3>1, <1>3
  <2> HIDE DEF t
  <2>3. task' \in [{Main} -> [pc : Places, ret : Callers, buf : Seq(Nat), left : Nat]]
        /\ task'[Main] = t
    BY <2>1, <2>2, SslRecord
  <2> QED
    BY <1>1, <2>1, <2>3 DEF SslInv, SslTyped
<1> QED
  BY <1>2, <1>3 DEF Ssl!Start

LEMMA SslFail == ASSUME SslInv, Ssl!Fail(Main) PROVE SslInv'
<1> DEFINE t == [task[Main] EXCEPT !.pc = "failed"]
<1>1. /\ t \in [pc : Places, ret : Callers, buf : Seq(Nat), left : Nat]
      /\ t.pc = "failed" /\ t.buf = task[Main].buf
  BY SslRecord DEF Places
<1>2. task' = [task EXCEPT ![Main] = t] /\ wire' = wire /\ wbio' = wbio /\ made' = made
  BY DEF Ssl!Fail, Ssl!Goto, Ssl!ssl, Ssl!kernel, SslInv, SslTyped
<1> HIDE DEF t
<1>3. task' \in [{Main} -> [pc : Places, ret : Callers, buf : Seq(Nat), left : Nat]]
      /\ task'[Main] = t
  BY <1>1, <1>2, SslRecord
<1> QED
  BY <1>1, <1>2, <1>3 DEF SslInv, SslTyped

LEMMA SslStep == ASSUME SslInv, Ssl!Next PROVE SslInv'
<1>1. Ssl!Coroutines = {Main}
  BY DEF Ssl!Coroutines
<1>2. CASE Ssl!Wake \/ Ssl!Server \/ Ssl!Drain
  <2>1. wire' = wire /\ wbio' = wbio /\ made' = made /\ task' = task
    BY <1>2 DEF Ssl!Wake, Ssl!Server, Ssl!Drain, Ssl!ssl, Ssl!kernel
  <2> QED
    BY <2>1 DEF SslInv, SslTyped
<1>3. CASE Ssl!Step(Main)
  BY <1>3, SslDoHandshake, SslReadSome, SslWriteSome, SslDoIO, SslWrite, SslRead DEF Ssl!Step
<1>4. CASE Ssl!Start(Main)
  BY <1>4, SslStart
<1>5. CASE Ssl!Fail(Main)
  BY <1>5, SslFail
<1> QED
  BY <1>1, <1>2, <1>3, <1>4, <1>5 DEF Ssl!Next

(* What the run asks of the TLS socket. *)
LEMMA SslPromises ==
  ASSUME SslInv
  PROVE  Ssl!WireInOrder /\ Ssl!FlushedBeforeWait
<1>1. Ssl!WireInOrder
  BY DEF SslInv, Sent, Ssl!WireInOrder
<1>2. ASSUME task[Main].pc = "recv" PROVE Len(wire) = made
  <2>1. task[Main].buf = <<>> /\ wbio = <<>>
    BY <1>2 DEF SslInv
  <2>2. Sent(wire, <<>>, <<>>, made)
    BY <2>1 DEF SslInv
  <2>3. made = Len(wire) + Len(<<>>) + Len(<<>>) /\ Len(wire) \in Nat /\ Len(<<>>) = 0
    BY <2>2 DEF Sent
  <2> QED
    BY ONLY <2>3
<1> QED
  BY <1>1, <1>2 DEF Ssl!FlushedBeforeWait, Ssl!Waits, Ssl!Coroutines

-----------------------------------------------------------------------------
(* TResolver's tables.  Lists: a client waits in one place of the list of what it
   asks for, or is to be resumed once; Idle: it is in none of them. *)

Apart(s) == \A k, l \in 1..Len(s) : s[k] = s[l] => k = l

Lists(w, a, z) ==
  /\ w \in [Requests -> Seq(Clients)] /\ z \in Seq(Clients)
  /\ a \in [Clients -> Requests \cup {"none"}]
  /\ \A r \in Requests : Apart(w[r]) /\ \A k \in 1..Len(w[r]) : a[w[r][k]] = r
  /\ Apart(z)
  /\ \A k \in 1..Len(z) :
       a[z[k]] \in Requests /\ \A r \in Requests : \A l \in 1..Len(w[r]) : w[r][l] # z[k]

Idle(c, w, z) ==
  /\ c \in Clients
  /\ \A r \in Requests : \A l \in 1..Len(w[r]) : w[r][l] # c
  /\ \A k \in 1..Len(z) : z[k] # c

(* the results that those find who are to be resumed *)
Answered(a, z, res) ==
  \A k \in 1..Len(z) : res[a[z[k]]] \in {a[z[k]], "exception"}

(* Xid goes through the odd numbers and then, XidMod being odd, through the even
   ones: At says that x is the k-th, from 0 on.  Numbered: n were used so far, and
   there is one for each request in the queue. *)
At(x, k) == 2 * k = x - 1 \/ 2 * k = x - 1 + XidMod

Free(flying) == {x \in 1..XidMod : flying[x] = "none"}

Numbered(flying, next, n) ==
  /\ n \in 0..XidMod /\ Cardinality(Free(flying)) = XidMod - n
  /\ \A x \in 1..XidMod : \A k \in 0..(XidMod - 1) :
       At(x, k) => (flying[x] # "none" <=> k < n)
  /\ n < XidMod => At(next, n)

Entries == [req : Requests, due : BOOLEAN]

ResTyped ==
  /\ queue \in Seq(Requests)
  /\ timeouts \in Seq(Entries) /\ left \in 0..Len(timeouts)
  /\ results \in [Requests -> Requests \cup {"none", "exception"}]
  /\ inflight \in [1..XidMod -> Requests \cup {"none"}] /\ xid \in 1..XidMod
  /\ sender \in {"asleep", "running", "writing", "dead"} /\ suspended \in BOOLEAN
  /\ queries \subseteq [xid : 1..XidMod, req : Requests]

Queries ==
  /\ \A q \in queries : inflight[q.xid] = q.req
  /\ \E n \in 0..XidMod : Numbered(inflight, xid, n)
  /\ Len(queue) <= Cardinality(Free(inflight))

ResInv ==
  /\ ResTyped
  /\ Lists(waitingAddrs, asks, resuming)
  /\ Answered(asks, resuming, results)
  /\ Queries
  /\ Resolver!SenderInStep

(* The instance has its own copy of the operators of FiniteSets. *)
LEMMA SameCardinality ==
  ASSUME NEW S
  PROVE  Resolver!Cardinality(S) = Cardinality(S)
BY DEF Cardinality, Resolver!Cardinality

LEMMA Appended ==
  ASSUME NEW S, NEW u \in Seq(S), NEW e \in S
  PROVE  /\ Append(u, e) \in Seq(S) /\ Len(Append(u, e)) = Len(u) + 1
         /\ \A j \in 1..Len(u) : Append(u, e)[j] = u[j]
         /\ Append(u, e)[Len(u) + 1] = e
OBVIOUS

LEMMA Tailed ==
  ASSUME NEW S, NEW u \in Seq(S), u # <<>>
  PROVE  /\ Tail(u) \in Seq(S) /\ Len(Tail(u)) = Len(u) - 1 /\ Len(u) >= 1
         /\ \A j \in 1..Len(Tail(u)) : Tail(u)[j] = u[j + 1] /\ j + 1 \in 1..Len(u)
         /\ Head(u) \in S /\ Head(u) = u[1]
OBVIOUS

LEMMA ApartAppended ==
  ASSUME NEW S, NEW u \in Seq(S), NEW e \in S, Apart(u), \A k \in 1..Len(u) : u[k] # e
  PROVE  Apart(Append(u, e))
<1> SUFFICES ASSUME NEW k \in 1..(Len(u) + 1), NEW l \in 1..(Len(u) + 1),
                    Append(u, e)[k] = Append(u, e)[l]
             PROVE  k = l
  BY Appended DEF Apart
<1>1. k \in 1..Len(u) \/ k = Len(u) + 1
  OBVIOUS
<1>2. l \in 1..Len(u) \/ l = Len(u) + 1
  OBVIOUS
<1> QED
  BY <1>1, <1>2, Appended DEF Apart

LEMMA ApartTailed ==
  ASSUME NEW S, NEW u \in Seq(S), u # <<>>, Apart(u)
  PROVE  /\ Apart(Tail(u))
         /\ \A k \in 1..Len(Tail(u)) : Tail(u)[k] # Head(u)
<1>1. ASSUME NEW k \in 1..Len(Tail(u)), NEW l \in 1..Len(Tail(u)), Tail(u)[k] = Tail(u)[l]
      PROVE  k = l
  <2>1. k + 1 = l + 1
    BY <1>1, Tailed DEF Apart
  <2> QED
    BY <2>1
<1>2. ASSUME NEW k \in 1..Len(Tail(u)), Tail(u)[k] = Head(u) PROVE FALSE
  <2>1. u[k + 1] = u[1] /\ k + 1 \in 1..Len(u) /\ 1 \in 1..Len(u)
    BY <1>2, Tailed
  <2>2. k + 1 = 1
    BY <2>1 DEF Apart
  <2> QED
    BY <2>2
<1> QED
  BY <1>1, <1>2 DEF Apart

(* Resolve(): a client that is in no list comes into one. *)
LEMMA ListsAsk ==
  ASSUME NEW w, NEW a, NEW z, Lists(w, a, z), NEW c, Idle(c, w, z), NEW r \in Requests
  PROVE  Lists([w EXCEPT ![r] = Append(@, c)], [a EXCEPT ![c] = r], z)
<1> DEFINE w1 == [w EXCEPT ![r] = Append(@, c)]
           a1 == [a EXCEPT ![c] = r]
<1>1. /\ w \in [Requests -> Seq(Clients)] /\ z \in Seq(Clients)
      /\ a \in [Clients -> Requests \cup {"none"}] /\ c \in Clients
  BY DEF Lists, Idle
<1>2. /\ Append(w[r], c) \in Seq(Clients) /\ Len(Append(w[r], c)) = Len(w[r]) + 1
      /\ \A j \in 1..Len(w[r]) : Append(w[r], c)[j] = w[r][j]
      /\ Append(w[r], c)[Len(w[r]) + 1] = c /\ w[r] \in Seq(Clients)
  BY <1>1, Appended
<1>3. Apart(Append(w[r], c))
  <2>1. Apart(w[r]) /\ \A k \in 1..Len(w[r]) : w[r][k] # c
    BY DEF Lists, Idle
  <2> QED
    BY <1>1, <1>2, <2>1, ApartAppended
<1>4. /\ w1 \in [Requests -> Seq(Clients)] /\ w1[r] = Append(w[r], c)
      /\ \A q \in Requests \ {r} : w1[q] = w[q]
  BY <1>1, <1>2
<1>5. /\ a1 \in [Clients -> Requests \cup {"none"}] /\ a1[c] = r
      /\ \A d \in Clients \ {c} : a1[d] = a[d]
  BY <1>1
<1> HIDE DEF w1, a1
<1>6. ASSUME NEW q \in Requests, q # r
      PROVE  Apart(w1[q]) /\ \A k \in 1..Len(w1[q]) : a1[w1[q][k]] = q
  <2>1. w1[q] = w[q] /\ w[q] \in Seq(Clients) /\ Apart(w[q])
    BY <1>1, <1>4, <1>6 DEF Lists
  <2>2. ASSUME NEW k \in 1..Len(w[q]) PROVE a1[w[q][k]] = q
    <3>1. w[q][k] \in Clients /\ w[q][k] # c /\ a[w[q][k]] = q
      BY <2>1 DEF Lists, Idle
    <3> QED
      BY <3>1, <1>5
  <2> QED
    BY <2>1, <2>2
<1>7. ASSUME NEW k \in 1..Len(w1[r]) PROVE a1[w1[r][k]] = r
  <2>1. CASE k \in 1..Len(w[r])
    <3>1. w[r][k] \in Clients /\ w[r][k] # c /\ a[w[r][k]] = r /\ w1[r][k] = w[r][k]
      BY <2>1, <1>2, <1>4 DEF Lists, Idle
    <3> QED
      BY <3>1, <1>5
  <2>2. CASE k = Len(w[r]) + 1
    BY <2>2, <1>2, <1>4, <1>5
  <2>3. Len(w[r]) \in Nat
    BY <1>2
  <2> QED
    BY <1>2, <1>4, <2>1, <2>2, <2>3
<1>8. ASSUME NEW k \in 1..Len(z) PROVE a1[z[k]] \in Requests
  <2>1. z[k] \in Clients /\ z[k] # c /\ a[z[k]] \in Requests
    BY <1>1 DEF Lists, Idle
  <2> QED
    BY <2>1, <1>5
<1>9. ASSUME NEW k \in 1..Len(z), NEW q \in Requests, NEW l \in 1..Len(w1[q])
      PROVE  w1[q][l] # z[k]
  <2>1. z[k] # c /\ \A j \in 1..Len(w[q]) : w[q][j] # z[k]
    BY DEF Lists, Idle
  <2>2. CASE q = r
    <3>1. l \in 1..Len(w[r]) \/ l = Len(w[r]) + 1
      <4>1. Len(w[r]) \in Nat
        BY <1>2
      <4> QED
        BY <4>1, <1>2, <1>4, <2>2
    <3> QED
      BY <3>1, <2>1, <2>2, <1>2, <1>4
  <2>3. CASE q # r
    BY <2>1, <2>3, <1>4
  <2> QED
    BY <2>2, <2>3
<1>10. Apart(z)
  BY DEF Lists
<1>11. Lists(w1, a1, z)
  BY <1>1, <1>3, <1>4, <1>5, <1>6, <1>7, <1>8, <1>9, <1>10 DEF Lists
<1> QED
  BY <1>11 DEF w1, a1

(* The next one is resumed: it is in no list any more. *)
LEMMA ListsResume ==
  ASSUME NEW w, NEW a, NEW z, Lists(w, a, z), z # <<>>
  PROVE  Lists(w, a, Tail(z)) /\ Idle(Head(z), w, Tail(z))
<1>1. z \in Seq(Clients) /\ Apart(z)
  BY DEF Lists
<1>2. /\ Tail(z) \in Seq(Clients) /\ Head(z) \in Clients /\ Head(z) = z[1] /\ 1 \in 1..Len(z)
      /\ \A j \in 1..Len(Tail(z)) : Tail(z)[j] = z[j + 1] /\ j + 1 \in 1..Len(z)
  BY <1>1, Tailed
<1>3. Apart(Tail(z)) /\ \A k \in 1..Len(Tail(z)) : Tail(z)[k] # Head(z)
  BY <1>1, ApartTailed
<1>4. ASSUME NEW k \in 1..Len(Tail(z))
      PROVE  a[Tail(z)[k]] \in Requests
             /\ \A r \in Requests : \A l \in 1..Len(w[r]) : w[r][l] # Tail(z)[k]
  BY <1>2 DEF Lists
<1>5. \A r \in Requests : \A l \in 1..Len(w[r]) : w[r][l] # Head(z)
  BY <1>2 DEF Lists
<1> QED
  BY <1>2, <1>3, <1>4, <1>5 DEF Lists, Idle

(* One that is in no list stops asking. *)
LEMMA ListsReturn ==
  ASSUME NEW w, NEW a, NEW z, Lists(w, a, z), NEW c, Idle(c, w, z)
  PROVE  Lists(w, [a EXCEPT ![c] = "none"], z)
<1> DEFINE a1 == [a EXCEPT ![c] = "none"]
<1>1. /\ w \in [Requests -> Seq(Clients)] /\ z \in Seq(Clients)
      /\ a \in [Clients -> Requests \cup {"none"}] /\ c \in Clients
  BY DEF Lists, Idle
<1>2. /\ a1 \in [Clients -> Requests \cup {"none"}]
      /\ \A d \in Clients \ {c} : a1[d] = a[d]
  BY <1>1
<1> HIDE DEF a1
<1>3. ASSUME NEW r \in Requests, NEW k \in 1..Len(w[r]) PROVE a1[w[r][k]] = r
  <2>1. w[r] \in Seq(Clients) /\ w[r][k] # c /\ a[w[r][k]] = r
    BY <1>1 DEF Lists, Idle
  <2>2. w[r][k] \in Clients
    BY <2>1
  <2> QED
    BY <2>1, <2>2, <1>2
<1>4. ASSUME NEW k \in 1..Len(z) PROVE a1[z[k]] \in Requests
  <2>1. z[k] \in Clients /\ z[k] # c /\ a[z[k]] \in Requests
    BY <1>1 DEF Lists, Idle
  <2> QED
    BY <2>1, <1>2
<1>5. Lists(w, a1, z)
  BY <1>1, <1>2, <1>3, <1>4 DEF Lists
<1> QED
  BY <1>5 DEF a1

(* ResumeWaiters(): a whole list is to be resumed. *)
LEMMA ListsWake ==
  ASSUME NEW w, NEW a, Lists(w, a, <<>>), NEW r \in Requests
  PROVE  Lists([w EXCEPT ![r] = <<>>], a, w[r])
<1> DEFINE w1 == [w EXCEPT ![r] = <<>>]
<1>1. w \in [Requests -> Seq(Clients)] /\ a \in [Clients -> Requests \cup {"none"}]
  BY DEF Lists
<1>2. /\ w1 \in [Requests -> Seq(Clients)] /\ w1[r] = <<>> /\ Len(w1[r]) = 0
      /\ \A q \in Requests \ {r} : w1[q] = w[q]
  BY <1>1
<1> HIDE DEF w1
<1>3. ASSUME NEW q \in Requests
      PROVE  Apart(w1[q]) /\ \A k \in 1..Len(w1[q]) : a[w1[q][k]] = q
  <2>1. CASE q = r
    BY <2>1, <1>2 DEF Apart
  <2>2. CASE q # r
    BY <2>2, <1>2 DEF Lists
  <2> QED
    BY <2>1, <2>2
<1>4. ASSUME NEW k \in 1..Len(w[r]), NEW q \in Requests, NEW l \in 1..Len(w1[q])
      PROVE  w1[q][l] # w[r][k]
  <2>1. q # r
    BY <1>2
  <2>2. w1[q] = w[q] /\ a[w[q][l]] = q /\ a[w[r][k]] = r
    BY <2>1, <1>2 DEF Lists
  <2> QED
    BY <2>1, <2>2
<1>5. w[r] \in Seq(Clients) /\ Apart(w[r]) /\ \A k \in 1..Len(w[r]) : a[w[r][k]] = r
  BY <1>1 DEF Lists
<1>6. Lists(w1, a, w[r])
  BY <1>1, <1>2, <1>3, <1>4, <1>5 DEF Lists
<1> QED
  BY <1>6 DEF w1

-----------------------------------------------------------------------------
(* The number that Xid goes to is not in use while one is free. *)

LEMMA Modulus ==
  /\ XidMod \in Nat /\ XidMod > 1
  /\ \E h \in Nat : XidMod = 2 * h + 1
<1>1. XidMod \in Nat /\ XidMod > 1 /\ XidMod % 2 = 1
  BY CoroioAssumption
<1>2. XidMod \div 2 \in Nat /\ XidMod = 2 * (XidMod \div 2) + 1
  BY ONLY <1>1, Z3
<1> QED
  BY <1>1, <1>2

LEMMA AtOnce ==
  ASSUME NEW x \in 1..XidMod, NEW y \in 1..XidMod,
         NEW k \in 0..(XidMod - 1), NEW l \in 0..(XidMod - 1), At(x, k), At(y, l)
  PROVE  x = y <=> k = l
<1>1. PICK h \in Nat : XidMod = 2 * h + 1
  BY Modulus
<1>2. XidMod \in Nat
  BY Modulus
<1>3. 2 * k - 2 * l # XidMod /\ 2 * l - 2 * k # XidMod
  BY <1>1
<1> QED
  BY <1>2, <1>3 DEF At

LEMMA NextAt ==
  ASSUME NEW x \in 1..XidMod, NEW k \in 0..(XidMod - 1), At(x, k)
  PROVE  /\ Resolver!NextXid(x) \in 1..XidMod
         /\ k + 1 < XidMod => At(Resolver!NextXid(x), k + 1)
<1> DEFINE y == (x + 1) % XidMod
<1>1. XidMod \in Nat /\ XidMod > 1 /\ \E h \in Nat : XidMod = 2 * h + 1
  BY Modulus
<1>2. x + 1 < XidMod => y = x + 1
  BY <1>1, Z3
<1>3. x + 1 = XidMod => y = 0
  BY <1>1, Z3
<1>4. x = XidMod => y = 1
  BY <1>1, Z3
<1>5. Resolver!NextXid(x) = 1 + y
  BY DEF Resolver!NextXid
<1> HIDE DEF y
<1>6. PICK h \in Nat : XidMod = 2 * h + 1
  BY <1>1
<1>7. y \in 0..(XidMod - 1)
  BY <1>1, <1>2, <1>3, <1>4
<1>8. ASSUME k + 1 < XidMod PROVE At(1 + y, k + 1)
  <2>1. CASE x + 1 < XidMod
    BY <2>1, <1>1, <1>2 DEF At
  <2>2. CASE x + 1 = XidMod
    BY <2>2, <1>1, <1>6, <1>8 DEF At
  <2>3. CASE x = XidMod
    BY <2>3, <1>1, <1>4, <1>6 DEF At
  <2> QED
    BY <2>1, <2>2, <2>3, <1>1
<1> QED
  BY <1>1, <1>5, <1>7, <1>8

LEMMA NextNumber ==
  ASSUME NEW f \in [1..XidMod -> Requests \cup {"none"}], NEW x \in 1..XidMod, NEW n,
         Numbered(f, x, n), n < XidMod, NEW r \in Requests
  PROVE  /\ f[x] = "none"
         /\ Numbered([f EXCEPT ![x] = r], Resolver!NextXid(x), n + 1)
<1> DEFINE g == [f EXCEPT ![x] = r]
<1>1. n \in 0..(XidMod - 1) /\ At(x, n) /\ XidMod \in Nat
  BY Modulus DEF Numbered
<1>2. f[x] = "none"
  BY <1>1 DEF Numbered
<1>3. r # "none"
  BY CoroioAssumption
<1>4. g[x] = r /\ \A y \in (1..XidMod) \ {x} : g[y] = f[y]
  OBVIOUS
<1> HIDE DEF g
<1>5. ASSUME NEW y \in 1..XidMod, NEW k \in 0..(XidMod - 1), At(y, k)
      PROVE  g[y] # "none" <=> k < n + 1
  <2>1. y = x <=> k = n
    BY <1>1, <1>5, AtOnce
  <2>2. f[y] # "none" <=> k < n
    BY <1>5 DEF Numbered
  <2>3. CASE y = x
    BY <2>1, <2>3, <1>1, <1>3, <1>4
  <2>4. CASE y # x
    <3>1. g[y] = f[y] /\ k # n
      BY <2>1, <2>4, <1>4
    <3> QED
      BY <3>1, <2>2, <1>1
  <2> QED
    BY <2>3, <2>4
<1>6. Cardinality(Free(g)) = XidMod - (n + 1)
  <2>1. Free(g) = Free(f) \ {x}
    BY <1>3, <1>4 DEF Free
  <2>2. IsFiniteSet(Free(f))
    <3>1. IsFiniteSet(1..XidMod)
      BY <1>1, FS_Interval
    <3>2. Free(f) \in SUBSET (1..XidMod)
      BY DEF Free
    <3> QED
      BY <3>1, <3>2, FS_Subset
  <2>3. x \in Free(f)
    BY <1>2 DEF Free
  <2>4. Cardinality(Free(g)) = Cardinality(Free(f)) - 1
    BY <2>1, <2>2, <2>3, FS_RemoveElement
  <2>5. Cardinality(Free(f)) = XidMod - n
    BY DEF Numbered
  <2> QED
    BY <2>4, <2>5, <1>1
<1>7. n + 1 < XidMod => At(Resolver!NextXid(x), n + 1)
  BY <1>1, NextAt
<1>8. n + 1 \in 0..XidMod
  BY <1>1
<1>9. Numbered(g, Resolver!NextXid(x), n + 1)
  BY <1>5, <1>6, <1>7, <1>8 DEF Numbered
<1> QED
  BY <1>2, <1>9 DEF g

-----------------------------------------------------------------------------
(* The steps of TResolver. *)

LEMMA ResInit == Resolver!Init => ResInv
<1> SUFFICES ASSUME Resolver!Init PROVE ResInv
  OBVIOUS
<1>1. /\ queue = <<>> /\ timeouts = <<>> /\ waitingAddrs = [r \in Requests |-> <<>>]
      /\ results = [r \in Requests |-> "none"] /\ inflight = [x \in 1..XidMod |-> "none"]
      /\ xid = 1 /\ sender \in {"asleep", "dead"} /\ suspended = (sender = "asleep")
      /\ resuming = <<>>
      /\ asks = [c \in Clients |-> "none"] /\ queries = {}
  BY DEF Resolver!Init, Resolver!None, Resolver!Xids
<1>2. XidMod \in Nat /\ 1 \in 1..XidMod /\ Len(<<>>) = 0
  BY Modulus
<1>3. ResTyped
  <2>1. left = 0 /\ Len(timeouts) = 0
    BY <1>1 DEF Resolver!Init
  <2> QED
    BY <1>1, <1>2, <2>1 DEF ResTyped
<1>4. Lists(waitingAddrs, asks, resuming)
  BY <1>1 DEF Lists, Apart
<1>5. Answered(asks, resuming, results)
  BY <1>1, <1>2 DEF Answered
<1>6. Numbered(inflight, xid, 0)
  <2>1. Free(inflight) = 1..XidMod
    BY <1>1 DEF Free
  <2>2. Cardinality(1..XidMod) = XidMod
    BY <1>2, FS_Interval
  <2>3. At(1, 0)
    BY DEF At
  <2> QED
    BY <1>1, <1>2, <2>1, <2>2, <2>3 DEF Numbered
<1>7. Queries
  <2>1. Cardinality(Free(inflight)) = XidMod
    BY <1>2, <1>6 DEF Numbered
  <2> QED
    BY <1>1, <1>2, <1>6, <2>1 DEF Queries
<1>8. Resolver!SenderInStep
  BY <1>1 DEF Resolver!SenderInStep
<1> QED
  BY <1>3, <1>4, <1>5, <1>7, <1>8 DEF ResInv

LEMMA EntryFacts ==
  /\ \A e \in Entries : e.req \in Requests /\ [e EXCEPT !.due = TRUE] \in Entries
  /\ \A r \in Requests : [req |-> r, due |-> FALSE] \in Entries
<1>1. ASSUME NEW e \in Entries PROVE e.req \in Requests /\ [e EXCEPT !.due = TRUE] \in Entries
  <2>1. e \in [req : Requests, due : BOOLEAN]
    BY DEF Entries
  <2>2. e.req \in Requests
    BY ONLY <2>1
  <2>3. [e EXCEPT !.due = TRUE] \in [req : Requests, due : BOOLEAN]
    BY ONLY <2>1
  <2> QED
    BY <2>2, <2>3 DEF Entries
<1>2. ASSUME NEW r \in Requests PROVE [req |-> r, due |-> FALSE] \in Entries
  BY DEF Entries
<1> QED
  BY <1>1, <1>2

(* a call of Resolve(), by a client that waits nowhere *)
LEMMA ResResolve ==
  ASSUME ResInv, NEW c, NEW r \in Requests, NEW z, Resolver!Resolve(c, r),
         Lists(waitingAddrs, asks, z), Idle(c, waitingAddrs, z), Answered(asks, z, results),
         resuming' = z, results' = results, left' = left
  PROVE  ResInv'
<1>1. /\ waitingAddrs' = [waitingAddrs EXCEPT ![r] = Append(@, c)]
      /\ asks' = [asks EXCEPT ![c] = r]
      /\ sender' = IF suspended THEN "running" ELSE sender
      /\ suspended' = suspended /\ inflight' = inflight /\ xid' = xid /\ queries' = queries
  BY DEF Resolver!Resolve
<1>2. ResTyped
  BY DEF ResInv
<1>3. Lists(waitingAddrs', asks', resuming')
  BY <1>1, ListsAsk
<1>4. Answered(asks', resuming', results')
  <2>1. ASSUME NEW k \in 1..Len(z) PROVE asks'[z[k]] = asks[z[k]]
    <3>1. /\ asks \in [Clients -> Requests \cup {"none"}]
          /\ z \in Seq(Clients)
          /\ z[k] \in Clients /\ z[k] # c
      BY DEF Lists, Idle
    <3> QED
      BY <3>1, <1>1
  <2> QED
    BY <2>1 DEF Answered
<1>5. /\ queue' \in Seq(Requests)
      /\ Len(queue') <= Cardinality(Free(inflight))
  <2>1. /\ queue \in Seq(Requests) /\ Len(queue) <= Cardinality(Free(inflight))
    BY DEF ResInv, ResTyped, Queries
  <2>2. CASE waitingAddrs[r] = <<>>
    <3>1. queue' = Append(queue, r) /\ Len(queue) < Cardinality(Free(inflight))
      BY <2>2, SameCardinality DEF Resolver!Resolve, Free, Resolver!Xids, Resolver!None
    <3>2. Cardinality(Free(inflight)) \in Nat
      BY Modulus DEF ResInv, Queries, Numbered
    <3>3. queue' \in Seq(Requests) /\ Len(queue') = Len(queue) + 1 /\ Len(queue) \in Nat
      BY <2>1, <3>1, Appended
    <3> QED
      BY <3>1, <3>2, <3>3
  <2>3. CASE waitingAddrs[r] # <<>>
    BY <2>1, <2>3 DEF Resolver!Resolve
  <2> QED
    BY <2>2, <2>3
<1>6. timeouts' \in Seq(Entries) /\ left' \in 0..Len(timeouts')
  <2>1. timeouts \in Seq(Entries) /\ left \in 0..Len(timeouts)
    BY <1>2 DEF ResTyped
  <2>2. [req |-> r, due |-> FALSE] \in Entries
    BY EntryFacts
  <2>3. /\ Resolver!Deadline(r) \in Seq(Entries)
        /\ Len(Resolver!Deadline(r)) = Len(timeouts) + 1 /\ Len(timeouts) \in Nat
    BY <2>1, <2>2, Appended DEF Resolver!Deadline
  <2>4. timeouts' = timeouts \/ timeouts' = Resolver!Deadline(r)
    BY DEF Resolver!Resolve
  <2> QED
    BY <2>1, <2>3, <2>4
<1>7. ResTyped'
  <2>1. sender' \in {"asleep", "running", "writing", "dead"}
    BY <1>1, <1>2 DEF ResTyped
  <2> QED
    BY <1>1, <1>2, <1>5, <1>6, <2>1 DEF ResTyped
<1>8. Queries'
  BY <1>1, <1>5 DEF ResInv, Queries
<1>9. Resolver!SenderInStep'
  BY <1>1 DEF ResInv, Resolver!SenderInStep, Resolver!Resolve
<1> QED
  BY <1>3, <1>4, <1>7, <1>8, <1>9 DEF ResInv

LEMMA ResCall ==
  ASSUME ResInv, NEW c \in Clients, Resolver!Call(c)
  PROVE  ResInv'
<1>1. PICK r \in Requests : Resolver!Resolve(c, r)
  BY DEF Resolver!Call
<1>2. /\ resuming = <<>> /\ asks[c] = "none" /\ resuming' = resuming /\ results' = results
      /\ left' = left
  BY DEF Resolver!Call, Resolver!Quiet, Resolver!None
<1>3. Lists(waitingAddrs, asks, resuming) /\ Answered(asks, resuming, results)
  BY DEF ResInv
<1>4. Idle(c, waitingAddrs, resuming)
  <2>1. ASSUME NEW q \in Requests, NEW l \in 1..Len(waitingAddrs[q]), waitingAddrs[q][l] = c
        PROVE  FALSE
    <3>1. asks[c] = q
      BY <1>3, <2>1 DEF Lists
    <3> QED
      BY <3>1, <1>2, CoroioAssumption
  <2>2. Len(resuming) = 0
    BY <1>2
  <2> QED
    BY <2>1, <2>2 DEF Idle
<1> QED
  BY <1>1, <1>2, <1>3, <1>4, ResResolve

LEMMA ResResume == ASSUME ResInv, Resolver!Resume PROVE ResInv'
<1>1. resuming # <<>> /\ resuming' = Tail(resuming) /\ results' = results /\ left' = left
  BY DEF Resolver!Resume
<1>2. Lists(waitingAddrs, asks, resuming) /\ Answered(asks, resuming, results)
  BY DEF ResInv
<1>3. /\ Lists(waitingAddrs, asks, Tail(resuming))
      /\ Idle(Head(resuming), waitingAddrs, Tail(resuming))
  BY <1>1, <1>2, ListsResume
<1>4. Answered(asks, Tail(resuming), results)
  <2>1. resuming \in Seq(Clients)
    BY <1>2 DEF Lists
  <2>2. \A j \in 1..Len(Tail(resuming)) :
          Tail(resuming)[j] = resuming[j + 1] /\ j + 1 \in 1..Len(resuming)
    BY <1>1, <2>1, Tailed
  <2> QED
    BY <1>2, <2>2 DEF Answered
<1>5. CASE /\ asks' = [asks EXCEPT ![Head(resuming)] = "none"]
           /\ UNCHANGED <<Resolver!tables, Resolver!send>>
  <2>1. /\ queue' = queue /\ timeouts' = timeouts /\ waitingAddrs' = waitingAddrs
        /\ sender' = sender /\ suspended' = suspended /\ inflight' = inflight /\ xid' = xid
        /\ queries' = queries
    BY <1>5 DEF Resolver!tables, Resolver!send
  <2>2. Lists(waitingAddrs', asks', resuming')
    BY <1>1, <1>3, <1>5, <2>1, ListsReturn
  <2>3. Answered(asks', resuming', results')
    <3>1. ASSUME NEW k \in 1..Len(Tail(resuming))
          PROVE  asks'[Tail(resuming)[k]] = asks[Tail(resuming)[k]]
      <4>1. /\ asks \in [Clients -> Requests \cup {"none"}]
            /\ Tail(resuming) \in Seq(Clients)
            /\ Tail(resuming)[k] \in Clients /\ Tail(resuming)[k] # Head(resuming)
        BY <1>3 DEF Lists, Idle
      <4> QED
        BY <4>1, <1>5
    <3> QED
      BY <3>1, <1>1, <1>4 DEF Answered
  <2>4. ResTyped' /\ Queries' /\ Resolver!SenderInStep'
    BY <2>1, <1>1 DEF ResInv, ResTyped, Queries, Resolver!SenderInStep
  <2> QED
    BY <2>2, <2>3, <2>4 DEF ResInv
<1>6. ASSUME NEW r \in Requests, Resolver!Resolve(Head(resuming), r) PROVE ResInv'
  BY <1>1, <1>3, <1>4, <1>6, ResResolve
<1> QED
  BY <1>5, <1>6 DEF Resolver!Resume, Resolver!None

(* ResumeWaiters(), with a result of this request or an exception *)
LEMMA ResWaiters ==
  ASSUME ResInv, resuming = <<>>, NEW r \in Requests \cup {"none"},
         NEW res \in {r, "exception"}, Resolver!ResumeWaiters(res, r), asks' = asks
  PROVE  /\ Lists(waitingAddrs', asks', resuming')
         /\ Answered(asks', resuming', results')
         /\ results' \in [Requests -> Requests \cup {"none", "exception"}]
<1>1. /\ Lists(waitingAddrs, asks, resuming) /\ Answered(asks, resuming, results)
      /\ results \in [Requests -> Requests \cup {"none", "exception"}]
  BY DEF ResInv, ResTyped
<1>2. CASE r # "none" /\ waitingAddrs[r] # <<>>
  <2>1. /\ r \in Requests
        /\ results' = [results EXCEPT ![r] = res]
        /\ resuming' = waitingAddrs[r]
        /\ waitingAddrs' = [waitingAddrs EXCEPT ![r] = <<>>]
    BY <1>2 DEF Resolver!ResumeWaiters, Resolver!None
  <2>2. Lists(waitingAddrs', asks', resuming')
    BY <1>1, <2>1, ListsWake
  <2>3. /\ results' \in [Requests -> Requests \cup {"none", "exception"}]
        /\ results'[r] = res
    BY <1>1, <2>1
  <2>4. Answered(asks', resuming', results')
    <3>1. \A k \in 1..Len(waitingAddrs[r]) : asks[waitingAddrs[r][k]] = r
      BY <1>1, <2>1 DEF Lists
    <3> QED
      BY <2>1, <2>3, <3>1 DEF Answered
  <2> QED
    BY <2>2, <2>3, <2>4
<1>3. CASE ~(r # "none" /\ waitingAddrs[r] # <<>>)
  <2>1. results' = results /\ resuming' = resuming /\ waitingAddrs' = waitingAddrs
    BY <1>3 DEF Resolver!ResumeWaiters, Resolver!None
  <2> QED
    BY <1>1, <2>1
<1> QED
  BY <1>2, <1>3

LEMMA ResSender == ASSUME ResInv, Resolver!SenderTask PROVE ResInv'
<1>1. /\ sender = "running" /\ timeouts' = timeouts /\ waitingAddrs' = waitingAddrs
      /\ results' = results /\ resuming' = resuming /\ asks' = asks /\ left' = left
  BY DEF Resolver!SenderTask
<1>2. ResTyped /\ Queries
  BY DEF ResInv
<1>3. Lists(waitingAddrs', asks', resuming') /\ Answered(asks', resuming', results')
  BY <1>1 DEF ResInv
<1>4. CASE /\ queue = <<>> /\ sender' = "asleep" /\ suspended' = TRUE
           /\ UNCHANGED <<queue, inflight, xid, queries>>
  <2>1. ResTyped'
    BY <1>1, <1>2, <1>4 DEF ResTyped
  <2>2. Queries'
    BY <1>2, <1>4 DEF Queries
  <2>3. Resolver!SenderInStep'
    BY <1>4 DEF Resolver!SenderInStep
  <2> QED
    BY <1>3, <2>1, <2>2, <2>3 DEF ResInv
<1>5. CASE queue # <<>>
  <2>1. /\ suspended' = FALSE /\ queue' = Tail(queue)
        /\ inflight' = [inflight EXCEPT ![xid] = Head(queue)]
        /\ xid' = Resolver!NextXid(xid)
        /\ \/ sender' = "running" /\ queries' = queries \cup {[xid |-> xid, req |-> Head(queue)]}
           \/ sender' \in {"writing", "dead"} /\ queries' = queries
    BY <1>5 DEF Resolver!SenderTask, Resolver!Cleared, Resolver!Packet
  <2>2. /\ queue \in Seq(Requests) /\ inflight \in [1..XidMod -> Requests \cup {"none"}]
        /\ xid \in 1..XidMod /\ queries \subseteq [xid : 1..XidMod, req : Requests]
    BY <1>2 DEF ResTyped
  <2>3. /\ Tail(queue) \in Seq(Requests) /\ Len(Tail(queue)) = Len(queue) - 1
        /\ Len(queue) \in Nat /\ Len(queue) >= 1 /\ Head(queue) \in Requests
    BY <1>5, <2>2, Tailed
  <2>4. PICK n \in 0..XidMod : Numbered(inflight, xid, n)
    BY <1>2 DEF Queries
  <2>5. Len(queue) <= XidMod - n /\ XidMod \in Nat
    BY <1>2, <2>4, Modulus DEF Queries, Numbered
  <2>6. n < XidMod
    BY <2>3, <2>5
  <2>7. inflight[xid] = "none" /\ Numbered(inflight', xid', n + 1)
    BY <2>1, <2>2, <2>3, <2>4, <2>6, NextNumber
  <2>8. /\ inflight' \in [1..XidMod -> Requests \cup {"none"}] /\ inflight'[xid] = Head(queue)
        /\ \A x \in (1..XidMod) \ {xid} : inflight'[x] = inflight[x]
    BY <2>1, <2>2, <2>3
  <2>9. xid' \in 1..XidMod
    <3>1. At(xid, n) /\ n \in 0..(XidMod - 1)
      BY <2>4, <2>5, <2>6 DEF Numbered
    <3> QED
      BY <3>1, <2>1, <2>2, NextAt
  <2>10. ASSUME NEW q \in queries
         PROVE  inflight'[q.xid] = q.req
    <3>1. q.xid \in 1..XidMod /\ q.req \in Requests /\ inflight[q.xid] = q.req
      BY <1>2, <2>2 DEF Queries
    <3>2. q.xid # xid
      BY <3>1, <2>7, CoroioAssumption
    <3> QED
      BY <3>1, <3>2, <2>8
  <2>11. /\ queries' \subseteq [xid : 1..XidMod, req : Requests]
         /\ \A q \in queries' : inflight'[q.xid] = q.req
    <3> DEFINE q1 == [xid |-> xid, req |-> Head(queue)]
    <3>1. /\ q1 \in [xid : 1..XidMod, req : Requests]
          /\ inflight'[q1.xid] = q1.req
      BY <2>2, <2>3, <2>8
    <3>2. queries' \subseteq queries \cup {q1}
      BY <2>1
    <3> HIDE DEF q1
    <3> QED
      BY <3>1, <3>2, <2>2, <2>10
  <2>12. Len(queue') <= Cardinality(Free(inflight'))
    <3>1. Cardinality(Free(inflight')) = XidMod - (n + 1)
      BY <2>7 DEF Numbered
    <3> QED
      BY <3>1, <2>1, <2>3, <2>5
  <2>13. n + 1 \in 0..XidMod
    BY <2>5, <2>6
  <2>14. Queries'
    BY <2>7, <2>11, <2>12, <2>13 DEF Queries
  <2>15. ResTyped'
    <3>1. sender' \in {"asleep", "running", "writing", "dead"} /\ suspended' \in BOOLEAN
      BY <2>1
    <3> QED
      BY <3>1, <1>1, <1>2, <2>1, <2>3, <2>8, <2>9, <2>11 DEF ResTyped
  <2>16. Resolver!SenderInStep'
    BY <2>1 DEF Resolver!SenderInStep
  <2> QED
    BY <1>3, <2>14, <2>15, <2>16 DEF ResInv
<1> QED
  BY <1>4, <1>5 DEF Resolver!SenderTask

LEMMA ResSenderResumed == ASSUME ResInv, Resolver!SenderResumed PROVE ResInv'
<1>1. /\ sender = "writing" /\ sender' \in {"running", "dead"}
      /\ queue' = queue /\ timeouts' = timeouts /\ waitingAddrs' = waitingAddrs
      /\ results' = results /\ suspended' = suspended /\ inflight' = inflight /\ xid' = xid
      /\ resuming' = resuming /\ asks' = asks /\ left' = left
  BY DEF Resolver!SenderResumed, Resolver!tables
<1>2. /\ queries' \subseteq [xid : 1..XidMod, req : Requests]
      /\ \A q \in queries' : inflight[q.xid] = q.req
  <2>1. /\ queries \subseteq [xid : 1..XidMod, req : Requests]
        /\ \A q \in queries : inflight[q.xid] = q.req
        /\ inflight \in [1..XidMod -> Requests \cup {"none"}]
    BY DEF ResInv, ResTyped, Queries
  <2>2. ASSUME NEW x \in 1..XidMod, inflight[x] # "none",
               queries' = queries \cup {[xid |-> x, req |-> inflight[x]]}
        PROVE  /\ queries' \subseteq [xid : 1..XidMod, req : Requests]
               /\ \A q \in queries' : inflight[q.xid] = q.req
    <3> DEFINE q1 == [xid |-> x, req |-> inflight[x]]
    <3>1. q1 \in [xid : 1..XidMod, req : Requests] /\ inflight[q1.xid] = q1.req
      BY <2>1, <2>2
    <3>2. queries' = queries \cup {q1}
      BY <2>2
    <3> HIDE DEF q1
    <3> QED
      BY <2>1, <3>1, <3>2
  <2>3. CASE queries' = queries
    BY <2>1, <2>3
  <2> QED
    BY <2>2, <2>3 DEF Resolver!SenderResumed, Resolver!Xids, Resolver!None
<1>3. ResTyped'
  BY <1>1, <1>2 DEF ResInv, ResTyped
<1>4. Queries'
  BY <1>1, <1>2 DEF ResInv, Queries
<1>5. Resolver!SenderInStep'
  BY <1>1 DEF ResInv, Resolver!SenderInStep
<1> QED
  BY <1>1, <1>3, <1>4, <1>5 DEF ResInv

LEMMA ResReceiver == ASSUME ResInv, Resolver!ReceiverTask PROVE ResInv'
<1>1. /\ resuming = <<>> /\ queue' = queue /\ timeouts' = timeouts /\ sender' = sender
      /\ suspended' = suspended /\ inflight' = inflight /\ xid' = xid /\ queries' = queries
      /\ asks' = asks /\ left' = left
  BY DEF Resolver!ReceiverTask, Resolver!Quiet, Resolver!send
<1>2. Queries' /\ Resolver!SenderInStep'
  BY <1>1 DEF ResInv, Queries, Resolver!SenderInStep
<1>3. ASSUME NEW q \in queries, NEW failure \in BOOLEAN,
             Resolver!ResumeWaiters(Resolver!ParsePacket(q, failure), inflight[q.xid])
      PROVE  ResInv'
  <2>1. q.req \in Requests /\ inflight[q.xid] = q.req
    BY DEF ResInv, ResTyped, Queries
  <2>2. Resolver!ParsePacket(q, failure) \in {q.req, "exception"}
    BY DEF Resolver!ParsePacket
  <2>3. /\ Lists(waitingAddrs', asks', resuming')
        /\ Answered(asks', resuming', results')
        /\ results' \in [Requests -> Requests \cup {"none", "exception"}]
    BY <1>1, <1>3, <2>1, <2>2, ResWaiters
  <2>4. ResTyped'
    BY <1>1, <2>3 DEF ResInv, ResTyped
  <2> QED
    BY <1>2, <2>3, <2>4 DEF ResInv
<1>4. CASE results' = results /\ resuming' = resuming /\ waitingAddrs' = waitingAddrs
  <2>1. ResTyped'
    BY <1>1, <1>4 DEF ResInv, ResTyped
  <2> QED
    BY <1>1, <1>2, <1>4, <2>1 DEF ResInv
<1> QED
  BY <1>3, <1>4 DEF Resolver!ReceiverTask

LEMMA ResTimePasses == ASSUME ResInv, Resolver!TimePasses PROVE ResInv'
<1>1. /\ queue' = queue /\ waitingAddrs' = waitingAddrs /\ results' = results
      /\ sender' = sender /\ suspended' = suspended /\ inflight' = inflight /\ xid' = xid
      /\ queries' = queries /\ resuming' = resuming /\ asks' = asks /\ left' = left
  BY DEF Resolver!TimePasses, Resolver!send
<1>2. timeouts \in Seq(Entries) /\ left \in 0..Len(timeouts)
  BY DEF ResInv, ResTyped
<1>3. timeouts' \in Seq(Entries) /\ Len(timeouts') = Len(timeouts)
  <2>1. PICK k \in DOMAIN timeouts : timeouts' = [timeouts EXCEPT ![k].due = TRUE]
    BY DEF Resolver!TimePasses
  <2> DEFINE t == [timeouts[k] EXCEPT !.due = TRUE]
  <2>2. timeouts[k] \in Entries
    BY <1>2
  <2>3. t \in Entries
    BY <2>2, EntryFacts
  <2>4. timeouts' = [timeouts EXCEPT ![k] = t]
    BY <2>1
  <2> HIDE DEF t
  <2> QED
    BY <1>2, <2>3, <2>4
<1>4. ResTyped'
  BY <1>1, <1>2, <1>3 DEF ResInv, ResTyped
<1> QED
  BY <1>1, <1>4 DEF ResInv, Queries, Resolver!SenderInStep

LEMMA ResTimeoutsTask == ASSUME ResInv, Resolver!TimeoutsTask PROVE ResInv'
<1>1. /\ queue' = queue /\ timeouts' = timeouts /\ waitingAddrs' = waitingAddrs
      /\ results' = results /\ sender' = sender /\ suspended' = suspended
      /\ inflight' = inflight /\ xid' = xid /\ queries' = queries /\ resuming' = resuming
      /\ asks' = asks /\ left' = Cardinality({k \in DOMAIN timeouts : timeouts[k].due})
  BY SameCardinality DEF Resolver!TimeoutsTask, Resolver!tables, Resolver!send
<1>2. left' \in 0..Len(timeouts)
  <2> DEFINE D == {k \in DOMAIN timeouts : timeouts[k].due}
  <2>1. timeouts \in Seq(Entries)
    BY DEF ResInv, ResTyped
  <2>2. Len(timeouts) \in Nat /\ DOMAIN timeouts = 1..Len(timeouts)
    BY <2>1
  <2>3. IsFiniteSet(1..Len(timeouts)) /\ Cardinality(1..Len(timeouts)) = Len(timeouts)
    <3> DEFINE n == Len(timeouts)
    <3>1. n \in Nat
      BY <2>2
    <3> HIDE DEF n
    <3>2. IsFiniteSet(1..n) /\ Cardinality(1..n) = n
      BY ONLY <3>1, FS_Interval
    <3> QED
      BY <3>2 DEF n
  <2>4. D \in SUBSET (1..Len(timeouts))
    BY <2>2
  <2> HIDE DEF D
  <2>5. IsFiniteSet(D) /\ Cardinality(D) <= Len(timeouts)
    BY <2>3, <2>4, FS_Subset
  <2>6. Cardinality(D) \in Nat
    BY <2>5, FS_CardinalityType
  <2> QED
    BY <1>1, <2>2, <2>5, <2>6 DEF D
<1>3. ResTyped'
  BY <1>1, <1>2 DEF ResInv, ResTyped
<1> QED
  BY <1>1, <1>3 DEF ResInv, Queries, Resolver!SenderInStep

LEMMA ResTimeoutsStep == ASSUME ResInv, Resolver!TimeoutsStep PROVE ResInv'
<1>1. /\ resuming = <<>> /\ queue' = queue /\ timeouts' = Tail(timeouts) /\ sender' = sender
      /\ suspended' = suspended /\ inflight' = inflight /\ xid' = xid /\ queries' = queries
      /\ asks' = asks /\ Resolver!ResumeWaiters("exception", Head(timeouts).req)
      /\ left > 0 /\ left' = left - 1
  BY DEF Resolver!TimeoutsStep, Resolver!send
<1>2. timeouts \in Seq(Entries) /\ left \in 0..Len(timeouts)
  BY DEF ResInv, ResTyped
<1>3. Len(timeouts) \in Nat /\ timeouts # <<>>
  <2>1. Len(timeouts) \in Nat /\ Len(timeouts) > 0
    BY <1>1, <1>2
  <2> QED
    BY <2>1, <1>2
<1>4. /\ timeouts' \in Seq(Entries) /\ Len(timeouts') = Len(timeouts) - 1
      /\ Head(timeouts) \in Entries
  BY <1>1, <1>2, <1>3, Tailed
<1>5. Head(timeouts).req \in Requests
  BY <1>4, EntryFacts
<1>6. /\ Lists(waitingAddrs', asks', resuming')
      /\ Answered(asks', resuming', results')
      /\ results' \in [Requests -> Requests \cup {"none", "exception"}]
  BY <1>1, <1>5, ResWaiters
<1>7. left' \in 0..Len(timeouts')
  BY <1>1, <1>2, <1>3, <1>4
<1>8. ResTyped'
  BY <1>1, <1>4, <1>6, <1>7 DEF ResInv, ResTyped
<1>9. Queries' /\ Resolver!SenderInStep'
  BY <1>1 DEF ResInv, Queries, Resolver!SenderInStep
<1> QED
  BY <1>6, <1>8, <1>9 DEF ResInv

LEMMA ResStep == ASSUME ResInv, Resolver!Next PROVE ResInv'
BY ResCall, ResResume, ResSender, ResSenderResumed, ResReceiver, ResTimePasses, ResTimeoutsTask,
   ResTimeoutsStep DEF Resolver!Next

(* What the run asks of the resolver. *)
LEMMA ResPromises ==
  ASSUME ResInv
  PROVE  Resolver!AnswerIsForRequest /\ Resolver!SenderInStep
<1>1. resuming \in Seq(Clients)
  BY DEF ResInv, Lists
<1> QED
  BY <1>1 DEF ResInv, Answered, Resolver!AnswerIsForRequest

-----------------------------------------------------------------------------
(* TResolver: nobody who waits is forgotten.  Placed: who has asked is in the list
   of its request, or is to be resumed; Deadlines: a list that is not empty ends. *)

In(c, s) == \E k \in 1..Len(s) : s[k] = c

Placed(w, a, z) == \A c \in Clients : a[c] # "none" => In(c, w[a[c]]) \/ In(c, z)

Deadlines(w, t) == \A r \in Requests : w[r] # <<>> => \E k \in 1..Len(t) : t[k].req = r

Known == Placed(waitingAddrs, asks, resuming) /\ Deadlines(waitingAddrs, timeouts)

LEMMA KnownInit == Resolver!Init => Known
BY DEF Resolver!Init, Resolver!None, Known, Placed, Deadlines

(* What a sequence has it has when it is longer; its tail has all but the head. *)
LEMMA InAppended ==
  ASSUME NEW S, NEW u \in Seq(S), NEW e \in S, NEW c
  PROVE  In(c, Append(u, e)) <=> In(c, u) \/ c = e
<1> DEFINE all == Append(u, e)
<1>1. /\ Len(all) = Len(u) + 1 /\ Len(u) \in Nat /\ all[Len(u) + 1] = e
      /\ \A j \in 1..Len(u) : all[j] = u[j]
  BY Appended
<1> HIDE DEF all
<1>2. \A k \in 1..Len(all) : k \in 1..Len(u) \/ k = Len(u) + 1
  BY <1>1
<1>3. (\A k \in 1..Len(u) : k \in 1..Len(all)) /\ Len(u) + 1 \in 1..Len(all)
  BY <1>1
<1>4. In(c, all) <=> In(c, u) \/ c = e
  BY <1>1, <1>2, <1>3 DEF In
<1> QED
  BY <1>4 DEF all

LEMMA InTailed ==
  ASSUME NEW S, NEW u \in Seq(S), u # <<>>, NEW c, c # Head(u), In(c, u)
  PROVE  In(c, Tail(u))
<1>1. PICK k \in 1..Len(u) : u[k] = c
  BY DEF In
<1>2. k # 1
  BY <1>1, Tailed
<1>3. k - 1 \in 1..Len(Tail(u)) /\ Tail(u)[k - 1] = u[(k - 1) + 1] /\ (k - 1) + 1 = k
  BY <1>2, Tailed
<1> QED
  BY <1>1, <1>3 DEF In

LEMMA DeadlinesKept ==
  ASSUME NEW w, NEW t \in Seq(Entries), Deadlines(w, t), NEW e \in Entries, NEW v,
         \A r \in Requests : v[r] # <<>> => w[r] # <<>> \/ e.req = r
  PROVE  Deadlines(v, Append(t, e))
<1> DEFINE all == Append(t, e)
<1>1. /\ Len(all) = Len(t) + 1 /\ Len(t) \in Nat /\ all[Len(t) + 1] = e
      /\ \A j \in 1..Len(t) : all[j] = t[j]
  BY Appended
<1> HIDE DEF all
<1>2. (\A k \in 1..Len(t) : k \in 1..Len(all)) /\ Len(t) + 1 \in 1..Len(all)
  BY <1>1
<1>3. Deadlines(v, all)
  BY <1>1, <1>2 DEF Deadlines
<1> QED
  BY <1>3 DEF all

(* Resolve(): z are those who are still to be resumed. *)
LEMMA KnownResolve ==
  ASSUME ResInv, Known, NEW c \in Clients, NEW r \in Requests, NEW z, Resolver!Resolve(c, r),
         \A d \in Clients : d # c /\ In(d, resuming) => In(d, z), resuming' = z
  PROVE  Known'
<1>1. /\ waitingAddrs' = [waitingAddrs EXCEPT ![r] = Append(@, c)]
      /\ asks' = [asks EXCEPT ![c] = r]
  BY DEF Resolver!Resolve
<1>2. /\ waitingAddrs \in [Requests -> Seq(Clients)] /\ timeouts \in Seq(Entries)
      /\ asks \in [Clients -> Requests \cup {"none"}]
  BY DEF ResInv, Lists, ResTyped
<1>3. /\ waitingAddrs'[r] = Append(waitingAddrs[r], c) /\ waitingAddrs[r] \in Seq(Clients)
      /\ \A q \in Requests : q # r => waitingAddrs'[q] = waitingAddrs[q]
  BY <1>1, <1>2
<1>4. ASSUME NEW d \in Clients, asks'[d] # "none"
      PROVE  In(d, waitingAddrs'[asks'[d]]) \/ In(d, resuming')
  <2>1. CASE d = c
    <3>1. asks'[d] = r
      BY <1>1, <1>2, <2>1
    <3>2. In(c, Append(waitingAddrs[r], c))
      BY <1>3, InAppended
    <3> QED
      BY <1>3, <2>1, <3>1, <3>2
  <2>2. CASE d # c
    <3>1. asks'[d] = asks[d] /\ asks[d] \in Requests
      BY <1>1, <1>2, <1>4, <2>2
    <3>2. In(d, waitingAddrs[asks[d]]) \/ In(d, resuming)
      BY <1>4, <3>1 DEF Known, Placed
    <3>3. In(d, waitingAddrs[asks[d]]) => In(d, waitingAddrs'[asks[d]])
      <4>1. CASE asks[d] = r
        <5>1. In(d, waitingAddrs[r]) => In(d, Append(waitingAddrs[r], c))
          BY <1>3, InAppended
        <5> QED
          BY <1>3, <4>1, <5>1
      <4>2. CASE asks[d] # r
        BY <1>3, <3>1, <4>2
      <4> QED
        BY <4>1, <4>2
    <3> QED
      BY <2>2, <3>1, <3>2, <3>3
  <2> QED
    BY <2>1, <2>2
<1>5. Deadlines(waitingAddrs', timeouts')
  <2>1. CASE waitingAddrs[r] = <<>>
    <3> DEFINE e == [req |-> r, due |-> FALSE]
    <3>1. e \in Entries /\ e.req = r
      BY EntryFacts
    <3>2. timeouts' = Append(timeouts, e)
      BY <2>1 DEF Resolver!Resolve, Resolver!Deadline
    <3> HIDE DEF e
    <3>3. \A q \in Requests : waitingAddrs'[q] # <<>> => waitingAddrs[q] # <<>> \/ e.req = q
      BY <1>3, <3>1
    <3> QED
      BY <1>2, <3>1, <3>2, <3>3, DeadlinesKept DEF Known
  <2>2. CASE waitingAddrs[r] # <<>>
    <3>1. timeouts' = timeouts
      BY <2>2 DEF Resolver!Resolve
    <3>2. \A q \in Requests : waitingAddrs'[q] # <<>> => waitingAddrs[q] # <<>>
      BY <1>3, <2>2
    <3> QED
      BY <3>1, <3>2 DEF Known, Deadlines
  <2> QED
    BY <2>1, <2>2
<1> QED
  BY <1>4, <1>5 DEF Known, Placed

LEMMA KnownResume == ASSUME ResInv, Known, Resolver!Resume PROVE Known'
<1> DEFINE c == Head(resuming)
<1>1. /\ resuming # <<>> /\ resuming' = Tail(resuming) /\ resuming \in Seq(Clients)
      /\ asks \in [Clients -> Requests \cup {"none"}]
  BY DEF Resolver!Resume, ResInv, Lists
<1>2. c \in Clients
  BY <1>1, Tailed
<1>3. \A d \in Clients : d # c /\ In(d, resuming) => In(d, Tail(resuming))
  BY <1>1, InTailed
<1>4. CASE /\ asks' = [asks EXCEPT ![c] = "none"]
           /\ UNCHANGED <<Resolver!tables, Resolver!send>>
  <2>1. waitingAddrs' = waitingAddrs /\ timeouts' = timeouts
    BY <1>4 DEF Resolver!tables
  <2>2. \A d \in Clients : asks'[d] # "none" => d # c /\ asks'[d] = asks[d]
    BY <1>1, <1>2, <1>4
  <2> HIDE DEF c
  <2> QED
    BY <1>1, <1>3, <2>1, <2>2 DEF Known, Placed
<1>5. ASSUME NEW r \in Requests, Resolver!Resolve(c, r) PROVE Known'
  BY <1>1, <1>2, <1>3, <1>5, KnownResolve
<1> QED
  BY <1>4, <1>5 DEF Resolver!Resume, Resolver!None

LEMMA KnownWaiters ==
  ASSUME ResInv, Known, resuming = <<>>, NEW r \in Requests \cup {"none"}, NEW res,
         Resolver!ResumeWaiters(res, r), asks' = asks
  PROVE  /\ Placed(waitingAddrs', asks', resuming')
         /\ \A q \in Requests : waitingAddrs'[q] # <<>> => waitingAddrs[q] # <<>> /\ q # r
<1>1. /\ waitingAddrs \in [Requests -> Seq(Clients)]
      /\ asks \in [Clients -> Requests \cup {"none"}]
  BY DEF ResInv, Lists
<1>2. \A d : ~In(d, resuming)
  <2>1. Len(resuming) = 0
    OBVIOUS
  <2> QED
    BY <2>1 DEF In
<1>3. CASE r # "none" /\ waitingAddrs[r] # <<>>
  <2>1. /\ r \in Requests /\ resuming' = waitingAddrs[r]
        /\ waitingAddrs' = [waitingAddrs EXCEPT ![r] = <<>>]
    BY <1>3 DEF Resolver!ResumeWaiters, Resolver!None
  <2>2. waitingAddrs'[r] = <<>> /\ \A q \in Requests : q # r => waitingAddrs'[q] = waitingAddrs[q]
    BY <1>1, <2>1
  <2>3. Placed(waitingAddrs', asks', resuming')
    BY <1>1, <1>2, <2>1, <2>2 DEF Known, Placed
  <2> QED
    BY <2>2, <2>3
<1>4. CASE ~(r # "none" /\ waitingAddrs[r] # <<>>)
  <2>1. resuming' = resuming /\ waitingAddrs' = waitingAddrs
    BY <1>4 DEF Resolver!ResumeWaiters, Resolver!None
  <2>2. \A q \in Requests : waitingAddrs[q] # <<>> => q # r
    BY <1>4, CoroioAssumption
  <2> QED
    BY <2>1, <2>2 DEF Known
<1> QED
  BY <1>3, <1>4

LEMMA KnownReceiver == ASSUME ResInv, Known, Resolver!ReceiverTask PROVE Known'
<1>1. resuming = <<>> /\ timeouts' = timeouts /\ asks' = asks
  BY DEF Resolver!ReceiverTask, Resolver!Quiet
<1>2. ASSUME NEW r \in Requests \cup {"none"}, NEW res, Resolver!ResumeWaiters(res, r)
      PROVE  Known'
  <2>1. /\ Placed(waitingAddrs', asks', resuming')
        /\ \A q \in Requests : waitingAddrs'[q] # <<>> => waitingAddrs[q] # <<>>
    BY <1>1, <1>2, KnownWaiters
  <2>2. Deadlines(waitingAddrs', timeouts')
    BY <1>1, <2>1 DEF Known, Deadlines
  <2> QED
    BY <2>1, <2>2 DEF Known
<1>3. ASSUME NEW q \in queries, NEW failure \in BOOLEAN,
             Resolver!ResumeWaiters(Resolver!ParsePacket(q, failure), inflight[q.xid])
      PROVE  Known'
  <2>1. inflight[q.xid] \in Requests \cup {"none"}
    BY DEF ResInv, ResTyped
  <2> QED
    BY <1>2, <1>3, <2>1
<1>4. CASE results' = results /\ resuming' = resuming /\ waitingAddrs' = waitingAddrs
  BY <1>1, <1>4 DEF Known
<1> QED
  BY <1>3, <1>4 DEF Resolver!ReceiverTask

LEMMA KnownTimePasses == ASSUME ResInv, Known, Resolver!TimePasses PROVE Known'
<1>1. waitingAddrs' = waitingAddrs /\ resuming' = resuming /\ asks' = asks
  BY DEF Resolver!TimePasses
<1>2. timeouts \in Seq(Entries)
  BY DEF ResInv, ResTyped
<1>3. PICK k \in DOMAIN timeouts : timeouts' = [timeouts EXCEPT ![k].due = TRUE]
  BY DEF Resolver!TimePasses
<1>4. /\ k \in 1..Len(timeouts) /\ Len(timeouts) \in Nat
      /\ timeouts[k] \in Entries
  BY <1>2, <1>3
<1> DEFINE e == [timeouts[k] EXCEPT !.due = TRUE]
<1>5. e \in Entries /\ e.req = timeouts[k].req
  <2>1. timeouts[k] \in [req : Requests, due : BOOLEAN]
    BY <1>4 DEF Entries
  <2>2. e.req = timeouts[k].req
    BY <2>1
  <2> QED
    BY <1>4, <2>2, EntryFacts
<1>6. timeouts' = [timeouts EXCEPT ![k] = e]
  BY <1>3
<1> HIDE DEF e
<1>7. /\ Len(timeouts') = Len(timeouts) /\ timeouts'[k] = e
      /\ \A j \in 1..Len(timeouts) : j # k => timeouts'[j] = timeouts[j]
  BY <1>2, <1>4, <1>5, <1>6
<1>8. \A j \in 1..Len(timeouts) : timeouts'[j].req = timeouts[j].req
  BY <1>5, <1>7
<1>9. Deadlines(waitingAddrs', timeouts')
  BY <1>1, <1>7, <1>8 DEF Known, Deadlines
<1> QED
  BY <1>1, <1>9 DEF Known

(* The entry that is looked at is that of a list that is empty then. *)
LEMMA KnownTimeouts == ASSUME ResInv, Known, Resolver!TimeoutsStep PROVE Known'
<1>1. /\ resuming = <<>> /\ timeouts' = Tail(timeouts) /\ asks' = asks
      /\ Resolver!ResumeWaiters("exception", Head(timeouts).req) /\ left > 0
  BY DEF Resolver!TimeoutsStep
<1>2. timeouts \in Seq(Entries) /\ left \in 0..Len(timeouts)
  BY DEF ResInv, ResTyped
<1>3. Len(timeouts) \in Nat /\ timeouts # <<>>
  <2>1. Len(timeouts) \in Nat /\ Len(timeouts) > 0
    BY <1>1, <1>2
  <2> QED
    BY <2>1, <1>2
<1> DEFINE r == Head(timeouts).req
<1>4. r \in Requests /\ timeouts[1].req = r
  <2>1. Head(timeouts) \in Entries /\ Head(timeouts) = timeouts[1]
    BY <1>2, <1>3, Tailed
  <2> QED
    BY <2>1, EntryFacts
<1>5. Resolver!ResumeWaiters("exception", r)
  BY <1>1
<1> HIDE DEF r
<1>6. /\ Placed(waitingAddrs', asks', resuming')
      /\ \A q \in Requests : waitingAddrs'[q] # <<>> => waitingAddrs[q] # <<>> /\ q # r
  BY <1>1, <1>4, <1>5, KnownWaiters
<1>7. ASSUME NEW q \in Requests, waitingAddrs'[q] # <<>>
      PROVE  \E k \in 1..Len(timeouts') : timeouts'[k].req = q
  <2>1. waitingAddrs[q] # <<>> /\ q # r
    BY <1>6, <1>7
  <2>2. PICK k \in 1..Len(timeouts) : timeouts[k].req = q
    BY <2>1 DEF Known, Deadlines
  <2>3. k # 1
    BY <1>4, <2>1, <2>2
  <2>4. /\ Len(timeouts') = Len(timeouts) - 1
        /\ \A j \in 1..Len(timeouts') : timeouts'[j] = timeouts[j + 1]
    BY <1>1, <1>2, <1>3, Tailed
  <2>5. k - 1 \in 1..Len(timeouts') /\ (k - 1) + 1 = k
    BY <1>3, <2>3, <2>4
  <2>6. timeouts'[k - 1] = timeouts[k]
    BY <2>4, <2>5
  <2> QED
    BY <2>2, <2>5, <2>6
<1>8. Deadlines(waitingAddrs', timeouts')
  BY <1>7 DEF Deadlines
<1> QED
  BY <1>6, <1>8 DEF Known

LEMMA KnownStep == ASSUME ResInv, Known, Resolver!Next PROVE Known'
<1>1. ASSUME NEW c \in Clients, Resolver!Call(c) PROVE Known'
  <2>1. PICK r \in Requests : Resolver!Resolve(c, r)
    BY <1>1 DEF Resolver!Call
  <2>2. resuming' = resuming
    BY <1>1 DEF Resolver!Call
  <2> QED
    BY <2>1, <2>2, KnownResolve
<1>2. CASE Resolver!SenderTask \/ Resolver!SenderResumed \/ Resolver!TimeoutsTask
  <2>1. /\ waitingAddrs' = waitingAddrs /\ resuming' = resuming /\ asks' = asks
        /\ timeouts' = timeouts
    BY <1>2 DEF Resolver!SenderTask, Resolver!SenderResumed, Resolver!TimeoutsTask,
                Resolver!tables
  <2> QED
    BY <2>1 DEF Known
<1> QED
  BY <1>1, <1>2, KnownResume, KnownReceiver, KnownTimePasses, KnownTimeouts DEF Resolver!Next

(* How often c is in s *)
LEMMA TimesIs ==
  ASSUME NEW s \in Seq(Clients), Apart(s), NEW c
  PROVE  Resolver!Times(c, s) = IF In(c, s) THEN 1 ELSE 0
<1> DEFINE P == {k \in DOMAIN s : s[k] = c}
<1>1. DOMAIN s = 1..Len(s)
  OBVIOUS
<1>2. Resolver!Times(c, s) = Cardinality(P)
  BY SameCardinality DEF Resolver!Times
<1>3. CASE In(c, s)
  <2>1. PICK k \in 1..Len(s) : s[k] = c
    BY <1>3 DEF In
  <2>2. P = {k}
    BY <1>1, <2>1 DEF Apart
  <2>3. Cardinality({k}) = 1
    BY FS_Singleton
  <2> QED
    BY <1>2, <1>3, <2>2, <2>3
<1>4. CASE ~In(c, s)
  <2>1. P = {}
    BY <1>1, <1>4 DEF In
  <2> QED
    BY <1>2, <1>4, <2>1, FS_EmptySet
<1> QED
  BY <1>3, <1>4

LEMMA KnownPromises == ASSUME ResInv, Known PROVE Resolver!WaitersAreKnown
<1> SUFFICES ASSUME NEW c \in Clients, asks[c] # "none"
             PROVE  /\ Resolver!Times(c, waitingAddrs[asks[c]]) + Resolver!Times(c, resuming) = 1
                    /\ Resolver!Times(c, resuming) = 0
                         => \E i \in DOMAIN timeouts : timeouts[i].req = asks[c]
  BY DEF Resolver!WaitersAreKnown, Resolver!None
<1> DEFINE w == waitingAddrs[asks[c]]
<1>1. /\ asks[c] \in Requests /\ w \in Seq(Clients) /\ resuming \in Seq(Clients)
      /\ Apart(w) /\ Apart(resuming) /\ timeouts \in Seq(Entries)
  BY DEF ResInv, ResTyped, Lists
<1>2. In(c, w) \/ In(c, resuming)
  BY DEF Known, Placed
<1>3. ~(In(c, w) /\ In(c, resuming))
  BY <1>1 DEF ResInv, Lists, In
<1>4. /\ Resolver!Times(c, w) = IF In(c, w) THEN 1 ELSE 0
      /\ Resolver!Times(c, resuming) = IF In(c, resuming) THEN 1 ELSE 0
  BY <1>1, TimesIs
<1>5. In(c, w) => w # <<>>
  <2>1. Len(<<>>) = 0
    OBVIOUS
  <2> QED
    BY <2>1 DEF In
<1>6. w # <<>> => \E i \in DOMAIN timeouts : timeouts[i].req = asks[c]
  <2>1. DOMAIN timeouts = 1..Len(timeouts)
    BY <1>1
  <2> QED
    BY <1>1, <2>1 DEF Known, Deadlines
<1>7. Resolver!Times(c, w) + Resolver!Times(c, resuming) = 1
  BY <1>2, <1>3, <1>4
<1>8. Resolver!Times(c, resuming) = 0 => In(c, w)
  BY <1>2, <1>4
<1> QED
  BY <1>5, <1>6, <1>7, <1>8

-----------------------------------------------------------------------------
(* The event loop: CoroioLoopProofs proves about its own copy of the loop's
   definitions what holds of each of the four loops. *)

SelectP == INSTANCE CoroioLoopProofs WITH Backend <- "select", Readers <- {1}, Writers <- {1},
                                            Closes <- TRUE, Hangups <- TRUE
Select2P == INSTANCE CoroioLoopProofs WITH Backend <- "select", Readers <- {1, 2}, Writers <- {1},
                                             Closes <- TRUE, Hangups <- FALSE
EpollP == INSTANCE CoroioLoopProofs WITH Backend <- "epoll", Readers <- {1}, Writers <- {2},
                                           Closes <- TRUE, Hangups <- TRUE
PollP == INSTANCE CoroioLoopProofs WITH Backend <- "poll", Readers <- {1}, Writers <- {1},
                                          Closes <- TRUE, Hangups <- FALSE

LEMMA SelectSame ==
  /\ (Select!Init <=> SelectP!Init) /\ (Select!Next <=> SelectP!Next)
  /\ Select!NoStrayResume <=> SelectP!NoStrayResume
  /\ Select!NoWaiterForgotten <=> SelectP!NoWaiterForgotten
<1>1. \A S : Select!Max(S) = SelectP!Max(S) /\ Select!Cardinality(S) = SelectP!Cardinality(S)
  BY DEF Select!Max, SelectP!Max, Select!Cardinality, SelectP!Cardinality
<1>2. Select!Init <=> SelectP!Init
  BY DEF Select!Init, SelectP!Init, Select!Fds, SelectP!Fds, Select!Dirs, SelectP!Dirs
<1>3. Select!NoStrayResume <=> SelectP!NoStrayResume
  BY DEF Select!NoStrayResume, SelectP!NoStrayResume
<1>4. Select!NoWaiterForgotten <=> SelectP!NoWaiterForgotten
  BY <1>1 DEF Select!NoWaiterForgotten, SelectP!NoWaiterForgotten, Select!Pending,
         SelectP!Pending, Select!Interest, SelectP!Interest, Select!Entries,
         SelectP!Entries
<1>5. \A s, ch, same : Select!Applied(s, ch, same) = SelectP!Applied(s, ch, same)
  BY DEF Select!Applied, SelectP!Applied, Select!select_change, SelectP!select_change,
         Select!epoll_change, SelectP!epoll_change, Select!epoll_ctl_add,
         SelectP!epoll_ctl_add, Select!epoll_ctl_mod, SelectP!epoll_ctl_mod,
         Select!poll_change, SelectP!poll_change, Select!Dirs, SelectP!Dirs
<1>6. Select!apply_change <=> SelectP!apply_change
  BY <1>5 DEF Select!apply_change, SelectP!apply_change, Select!Tasks, SelectP!Tasks,
         Select!net, SelectP!net
<1>7. \A r : Select!Events(r) = SelectP!Events(r)
  BY <1>1 DEF Select!Events, SelectP!Events, Select!select_events, SelectP!select_events,
         Select!epoll_events, SelectP!epoll_events, Select!poll_events,
         SelectP!poll_events, Select!Entries, SelectP!Entries, Select!IsReady,
         SelectP!IsReady, Select!Hup, SelectP!Hup, Select!Fds, SelectP!Fds, Select!Dirs,
         SelectP!Dirs
<1>8. Select!Poll <=> SelectP!Poll
  BY <1>1, <1>7 DEF Select!Poll, SelectP!Poll, Select!poll_trim, SelectP!poll_trim, Select!net,
         SelectP!net
<1>9. \A t, resumed, asked : Select!Run(t, resumed, asked) <=> SelectP!Run(t, resumed, asked)
  BY DEF Select!Run, SelectP!Run, Select!TryOp, SelectP!TryOp, Select!Fails, SelectP!Fails,
         Select!Suspend, SelectP!Suspend, Select!Close, SelectP!Close, Select!Change,
         SelectP!Change, Select!Dirs, SelectP!Dirs
<1>10. \A t : (Select!Wakeup(t) <=> SelectP!Wakeup(t)) /\ (Select!Start(t) <=> SelectP!Start(t))
  BY <1>9 DEF Select!Wakeup, SelectP!Wakeup, Select!Start, SelectP!Start, Select!AfterResume,
         SelectP!AfterResume, Select!Match, SelectP!Match, Select!Last, SelectP!Last,
         Select!Suspend, SelectP!Suspend, Select!Close, SelectP!Close, Select!Change,
         SelectP!Change, Select!Dirs, SelectP!Dirs
<1>11. Select!Next <=> SelectP!Next
  BY <1>6, <1>8, <1>10 DEF Select!Next, SelectP!Next, Select!Loop, SelectP!Loop, Select!StepDone,
         SelectP!StepDone, Select!Peer, SelectP!Peer, Select!Reuse, SelectP!Reuse,
         Select!close_again, SelectP!close_again, Select!Change, SelectP!Change,
         Select!poller, SelectP!poller, Select!net, SelectP!net, Select!Tasks,
         SelectP!Tasks, Select!Fds, SelectP!Fds, Select!Dirs, SelectP!Dirs
<1> QED
  BY <1>2, <1>3, <1>4, <1>11

LEMMA Select2Same ==
  /\ (Select2!Init <=> Select2P!Init) /\ (Select2!Next <=> Select2P!Next)
  /\ Select2!NoStrayResume <=> Select2P!NoStrayResume
  /\ Select2!NoWaiterForgotten <=> Select2P!NoWaiterForgotten
<1>1. \A S : Select2!Max(S) = Select2P!Max(S) /\ Select2!Cardinality(S) = Select2P!Cardinality(S)
  BY DEF Select2!Max, Select2P!Max, Select2!Cardinality, Select2P!Cardinality
<1>2. Select2!Init <=> Select2P!Init
  BY DEF Select2!Init, Select2P!Init, Select2!Fds, Select2P!Fds, Select2!Dirs,
         Select2P!Dirs
<1>3. Select2!NoStrayResume <=> Select2P!NoStrayResume
  BY DEF Select2!NoStrayResume, Select2P!NoStrayResume
<1>4. Select2!NoWaiterForgotten <=> Select2P!NoWaiterForgotten
  BY <1>1 DEF Select2!NoWaiterForgotten, Select2P!NoWaiterForgotten, Select2!Pending,
         Select2P!Pending, Select2!Interest, Select2P!Interest, Select2!Entries,
         Select2P!Entries
<1>5. \A s, ch, same : Select2!Applied(s, ch, same) = Select2P!Applied(s, ch, same)
  BY DEF Select2!Applied, Select2P!Applied, Select2!select_change, Select2P!select_change,
         Select2!epoll_change, Select2P!epoll_change, Select2!epoll_ctl_add,
         Select2P!epoll_ctl_add, Select2!epoll_ctl_mod, Select2P!epoll_ctl_mod,
         Select2!poll_change, Select2P!poll_change, Select2!Dirs, Select2P!Dirs
<1>6. Select2!apply_change <=> Select2P!apply_change
  BY <1>5 DEF Select2!apply_change, Select2P!apply_change, Select2!Tasks, Select2P!Tasks,
         Select2!net, Select2P!net
<1>7. \A r : Select2!Events(r) = Select2P!Events(r)
  BY <1>1 DEF Select2!Events, Select2P!Events, Select2!select_events, Select2P!select_events,
         Select2!epoll_events, Select2P!epoll_events, Select2!poll_events,
         Select2P!poll_events, Select2!Entries, Select2P!Entries, Select2!IsReady,
         Select2P!IsReady, Select2!Hup, Select2P!Hup, Select2!Fds, Select2P!Fds,
         Select2!Dirs, Select2P!Dirs
<1>8. Select2!Poll <=> Select2P!Poll
  BY <1>1, <1>7 DEF Select2!Poll, Select2P!Poll, Select2!poll_trim, Select2P!poll_trim, Select2!net,
         Select2P!net
<1>9. \A t, resumed, asked : Select2!Run(t, resumed, asked) <=> Select2P!Run(t, resumed, asked)
  BY DEF Select2!Run, Select2P!Run, Select2!TryOp, Select2P!TryOp, Select2!Fails,
         Select2P!Fails, Select2!Suspend, Select2P!Suspend, Select2!Close, Select2P!Close,
         Select2!Change, Select2P!Change, Select2!Dirs, Select2P!Dirs
<1>10. \A t : (Select2!Wakeup(t) <=> Select2P!Wakeup(t)) /\ (Select2!Start(t) <=> Select2P!Start(t))
  BY <1>9 DEF Select2!Wakeup, Select2P!Wakeup, Select2!Start, Select2P!Start,
         Select2!AfterResume, Select2P!AfterResume, Select2!Match, Select2P!Match,
         Select2!Last, Select2P!Last, Select2!Suspend, Select2P!Suspend, Select2!Close,
         Select2P!Close, Select2!Change, Select2P!Change, Select2!Dirs, Select2P!Dirs
<1>11. Select2!Next <=> Select2P!Next
  BY <1>6, <1>8, <1>10 DEF Select2!Next, Select2P!Next, Select2!Loop, Select2P!Loop, Select2!StepDone,
         Select2P!StepDone, Select2!Peer, Select2P!Peer, Select2!Reuse, Select2P!Reuse,
         Select2!close_again, Select2P!close_again, Select2!Change, Select2P!Change,
         Select2!poller, Select2P!poller, Select2!net, Select2P!net, Select2!Tasks,
         Select2P!Tasks, Select2!Fds, Select2P!Fds, Select2!Dirs, Select2P!Dirs
<1> QED
  BY <1>2, <1>3, <1>4, <1>11

LEMMA EpollSame ==
  /\ (Epoll!Init <=> EpollP!Init) /\ (Epoll!Next <=> EpollP!Next)
  /\ Epoll!NoStrayResume <=> EpollP!NoStrayResume
  /\ Epoll!NoWaiterForgotten <=> EpollP!NoWaiterForgotten
<1>1. \A S : Epoll!Max(S) = EpollP!Max(S) /\ Epoll!Cardinality(S) = EpollP!Cardinality(S)
  BY DEF Epoll!Max, EpollP!Max, Epoll!Cardinality, EpollP!Cardinality
<1>2. Epoll!Init <=> EpollP!Init
  BY DEF Epoll!Init, EpollP!Init, Epoll!Fds, EpollP!Fds, Epoll!Dirs, EpollP!Dirs
<1>3. Epoll!NoStrayResume <=> EpollP!NoStrayResume
  BY DEF Epoll!NoStrayResume, EpollP!NoStrayResume
<1>4. Epoll!NoWaiterForgotten <=> EpollP!NoWaiterForgotten
  BY <1>1 DEF Epoll!NoWaiterForgotten, EpollP!NoWaiterForgotten, Epoll!Pending, EpollP!Pending,
         Epoll!Interest, EpollP!Interest, Epoll!Entries, EpollP!Entries
<1>5. \A s, ch, same : Epoll!Applied(s, ch, same) = EpollP!Applied(s, ch, same)
  BY DEF Epoll!Applied, EpollP!Applied, Epoll!select_change, EpollP!select_change,
         Epoll!epoll_change, EpollP!epoll_change, Epoll!epoll_ctl_add,
         EpollP!epoll_ctl_add, Epoll!epoll_ctl_mod, EpollP!epoll_ctl_mod,
         Epoll!poll_change, EpollP!poll_change, Epoll!Dirs, EpollP!Dirs
<1>6. Epoll!apply_change <=> EpollP!apply_change
  BY <1>5 DEF Epoll!apply_change, EpollP!apply_change, Epoll!Tasks, EpollP!Tasks, Epoll!net,
         EpollP!net
<1>7. \A r : Epoll!Events(r) = EpollP!Events(r)
  BY <1>1 DEF Epoll!Events, EpollP!Events, Epoll!select_events, EpollP!select_events,
         Epoll!epoll_events, EpollP!epoll_events, Epoll!poll_events, EpollP!poll_events,
         Epoll!Entries, EpollP!Entries, Epoll!IsReady, EpollP!IsReady, Epoll!Hup,
         EpollP!Hup, Epoll!Fds, EpollP!Fds, Epoll!Dirs, EpollP!Dirs
<1>8. Epoll!Poll <=> EpollP!Poll
  BY <1>1, <1>7 DEF Epoll!Poll, EpollP!Poll, Epoll!poll_trim, EpollP!poll_trim, Epoll!net, EpollP!net
<1>9. \A t, resumed, asked : Epoll!Run(t, resumed, asked) <=> EpollP!Run(t, resumed, asked)
  BY DEF Epoll!Run, EpollP!Run, Epoll!TryOp, EpollP!TryOp, Epoll!Fails, EpollP!Fails,
         Epoll!Suspend, EpollP!Suspend, Epoll!Close, EpollP!Close, Epoll!Change,
         EpollP!Change, Epoll!Dirs, EpollP!Dirs
<1>10. \A t : (Epoll!Wakeup(t) <=> EpollP!Wakeup(t)) /\ (Epoll!Start(t) <=> EpollP!Start(t))
  BY <1>9 DEF Epoll!Wakeup, EpollP!Wakeup, Epoll!Start, EpollP!Start, Epoll!AfterResume,
         EpollP!AfterResume, Epoll!Match, EpollP!Match, Epoll!Last, EpollP!Last,
         Epoll!Suspend, EpollP!Suspend, Epoll!Close, EpollP!Close, Epoll!Change,
         EpollP!Change, Epoll!Dirs, EpollP!Dirs
<1>11. Epoll!Next <=> EpollP!Next
  BY <1>6, <1>8, <1>10 DEF Epoll!Next, EpollP!Next, Epoll!Loop, EpollP!Loop, Epoll!StepDone, EpollP!StepDone,
         Epoll!Peer, EpollP!Peer, Epoll!Reuse, EpollP!Reuse, Epoll!close_again,
         EpollP!close_again, Epoll!Change, EpollP!Change, Epoll!poller, EpollP!poller,
         Epoll!net, EpollP!net, Epoll!Tasks, EpollP!Tasks, Epoll!Fds, EpollP!Fds,
         Epoll!Dirs, EpollP!Dirs
<1> QED
  BY <1>2, <1>3, <1>4, <1>11

LEMMA PollSame ==
  /\ (Poll!Init <=> PollP!Init) /\ (Poll!Next <=> PollP!Next)
  /\ Poll!NoStrayResume <=> PollP!NoStrayResume
  /\ Poll!NoWaiterForgotten <=> PollP!NoWaiterForgotten
<1>1. \A S : Poll!Max(S) = PollP!Max(S) /\ Poll!Cardinality(S) = PollP!Cardinality(S)
  BY DEF Poll!Max, PollP!Max, Poll!Cardinality, PollP!Cardinality
<1>2. Poll!Init <=> PollP!Init
  BY DEF Poll!Init, PollP!Init, Poll!Fds, PollP!Fds, Poll!Dirs, PollP!Dirs
<1>3. Poll!NoStrayResume <=> PollP!NoStrayResume
  BY DEF Poll!NoStrayResume, PollP!NoStrayResume
<1>4. Poll!NoWaiterForgotten <=> PollP!NoWaiterForgotten
  BY <1>1 DEF Poll!NoWaiterForgotten, PollP!NoWaiterForgotten, Poll!Pending, PollP!Pending,
         Poll!Interest, PollP!Interest, Poll!Entries, PollP!Entries
<1>5. \A s, ch, same : Poll!Applied(s, ch, same) = PollP!Applied(s, ch, same)
  BY DEF Poll!Applied, PollP!Applied, Poll!select_change, PollP!select_change,
         Poll!epoll_change, PollP!epoll_change, Poll!epoll_ctl_add, PollP!epoll_ctl_add,
         Poll!epoll_ctl_mod, PollP!epoll_ctl_mod, Poll!poll_change, PollP!poll_change,
         Poll!Dirs, PollP!Dirs
<1>6. Poll!apply_change <=> PollP!apply_change
  BY <1>5 DEF Poll!apply_change, PollP!apply_change, Poll!Tasks, PollP!Tasks, Poll!net,
         PollP!net
<1>7. \A r : Poll!Events(r) = PollP!Events(r)
  BY <1>1 DEF Poll!Events, PollP!Events, Poll!select_events, PollP!select_events,
         Poll!epoll_events, PollP!epoll_events, Poll!poll_events, PollP!poll_events,
         Poll!Entries, PollP!Entries, Poll!IsReady, PollP!IsReady, Poll!Hup, PollP!Hup,
         Poll!Fds, PollP!Fds, Poll!Dirs, PollP!Dirs
<1>8. Poll!Poll <=> PollP!Poll
  BY <1>1, <1>7 DEF Poll!Poll, PollP!Poll, Poll!poll_trim, PollP!poll_trim, Poll!net, PollP!net
<1>9. \A t, resumed, asked : Poll!Run(t, resumed, asked) <=> PollP!Run(t, resumed, asked)
  BY DEF Poll!Run, PollP!Run, Poll!TryOp, PollP!TryOp, Poll!Fails, PollP!Fails,
         Poll!Suspend, PollP!Suspend, Poll!Close, PollP!Close, Poll!Change, PollP!Change,
         Poll!Dirs, PollP!Dirs
<1>10. \A t : (Poll!Wakeup(t) <=> PollP!Wakeup(t)) /\ (Poll!Start(t) <=> PollP!Start(t))
  BY <1>9 DEF Poll!Wakeup, PollP!Wakeup, Poll!Start, PollP!Start, Poll!AfterResume,
         PollP!AfterResume, Poll!Match, PollP!Match, Poll!Last, PollP!Last, Poll!Suspend,
         PollP!Suspend, Poll!Close, PollP!Close, Poll!Change, PollP!Change, Poll!Dirs,
         PollP!Dirs
<1>11. Poll!Next <=> PollP!Next
  BY <1>6, <1>8, <1>10 DEF Poll!Next, PollP!Next, Poll!Loop, PollP!Loop, Poll!StepDone, PollP!StepDone,
         Poll!Peer, PollP!Peer, Poll!Reuse, PollP!Reuse, Poll!close_again,
         PollP!close_again, Poll!Change, PollP!Change, Poll!poller, PollP!poller, Poll!net,
         PollP!net, Poll!Tasks, PollP!Tasks, Poll!Fds, PollP!Fds, Poll!Dirs, PollP!Dirs
<1> QED
  BY <1>2, <1>3, <1>4, <1>11

(* Each of them is used as the loop's theorems ask for. *)
LEMMA AllUsable == SelectP!Usable /\ Select2P!Usable /\ EpollP!Usable /\ PollP!Usable
BY DEF SelectP!Usable, Select2P!Usable, EpollP!Usable, PollP!Usable, PollP!Fds

LEMMA SelectStep ==
  /\ Select!Init => SelectP!LoopInv
  /\ SelectP!LoopInv /\ Select!Next => SelectP!LoopInv'
  /\ SelectP!LoopInv => Select!NoStrayResume /\ Select!NoWaiterForgotten
  /\ SelectP!LoopInv /\ UNCHANGED SelectP!vars => SelectP!LoopInv'
BY AllUsable, SelectSame, SelectP!LoopInit, SelectP!LoopStep, SelectP!LoopPromises,
   SelectP!LoopStutters

LEMMA Select2Step ==
  /\ Select2!Init => Select2P!LoopInv
  /\ Select2P!LoopInv /\ Select2!Next => Select2P!LoopInv'
  /\ Select2P!LoopInv => Select2!NoStrayResume /\ Select2!NoWaiterForgotten
  /\ Select2P!LoopInv /\ UNCHANGED Select2P!vars => Select2P!LoopInv'
BY AllUsable, Select2Same, Select2P!LoopInit, Select2P!LoopStep, Select2P!LoopPromises,
   Select2P!LoopStutters

LEMMA EpollStep ==
  /\ Epoll!Init => EpollP!LoopInv
  /\ EpollP!LoopInv /\ Epoll!Next => EpollP!LoopInv'
  /\ EpollP!LoopInv => Epoll!NoStrayResume /\ Epoll!NoWaiterForgotten
  /\ EpollP!LoopInv /\ UNCHANGED EpollP!vars => EpollP!LoopInv'
BY AllUsable, EpollSame, EpollP!LoopInit, EpollP!LoopStep, EpollP!LoopPromises,
   EpollP!LoopStutters

LEMMA PollStep ==
  /\ Poll!Init => PollP!LoopInv
  /\ PollP!LoopInv /\ Poll!Next => PollP!LoopInv'
  /\ PollP!LoopInv => Poll!NoStrayResume /\ Poll!NoWaiterForgotten
  /\ PollP!LoopInv /\ UNCHANGED PollP!vars => PollP!LoopInv'
BY AllUsable, PollSame, PollP!LoopInit, PollP!LoopStep, PollP!LoopPromises,
   PollP!LoopStutters

-----------------------------------------------------------------------------

Inv ==
  /\ which = "select" => SelectP!LoopInv
  /\ which = "select2" => Select2P!LoopInv
  /\ which = "epoll" => EpollP!LoopInv
  /\ which = "poll" => PollP!LoopInv
  /\ which = "resolver" => ResInv /\ Known
  /\ which = "ssl" => SslInv

LEMMA Initially == Init => Inv
<1>1. CASE InitLoop
  BY <1>1, SelectStep, Select2Step, EpollStep, PollStep DEF InitLoop, Inv
<1>2. CASE InitResolver
  BY <1>2, ResInit, KnownInit DEF InitResolver, Inv
<1>3. CASE InitSsl
  BY <1>3, SslInit DEF InitSsl, Inv
<1> QED
  BY <1>1, <1>2, <1>3 DEF Init

LEMMA Always == Inv /\ [Next]_vars => Inv'
<1> SUFFICES ASSUME Inv, [Next]_vars PROVE Inv'
  OBVIOUS
<1>1. CASE \/ AsLoop("select") /\ Select!Next
           \/ AsLoop("select2") /\ Select2!Next
           \/ AsLoop("epoll") /\ Epoll!Next
           \/ AsLoop("poll") /\ Poll!Next
  BY <1>1, SelectStep, Select2Step, EpollStep, PollStep DEF AsLoop, Inv
<1>2. CASE AsSsl /\ Ssl!Next
  BY <1>2, SslStep DEF AsSsl, Inv
<1>3. CASE AsResolver /\ Resolver!Next
  BY <1>3, ResStep, KnownStep DEF AsResolver, Inv
<1>4. CASE UNCHANGED vars
  <2>1. which' = which
    BY <1>4 DEF vars
  <2>2. SslInv => SslInv'
    BY <1>4 DEF vars, SslInv, SslTyped
  <2>3. ResInv => ResInv'
    BY <1>4 DEF vars, ResInv, ResTyped, Queries, Resolver!SenderInStep
  <2>4. Known => Known'
    BY <1>4 DEF vars, Known
  <2>5. /\ SelectP!LoopInv => SelectP!LoopInv'
        /\ Select2P!LoopInv => Select2P!LoopInv'
    BY <1>4, SelectStep, Select2Step DEF vars, SelectP!vars, Select2P!vars, SelectP!poller,
       Select2P!poller, SelectP!net, Select2P!net
  <2>6. /\ EpollP!LoopInv => EpollP!LoopInv'
        /\ PollP!LoopInv => PollP!LoopInv'
    BY <1>4, EpollStep, PollStep DEF vars, EpollP!vars, PollP!vars, EpollP!poller,
       PollP!poller, EpollP!net, PollP!net
  <2> QED
    BY <2>1, <2>2, <2>3, <2>4, <2>5, <2>6 DEF Inv
<1> QED
  BY <1>1, <1>2, <1>3, <1>4 DEF Next

LEMMA Invariance == Spec => []Inv
BY Initially, Always, PTL DEF Spec

(* TSslSocket::DoIO (ssl.hpp): for every size of its buffer and of what OpenSSL
   makes, and however the socket cuts what it sends, the server gets the bytes
   in the order in which they were made. *)
THEOREM CoroioWireInOrder == Spec => []WireInOrder
<1>1. Inv => WireInOrder
  BY SslPromises DEF Inv, WireInOrder
<1> QED
  BY <1>1, Invariance, PTL

(* TSslSocket waits for the server only when all that OpenSSL made is sent, and
   SenderTask (resolver.cpp) sleeps only when no request waits and is resumed by
   Resolve() only in its sleep, for any number of clients and requests. *)
THEOREM CoroioNothingHeldBack == Spec => []NothingHeldBack
<1>1. Inv => NothingHeldBack
  BY SslPromises, ResPromises DEF Inv, NothingHeldBack
<1> QED
  BY <1>1, Invariance, PTL

(* TResolver::ReceiverTask (resolver.cpp): for any number of clients, requests and
   transaction ids, whatever the network does to the datagrams, a client that is
   about to be resumed finds addresses of its own request or an exception. *)
THEOREM CoroioAnswerIsForRequest == Spec => []AnswerIsForRequest
<1>1. Inv => AnswerIsForRequest
  BY ResPromises DEF Inv, AnswerIsForRequest
<1> QED
  BY <1>1, Invariance, PTL

(* TLoop::Step and the three pollers (poller.hpp, select.cpp, epoll.cpp, poll.cpp):
   in each loop a coroutine is resumed only by an event it waits for, whatever
   bound is put on the data that is under way. *)
THEOREM CoroioNoStrayResume == Spec => []NoStrayResume
<1>1. Inv => NoStrayResume
  BY SelectStep, Select2Step, EpollStep, PollStep
     DEF Inv, NoStrayResume, Looping, Select!NoStrayResume, Select2!NoStrayResume,
         Epoll!NoStrayResume, Poll!NoStrayResume
<1> QED
  BY <1>1, Invariance, PTL

(* The pollers: who is suspended on an open socket is about to be resumed, or Poll()
   has asked, or will ask, the kernel for its event.  TResolver (resolver.cpp), for
   any number of clients and requests: every client that waits is in the list of
   its request once or about to be resumed, and its request has a deadline. *)
THEOREM CoroioNoWaiterForgotten == Spec => []NoWaiterForgotten
<1>1. Inv => NoWaiterForgotten
  BY SelectStep, Select2Step, EpollStep, PollStep, KnownPromises DEF Inv, NoWaiterForgotten
<1> QED
  BY <1>1, Invariance, PTL
=============================================================================
