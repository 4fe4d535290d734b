-------------------------- MODULE TransportsProofs --------------------------
(***************************************************************************)
(* Proofs about the transports, for every number of objects, descriptors   *)
(* and bytes.                                                              *)
(*                                                                         *)
(* Each transport has an inductive invariant of its own, which is stated   *)
(* and shown to be one in a part of this module; the last part puts them   *)
(* together.                                                               *)
(***************************************************************************)
EXTENDS Transports, TLAPS

-----------------------------------------------------------------------------
(* TcpSocket *)

LEMMA Bounds ==
  /\ MaxFd \in Nat /\ TcpBytes \in Nat /\ TlsBytes \in Nat /\ AsioBytes \in Nat
  /\ \A len \in Lens : len \in Nat /\ len # 0
  BY TransportsAssumption

(* What the other parts rest on: where the functions are defined, and what a
   call in progress may be. *)
TcpTyped ==
  /\ obj \in [Objects -> {"unborn", "live", "moved", "dead"}]
  /\ fd \in [Objects -> Tcp!Fds \cup {Tcp!None}]
  /\ DOMAIN connected = Objects /\ connected = [o \in Objects |-> connected[o]]
  /\ table \in [Tcp!Fds -> {"free", "ours", "others"}]
  /\ stale \subseteq Objects
  /\ avail \in Nat
  /\ \/ pc = "idle" /\ call = Tcp!NoCall
     \/ pc # "idle" /\ call \in [on : Objects, name : {"connect", "wait", "read", "write"},
                                 len : Lens \cup {0}]

(* At most one object is alive.  One that was moved from holds no descriptor,
   one that is dead only a number that ::close has refused to give up. *)
TcpHolders ==
  /\ \A o, p \in Objects : obj[o] = "live" /\ obj[p] = "live" => o = p
  /\ \A o \in Objects : obj[o] \in {"unborn", "moved"} => fd[o] = Tcp!None
  /\ \A o \in Objects : obj[o] = "unborn" => o \notin stale
  /\ \A o \in Objects : obj[o] = "dead" /\ fd[o] # Tcp!None => o \in stale

(* The live object holds what is ours, and what it holds is ours unless
   ::close has reported an error for it. *)
TcpOwner ==
  /\ \A d \in Tcp!Fds : table[d] = "ours" => \E o \in Objects : obj[o] = "live" /\ fd[o] = d
  /\ \A o \in Objects \ stale : fd[o] # Tcp!None => table[fd[o]] = "ours"
  /\ \A o \in stale : obj[o] = "live" => fd[o] # Tcp!None /\ table[fd[o]] # "ours"

(* A call in progress is one of the live object, with a connection unless it
   is connect(); and while the end of the stream is the last thing this object
   has reported, the stream has ended. *)
TcpEnded ==
  /\ pc # "idle" => obj[call.on] = "live"
  /\ pc # "idle" /\ call.name # "connect" => link \in {"up", "shut"}
  /\ pc \in {"connect", "so_error"} => call.name = "connect"
  /\ pc = "recv" => call.name = "read"
  /\ \A o \in Objects :
       res = "closed" /\ obj[o] = "live" =>
         avail = 0 /\ link \in {"up", "shut"} /\ (fin \/ link = "shut")

TcpInv == TcpTyped /\ TcpHolders /\ TcpOwner /\ TcpEnded /\ Tcp!ConnectedIsReal

LEMMA TcpInitially == Tcp!Init => TcpInv
  BY Bounds
     DEF Tcp!Init, TcpInv, TcpTyped, TcpHolders, TcpOwner, TcpEnded,
         Tcp!ConnectedIsReal, Tcp!Fds, Tcp!None, Tcp!NoCall

(* No action makes a state that is not well formed. *)
LEMMA TcpTypedStep == ASSUME TcpInv, Tcp!Next PROVE TcpTyped'
<1> USE Bounds DEF TcpInv, TcpTyped,
        Tcp!objectVars, Tcp!kernelVars, Tcp!Fds,
        Tcp!None, Tcp!Free, Tcp!NoCall, Tcp!Return, Tcp!Result, Tcp!Begin
<1>1. ASSUME NEW o \in Objects, Tcp!init(o) PROVE TcpTyped'
  <2>1. CASE fd[o] # Tcp!None \/ Tcp!Free = {}
    BY <1>1, <2>1 DEF Tcp!init
  <2>2. CASE fd[o] = Tcp!None /\ Tcp!Free # {}
    <3>1. PICK d \in Tcp!Free : \/ /\ table' = [table EXCEPT ![d] = "ours"]
                                  /\ fd' = [fd EXCEPT ![o] = d]
                                  /\ avail' = 0
                               \/ UNCHANGED <<fd, Tcp!kernelVars>>
      BY <1>1, <2>2 DEF Tcp!init
    <3>2. UNCHANGED <<obj, connected, stale, pc, call>>
      BY <1>1 DEF Tcp!init
    <3>3. (table \in [Tcp!Fds -> {"free", "ours", "others"}])'
      BY <3>1
    <3>4. (fd \in [Objects -> Tcp!Fds \cup {Tcp!None}])'
      BY <3>1, SMTT(40)
    <3>5. (avail \in Nat)'
      BY <3>1
    <3> QED
      BY <3>2, <3>3, <3>4, <3>5
  <2> QED
    BY <2>1, <2>2
<1>2. ASSUME NEW o \in Objects, Tcp!connect(o) PROVE TcpTyped'
  <2>1. UNCHANGED <<Tcp!objectVars, Tcp!kernelVars>>
    BY <1>2 DEF Tcp!connect
  <2>2. \/ UNCHANGED <<pc, call>> /\ res' # "closed"
        \/ /\ pc' = "connect" /\ call' = [on |-> o, name |-> "connect", len |-> 0]
           /\ obj[o] = "live" /\ res' = res
    BY <1>2 DEF Tcp!connect
  <2> QED
    BY <2>1, <2>2
<1>3. ASSUME NEW o \in Objects, Tcp!wait_readable(o) PROVE TcpTyped'
  BY <1>3 DEF Tcp!wait_readable, Tcp!Usable
<1>4. ASSUME NEW o \in Objects, Tcp!read_some(o) PROVE TcpTyped'
  BY <1>4 DEF Tcp!read_some, Tcp!Usable
<1>5. ASSUME NEW o \in Objects, Tcp!write_some(o) PROVE TcpTyped'
  BY <1>5 DEF Tcp!write_some, Tcp!Usable
<1>6. ASSUME NEW o \in Objects, Tcp!shutdown(o) PROVE TcpTyped'
  BY <1>6 DEF Tcp!shutdown
<1>7. ASSUME NEW o \in Objects, Tcp!close(o) PROVE TcpTyped'
  BY <1>7, SMTT(40) DEF Tcp!close, Tcp!close_fd
<1>8. ASSUME NEW o \in Objects, Tcp!destroy(o) PROVE TcpTyped'
  <2>1. UNCHANGED <<connected, pc, call>> /\ obj' = [obj EXCEPT ![o] = "dead"]
    BY <1>8 DEF Tcp!destroy
  <2>2. CASE fd[o] = Tcp!None
    BY <1>8, <2>1, <2>2 DEF Tcp!destroy
  <2>3. CASE fd[o] # Tcp!None
    <3>1. /\ table' = [table EXCEPT ![fd[o]] = "free"] /\ avail' = 0
          /\ fd' \in {fd, [fd EXCEPT ![o] = Tcp!None]}
          /\ stale' \in {stale \ {o}, stale \cup {o}}
      BY <1>8, <2>3 DEF Tcp!destroy, Tcp!close_fd
    <3> QED
      BY <2>1, <3>1, ZenonT(60)
  <2> QED
    BY <2>2, <2>3
<1>9. ASSUME NEW o \in Objects, NEW p \in Objects, Tcp!move(o, p) PROVE TcpTyped'
  BY <1>9 DEF Tcp!move, Tcp!moved_fd
<1>10. CASE Tcp!connect_start
  BY <1>10 DEF Tcp!connect_start
<1>11. CASE Tcp!connect_finish
  BY <1>11 DEF Tcp!connect_finish
<1>12. CASE Tcp!select_timeout
  BY <1>12 DEF Tcp!select_timeout
<1>13. CASE Tcp!select_ready
  BY <1>13 DEF Tcp!select_ready, Tcp!After
<1>14. CASE Tcp!recv
  BY <1>14 DEF Tcp!recv, Tcp!Readable
<1>15. CASE Tcp!send
  BY <1>15 DEF Tcp!send
<1>16. CASE Tcp!select_failed
  BY <1>16 DEF Tcp!select_failed
<1>17. CASE Tcp!Peer
  BY <1>17 DEF Tcp!Peer
<1>18. CASE Tcp!Expire
  BY <1>18 DEF Tcp!Expire
<1>19. CASE Tcp!Others
  BY <1>19 DEF Tcp!Others
<1> QED
  BY <1>1, <1>2, <1>3, <1>4, <1>5, <1>6, <1>7, <1>8, <1>9, <1>10, <1>11, <1>12,
     <1>13, <1>14, <1>15, <1>16, <1>17, <1>18, <1>19 DEF Tcp!Next, Tcp!User,
     Tcp!Step

(* A move passes the descriptor on, and the destructor closes it. *)
LEMMA TcpHoldersStep == ASSUME TcpInv, Tcp!Next PROVE TcpHolders'
<1> USE Bounds DEF TcpInv, TcpTyped, TcpHolders, TcpOwner,
        Tcp!objectVars, Tcp!kernelVars, Tcp!Fds,
        Tcp!None, Tcp!Free, Tcp!NoCall, Tcp!Return, Tcp!Result, Tcp!Begin
<1>1. ASSUME NEW o \in Objects, Tcp!init(o) PROVE TcpHolders'
  BY <1>1 DEF Tcp!init
<1>2. ASSUME NEW o \in Objects, Tcp!connect(o) PROVE TcpHolders'
  BY <1>2, ZenonT(60) DEF Tcp!connect
<1>3. ASSUME NEW o \in Objects, Tcp!wait_readable(o) PROVE TcpHolders'
  BY <1>3 DEF Tcp!wait_readable, Tcp!Usable
<1>4. ASSUME NEW o \in Objects, Tcp!read_some(o) PROVE TcpHolders'
  BY <1>4 DEF Tcp!read_some, Tcp!Usable
<1>5. ASSUME NEW o \in Objects, Tcp!write_some(o) PROVE TcpHolders'
  BY <1>5 DEF Tcp!write_some, Tcp!Usable
<1>6. ASSUME NEW o \in Objects, Tcp!shutdown(o) PROVE TcpHolders'
  BY <1>6 DEF Tcp!shutdown
<1>7. ASSUME NEW o \in Objects, Tcp!close(o) PROVE TcpHolders'
  BY <1>7, SMTT(40) DEF Tcp!close, Tcp!close_fd
<1>8. ASSUME NEW o \in Objects, Tcp!destroy(o) PROVE TcpHolders'
  BY <1>8 DEF Tcp!destroy, Tcp!close_fd
<1>9. ASSUME NEW o \in Objects, NEW p \in Objects, Tcp!move(o, p) PROVE TcpHolders'
  <2>1. /\ obj[o] = "live" /\ obj[p] = "unborn" /\ o # p
        /\ obj' = [obj EXCEPT ![o] = "moved", ![p] = "live"]
        /\ fd' = [fd EXCEPT ![p] = fd[o], ![o] = Tcp!None]
        /\ stale' \in {stale, stale \cup {p}}
    BY <1>9 DEF Tcp!move, Tcp!moved_fd
  <2>2. \A q \in Objects : obj'[q] = "live" => q = p
    BY <2>1
  <2>3. \A q \in Objects : obj'[q] \in {"unborn", "moved"} => fd'[q] = Tcp!None
    BY <2>1
  <2>4. \A q \in Objects : obj'[q] = "unborn" => q \notin stale'
    BY <2>1
  <2>5. \A q \in Objects : obj'[q] = "dead" /\ fd'[q] # Tcp!None => q \in stale'
    BY <2>1
  <2> QED
    BY <2>2, <2>3, <2>4, <2>5
<1>10. CASE Tcp!connect_start
  BY <1>10 DEF Tcp!connect_start
<1>11. CASE Tcp!connect_finish
  BY <1>11 DEF Tcp!connect_finish
<1>12. CASE Tcp!select_timeout
  BY <1>12 DEF Tcp!select_timeout
<1>13. CASE Tcp!select_ready
  BY <1>13 DEF Tcp!select_ready, Tcp!After
<1>14. CASE Tcp!recv
  BY <1>14 DEF Tcp!recv, Tcp!Readable
<1>15. CASE Tcp!send
  BY <1>15 DEF Tcp!send
<1>16. CASE Tcp!select_failed
  BY <1>16 DEF Tcp!select_failed
<1>17. CASE Tcp!Peer
  BY <1>17 DEF Tcp!Peer
<1>18. CASE Tcp!Expire
  BY <1>18 DEF Tcp!Expire
<1>19. CASE Tcp!Others
  BY <1>19 DEF Tcp!Others
<1> QED
  BY <1>1, <1>2, <1>3, <1>4, <1>5, <1>6, <1>7, <1>8, <1>9, <1>10, <1>11, <1>12,
     <1>13, <1>14, <1>15, <1>16, <1>17, <1>18, <1>19 DEF Tcp!Next, Tcp!User,
     Tcp!Step

(* A descriptor comes and goes with the live object. *)
LEMMA TcpOwnerStep == ASSUME TcpInv, Tcp!Next PROVE TcpOwner'
<1> USE Bounds DEF TcpInv, TcpTyped, TcpHolders, TcpOwner,
        Tcp!objectVars, Tcp!kernelVars, Tcp!Fds,
        Tcp!None, Tcp!Free, Tcp!NoCall, Tcp!Return, Tcp!Result, Tcp!Begin
<1>1. ASSUME NEW o \in Objects, Tcp!init(o) PROVE TcpOwner'
  BY <1>1 DEF Tcp!init
<1>2. ASSUME NEW o \in Objects, Tcp!connect(o) PROVE TcpOwner'
  <2>1. UNCHANGED <<Tcp!objectVars, Tcp!kernelVars>>
    BY <1>2 DEF Tcp!connect
  <2>2. \/ UNCHANGED <<pc, call>> /\ res' # "closed"
        \/ /\ pc' = "connect" /\ call' = [on |-> o, name |-> "connect", len |-> 0]
           /\ obj[o] = "live" /\ res' = res
    BY <1>2 DEF Tcp!connect
  <2> QED
    BY <2>1, <2>2
<1>3. ASSUME NEW o \in Objects, Tcp!wait_readable(o) PROVE TcpOwner'
  BY <1>3 DEF Tcp!wait_readable, Tcp!Usable
<1>4. ASSUME NEW o \in Objects, Tcp!read_some(o) PROVE TcpOwner'
  BY <1>4 DEF Tcp!read_some, Tcp!Usable
<1>5. ASSUME NEW o \in Objects, Tcp!write_some(o) PROVE TcpOwner'
  BY <1>5 DEF Tcp!write_some, Tcp!Usable
<1>6. ASSUME NEW o \in Objects, Tcp!shutdown(o) PROVE TcpOwner'
  BY <1>6 DEF Tcp!shutdown
<1>7. ASSUME NEW o \in Objects, Tcp!close(o) PROVE TcpOwner'
  BY <1>7, SMTT(40) DEF Tcp!close, Tcp!close_fd
<1>8. ASSUME NEW o \in Objects, Tcp!destroy(o) PROVE TcpOwner'
  BY <1>8, SMTT(40) DEF Tcp!destroy, Tcp!close_fd
<1>9. ASSUME NEW o \in Objects, NEW p \in Objects, Tcp!move(o, p) PROVE TcpOwner'
  BY <1>9 DEF Tcp!move, Tcp!moved_fd
<1>10. CASE Tcp!connect_start
  BY <1>10 DEF Tcp!connect_start
<1>11. CASE Tcp!connect_finish
  BY <1>11 DEF Tcp!connect_finish
<1>12. CASE Tcp!select_timeout
  BY <1>12 DEF Tcp!select_timeout
<1>13. CASE Tcp!select_ready
  BY <1>13 DEF Tcp!select_ready, Tcp!After
<1>14. CASE Tcp!recv
  BY <1>14 DEF Tcp!recv, Tcp!Readable
<1>15. CASE Tcp!send
  BY <1>15 DEF Tcp!send
<1>16. CASE Tcp!select_failed
  BY <1>16 DEF Tcp!select_failed
<1>17. CASE Tcp!Peer
  BY <1>17 DEF Tcp!Peer
<1>18. CASE Tcp!Expire
  BY <1>18 DEF Tcp!Expire
<1>19. CASE Tcp!Others
  BY <1>19 DEF Tcp!Others
<1> QED
  BY <1>1, <1>2, <1>3, <1>4, <1>5, <1>6, <1>7, <1>8, <1>9, <1>10, <1>11, <1>12,
     <1>13, <1>14, <1>15, <1>16, <1>17, <1>18, <1>19 DEF Tcp!Next, Tcp!User,
     Tcp!Step

(* Once the stream has ended, nothing arrives on this connection any more. *)
LEMMA TcpEndedStep == ASSUME TcpInv, Tcp!Next PROVE TcpEnded'
<1> USE Bounds DEF TcpInv, TcpTyped, TcpHolders, TcpEnded,
        Tcp!objectVars, Tcp!kernelVars, Tcp!Fds,
        Tcp!None, Tcp!Free, Tcp!NoCall, Tcp!Return, Tcp!Result, Tcp!Begin
<1>1. ASSUME NEW o \in Objects, Tcp!init(o) PROVE TcpEnded'
  BY <1>1 DEF Tcp!init
<1>2. ASSUME NEW o \in Objects, Tcp!connect(o) PROVE TcpEnded'
  <2>1. UNCHANGED <<Tcp!objectVars, Tcp!kernelVars>>
    BY <1>2 DEF Tcp!connect
  <2>2. \/ UNCHANGED <<pc, call>> /\ res' # "closed"
        \/ /\ pc' = "connect" /\ call' = [on |-> o, name |-> "connect", len |-> 0]
           /\ obj[o] = "live" /\ res' = res
    BY <1>2 DEF Tcp!connect
  <2> QED
    BY <2>1, <2>2
<1>3. ASSUME NEW o \in Objects, Tcp!wait_readable(o) PROVE TcpEnded'
  BY <1>3 DEF Tcp!wait_readable, Tcp!Usable
<1>4. ASSUME NEW o \in Objects, Tcp!read_some(o) PROVE TcpEnded'
  BY <1>4 DEF Tcp!read_some, Tcp!Usable
<1>5. ASSUME NEW o \in Objects, Tcp!write_some(o) PROVE TcpEnded'
  BY <1>5 DEF Tcp!write_some, Tcp!Usable
<1>6. ASSUME NEW o \in Objects, Tcp!shutdown(o) PROVE TcpEnded'
  BY <1>6 DEF Tcp!shutdown
<1>7. ASSUME NEW o \in Objects, Tcp!close(o) PROVE TcpEnded'
  BY <1>7 DEF Tcp!close, Tcp!close_fd
<1>8. ASSUME NEW o \in Objects, Tcp!destroy(o) PROVE TcpEnded'
  BY <1>8 DEF Tcp!destroy, Tcp!close_fd
<1>9. ASSUME NEW o \in Objects, NEW p \in Objects, Tcp!move(o, p) PROVE TcpEnded'
  BY <1>9 DEF Tcp!move, Tcp!moved_fd
<1>10. CASE Tcp!connect_start
  BY <1>10 DEF Tcp!connect_start
<1>11. CASE Tcp!connect_finish
  BY <1>11 DEF Tcp!connect_finish
<1>12. CASE Tcp!select_timeout
  BY <1>12 DEF Tcp!select_timeout
<1>13. CASE Tcp!select_ready
  BY <1>13 DEF Tcp!select_ready, Tcp!After
<1>14. CASE Tcp!recv
  <2>1. CASE pc' = "idle"
    <3>1. res' \in {"ok", "error"} \/ (avail = 0 /\ (fin \/ link = "shut"))
      BY <1>14, <2>1 DEF Tcp!recv, Tcp!Readable
    <3>2. CASE res' \in {"ok", "error"}
      BY <2>1, <3>2
    <3> QED
      BY <1>14, <2>1, <3>1 DEF Tcp!recv, Tcp!Readable
  <2>2. CASE pc' # "idle"
    BY <1>14, <2>2 DEF Tcp!recv, Tcp!Readable
  <2> QED
    BY <2>1, <2>2
<1>15. CASE Tcp!send
  BY <1>15 DEF Tcp!send
<1>16. CASE Tcp!select_failed
  BY <1>16 DEF Tcp!select_failed
<1>17. CASE Tcp!Peer
  BY <1>17 DEF Tcp!Peer
<1>18. CASE Tcp!Expire
  BY <1>18 DEF Tcp!Expire
<1>19. CASE Tcp!Others
  BY <1>19 DEF Tcp!Others
<1> QED
  BY <1>1, <1>2, <1>3, <1>4, <1>5, <1>6, <1>7, <1>8, <1>9, <1>10, <1>11, <1>12,
     <1>13, <1>14, <1>15, <1>16, <1>17, <1>18, <1>19 DEF Tcp!Next, Tcp!User,
     Tcp!Step

(* Only a connection that is up makes an object say so. *)
LEMMA TcpConnectedStep == ASSUME TcpInv, Tcp!Next PROVE Tcp!ConnectedIsReal'
<1> USE Bounds DEF TcpInv, TcpTyped, TcpHolders, TcpOwner, TcpEnded, Tcp!ConnectedIsReal,
        Tcp!objectVars, Tcp!kernelVars, Tcp!Fds,
        Tcp!None, Tcp!Free, Tcp!NoCall, Tcp!Return, Tcp!Result, Tcp!Begin
<1>1. ASSUME NEW o \in Objects, Tcp!init(o) PROVE Tcp!ConnectedIsReal'
  BY <1>1 DEF Tcp!init
<1>2. ASSUME NEW o \in Objects, Tcp!connect(o) PROVE Tcp!ConnectedIsReal'
  BY <1>2 DEF Tcp!connect
<1>3. ASSUME NEW o \in Objects, Tcp!wait_readable(o) PROVE Tcp!ConnectedIsReal'
  BY <1>3 DEF Tcp!wait_readable, Tcp!Usable
<1>4. ASSUME NEW o \in Objects, Tcp!read_some(o) PROVE Tcp!ConnectedIsReal'
  BY <1>4 DEF Tcp!read_some, Tcp!Usable
<1>5. ASSUME NEW o \in Objects, Tcp!write_some(o) PROVE Tcp!ConnectedIsReal'
  BY <1>5 DEF Tcp!write_some, Tcp!Usable
<1>6. ASSUME NEW o \in Objects, Tcp!shutdown(o) PROVE Tcp!ConnectedIsReal'
  BY <1>6 DEF Tcp!shutdown
<1>7. ASSUME NEW o \in Objects, Tcp!close(o) PROVE Tcp!ConnectedIsReal'
  BY <1>7 DEF Tcp!close, Tcp!close_fd
<1>8. ASSUME NEW o \in Objects, Tcp!destroy(o) PROVE Tcp!ConnectedIsReal'
  BY <1>8 DEF Tcp!destroy, Tcp!close_fd
<1>9. ASSUME NEW o \in Objects, NEW p \in Objects, Tcp!move(o, p) PROVE Tcp!ConnectedIsReal'
  BY <1>9 DEF Tcp!move, Tcp!moved_fd
<1>10. CASE Tcp!connect_start
  BY <1>10 DEF Tcp!connect_start
<1>11. CASE Tcp!connect_finish
  BY <1>11 DEF Tcp!connect_finish
<1>12. CASE Tcp!select_timeout
  BY <1>12 DEF Tcp!select_timeout
<1>13. CASE Tcp!select_ready
  BY <1>13 DEF Tcp!select_ready, Tcp!After
<1>14. CASE Tcp!recv
  BY <1>14 DEF Tcp!recv, Tcp!Readable
<1>15. CASE Tcp!send
  BY <1>15 DEF Tcp!send
<1>16. CASE Tcp!select_failed
  BY <1>16 DEF Tcp!select_failed
<1>17. CASE Tcp!Peer
  BY <1>17 DEF Tcp!Peer
<1>18. CASE Tcp!Expire
  BY <1>18 DEF Tcp!Expire
<1>19. CASE Tcp!Others
  BY <1>19 DEF Tcp!Others
<1> QED
  BY <1>1, <1>2, <1>3, <1>4, <1>5, <1>6, <1>7, <1>8, <1>9, <1>10, <1>11, <1>12,
     <1>13, <1>14, <1>15, <1>16, <1>17, <1>18, <1>19 DEF Tcp!Next, Tcp!User,
     Tcp!Step

-----------------------------------------------------------------------------
(* OpenSslSocket *)

(* At most one object is alive, only that one holds an SSL structure, and if it
   does, the structure's application data lead to it. *)
TlsOwner ==
  /\ obj \in [Objects -> {"unborn", "live", "moved", "dead"}]
  /\ ssl \in [Objects -> {"null", "half", "set"}]
  /\ heap => \E o \in Objects : ssl[o] # "null"
  /\ \A o \in Objects : ssl[o] # "null" => obj[o] = "live" /\ ex = o
  /\ \A o, p \in Objects : obj[o] = "live" /\ obj[p] = "live" => o = p

(* The result of a call is set when it returns. *)
TlsResult ==
  /\ pc # "idle" => res = "none"
  /\ Tls!VerifiedIsVerified

TlsInv == TlsOwner /\ TlsResult

LEMMA TlsInitially == Tls!Init => TlsInv
  BY DEF Tls!Init, TlsInv, TlsOwner, TlsResult, Tls!VerifiedIsVerified

TlsLoop ==
  \/ Tls!connect_step \/ Tls!wait_readable \/ Tls!read_some \/ Tls!write_some
  \/ Tls!shutdown_step

(* One pass of a loop around an OpenSSL call: it leaves the objects alone, and
   reports an SSL error only when the connection is broken. *)
LEMMA TlsLoopStep ==
  ASSUME TlsLoop
  PROVE  /\ pc = "ssl"
         /\ UNCHANGED <<Tls!objectVars, Tls!peerVars>>
         /\ \/ pc' # "idle" /\ res' = res
            \/ pc' = "idle" /\ res' \in {"readable", "ok", "closed", "error"}
            \/ pc' = "idle" /\ res' = "ssl error" /\ tls' = "broken"
<1> USE DEF Tls!Retry, Tls!Return, Tls!Reported, Tls!Ended, Tls!Answers, Tls!objectVars,
           Tls!peerVars
<1>1. CASE Tls!connect_step
  BY <1>1, ZenonT(60) DEF Tls!connect_step, Tls!ssl_step, Tls!SslCall
<1>2. CASE Tls!wait_readable
  BY <1>2, ZenonT(60) DEF Tls!wait_readable, Tls!ssl_step, Tls!SslCall
<1>3. CASE Tls!read_some
  BY <1>3, ZenonT(60) DEF Tls!read_some, Tls!ssl_step, Tls!SslCall
<1>4. CASE Tls!write_some
  BY <1>4, ZenonT(60) DEF Tls!write_some, Tls!ssl_step, Tls!SslCall
<1>5. CASE Tls!shutdown_step
  BY <1>5 DEF Tls!shutdown_step
<1> QED
  BY <1>1, <1>2, <1>3, <1>4, <1>5 DEF TlsLoop

(* The SSL structure comes with init, goes with close() or the destructor, and
   is passed on by a move together with its application data. *)
LEMMA TlsOwnerStep == ASSUME TlsInv, Tls!Next PROVE TlsOwner'
<1> USE DEF TlsInv, TlsOwner, Tls!objectVars, Tls!peerVars, Tls!Return,
        Tls!Result, Tls!Begin, Tls!Live, Tls!Retry
<1>1. ASSUME NEW o \in Objects, Tls!init(o) PROVE TlsOwner'
  <2>1. obj[o] = "live" /\ obj' = obj
    BY <1>1 DEF Tls!init
  <2>2. \/ UNCHANGED <<ssl, heap, ex>>
        \/ ex' = o /\ ssl' \in {[ssl EXCEPT ![o] = "set"], [ssl EXCEPT ![o] = "half"]}
    BY <1>1 DEF Tls!init
  <2> QED
    BY <2>1, <2>2
<1>2. ASSUME NEW o \in Objects, Tls!connect(o) PROVE TlsOwner'
  BY <1>2 DEF Tls!connect
<1>3. ASSUME NEW o \in Objects, Tls!shutdown(o) PROVE TlsOwner'
  BY <1>3 DEF Tls!shutdown, Tls!Established
<1>4. ASSUME NEW o \in Objects, Tls!close(o) PROVE TlsOwner'
  BY <1>4 DEF Tls!close, Tls!Release
<1>5. ASSUME NEW o \in Objects, Tls!destroy(o) PROVE TlsOwner'
  <2>1. obj' = [obj EXCEPT ![o] = "dead"] /\ ex' = ex
    BY <1>5 DEF Tls!destroy
  <2>2. CASE obj[o] = "live"
    <3>1. ssl' = [ssl EXCEPT ![o] = "null"]
      BY <1>5, <2>2 DEF Tls!destroy, Tls!Release
    <3>2. heap' => ssl[o] = "null" /\ heap
      BY <1>5, <2>2 DEF Tls!destroy, Tls!Release
    <3> QED
      BY <2>1, <3>1, <3>2
  <2>3. CASE obj[o] # "live"
    BY <1>5, <2>1, <2>3 DEF Tls!destroy
  <2> QED
    BY <2>2, <2>3
<1>6. ASSUME NEW o \in Objects, NEW value \in BOOLEAN, Tls!set_verify_peer(o, value) PROVE TlsOwner'
  BY <1>6 DEF Tls!set_verify_peer
<1>7. ASSUME NEW o \in Objects, NEW name \in {"wait", "read", "write"}, Tls!read_write(o, name)
      PROVE  TlsOwner'
  BY <1>7 DEF Tls!read_write, Tls!Established
<1>8. ASSUME NEW o \in Objects, NEW p \in Objects, Tls!move(o, p) PROVE TlsOwner'
  BY <1>8 DEF Tls!move, Tls!set_ssl_ex_data
<1>9. CASE TlsLoop
  <2>1. UNCHANGED <<obj, ssl, heap, ex>>
    BY <1>9, TlsLoopStep
  <2> QED
    BY <2>1
<1>10. CASE Tls!ssl_select
  BY <1>10 DEF Tls!ssl_select
<1>11. CASE Tls!loop_check
  BY <1>11 DEF Tls!loop_check
<1>12. CASE Tls!connect_verify
  BY <1>12 DEF Tls!connect_verify, Tls!CertificateOk, Tls!Certificate
<1>13. CASE Tls!Peer
  BY <1>13 DEF Tls!Peer
<1>14. CASE Tls!OtherErrors
  BY <1>14 DEF Tls!OtherErrors
<1>15. CASE Tls!Expire
  BY <1>15 DEF Tls!Expire
<1> QED
  BY <1>1, <1>2, <1>3, <1>4, <1>5, <1>6, <1>7, <1>8, <1>9, <1>10, <1>11, <1>12,
     <1>13, <1>14, <1>15 DEF Tls!Next, Tls!User, Tls!Step, TlsLoop

(* connect() reports success only after it has looked at the certificate. *)
LEMMA TlsResultStep == ASSUME TlsInv, Tls!Next PROVE TlsResult'
<1> USE DEF TlsInv, TlsResult, Tls!VerifiedIsVerified, Tls!objectVars, Tls!peerVars, Tls!Return,
        Tls!Result, Tls!Begin, Tls!Live, Tls!Retry
<1>1. ASSUME NEW o \in Objects, Tls!init(o) PROVE TlsResult'
  BY <1>1 DEF Tls!init
<1>2. ASSUME NEW o \in Objects, Tls!connect(o) PROVE TlsResult'
  BY <1>2 DEF Tls!connect
<1>3. ASSUME NEW o \in Objects, Tls!shutdown(o) PROVE TlsResult'
  BY <1>3 DEF Tls!shutdown, Tls!Established
<1>4. ASSUME NEW o \in Objects, Tls!close(o) PROVE TlsResult'
  BY <1>4 DEF Tls!close, Tls!Release
<1>5. ASSUME NEW o \in Objects, Tls!destroy(o) PROVE TlsResult'
  BY <1>5 DEF Tls!destroy, Tls!Release
<1>6. ASSUME NEW o \in Objects, NEW value \in BOOLEAN, Tls!set_verify_peer(o, value) PROVE TlsResult'
  BY <1>6 DEF Tls!set_verify_peer
<1>7. ASSUME NEW o \in Objects, NEW name \in {"wait", "read", "write"}, Tls!read_write(o, name)
      PROVE  TlsResult'
  BY <1>7 DEF Tls!read_write, Tls!Established
<1>8. ASSUME NEW o \in Objects, NEW p \in Objects, Tls!move(o, p) PROVE TlsResult'
  BY <1>8 DEF Tls!move, Tls!set_ssl_ex_data
<1>9. CASE TlsLoop
  <2>1. /\ pc = "ssl" /\ UNCHANGED <<cert, verify>>
        /\ (pc' # "idle" /\ res' = res) \/ (pc' = "idle" /\ res' # "connected")
    BY <1>9, TlsLoopStep
  <2> QED
    BY <2>1
<1>10. CASE Tls!ssl_select
  BY <1>10 DEF Tls!ssl_select
<1>11. CASE Tls!loop_check
  BY <1>11 DEF Tls!loop_check
<1>12. CASE Tls!connect_verify
  BY <1>12 DEF Tls!connect_verify, Tls!CertificateOk, Tls!Certificate
<1>13. CASE Tls!Peer
  BY <1>13 DEF Tls!Peer
<1>14. CASE Tls!OtherErrors
  BY <1>14 DEF Tls!OtherErrors
<1>15. CASE Tls!Expire
  BY <1>15 DEF Tls!Expire
<1> QED
  BY <1>1, <1>2, <1>3, <1>4, <1>5, <1>6, <1>7, <1>8, <1>9, <1>10, <1>11, <1>12,
     <1>13, <1>14, <1>15 DEF Tls!Next, Tls!User, Tls!Step, TlsLoop

-----------------------------------------------------------------------------
(* AsioSocket *)

AsioCall == [pc : {"idle", "read", "write", "closeframe", "sslshut"},
             op : {"none", "pending", "queued", "done"},
             ec : {"none", "eof", "aborted", "error"}, n : Nat,
             tm : {"none", "armed", "queued", "done"},
             won : {"none", "op", "timer"}, expired : BOOLEAN]

(* A timer that has run out before the operation has ended has expired. *)
AsioTimed(k) ==
  /\ k.won = "timer" => k.expired
  /\ k.won = "none" /\ k.tm \in {"queued", "done"} => k.expired

AsioTyped ==
  /\ call \in [Asio!Coroutines -> AsioCall]
  /\ res = [c \in Asio!Coroutines |-> res[c]]
  /\ net \in Nat /\ bio \in Nat /\ taken \in Nat /\ got \in Nat

(* The coroutines never wait for the same timer: one alone reads, and at most
   one writes, sends the close frame or shuts the TLS stream down. *)
AsioTurns ==
  /\ call["reader"].pc # "write" /\ call["writer"].pc # "read"
  /\ \/ call["reader"].pc \notin {"closeframe", "sslshut"}
     \/ call["writer"].pc = "idle"
  /\ \A c \in Asio!Coroutines :
       /\ call[c].pc = "sslshut" => closed = TRUE
       /\ call[c].pc = "idle" => call[c].op = "none" /\ call[c].tm = "none"

(* What the reads have taken has been returned, or is in the read that has yet
   to resume the reader. *)
AsioBytesKept ==
  /\ call["reader"].pc = "read" =>
       /\ res["reader"] \in {"none", "ok"}
       /\ call["reader"].op # "none"
       /\ call["reader"].op = "pending" => call["reader"].n = 0
       /\ call["reader"].op # "pending" /\ call["reader"].ec = "none" => call["reader"].n > 0
       /\ taken = got + call["reader"].n
  /\ call["reader"].pc # "read" /\ res["reader"] \in {"none", "ok"} => got = taken

AsioInv ==
  /\ AsioTyped /\ AsioTurns /\ AsioBytesKept
  /\ \A c \in Asio!Coroutines : AsioTimed(call[c])

LEMMA AsioInitially == Asio!Init => AsioInv
  BY DEF Asio!Init, AsioInv, AsioTyped, AsioTurns, AsioBytesKept, AsioTimed, AsioCall,
         Asio!Idle, Asio!Coroutines

(* co_await (op || timer): with the turns kept, expires_after() cancels nobody's
   wait, and the new call starts with no byte and with its timer running. *)
LEMMA AsioGroup ==
  ASSUME NEW calls \in [Asio!Coroutines -> AsioCall], NEW c \in Asio!Coroutines,
         NEW k \in AsioCall, k.pc # "idle",
         \A d \in Asio!Coroutines \ {c} :
           Asio!Timer(calls[d].pc) = Asio!Timer(k.pc) => calls[d].tm # "armed"
  PROVE  \E g \in AsioCall :
           /\ Asio!Group(calls, c, k) = [calls EXCEPT ![c] = g]
           /\ g.pc = k.pc /\ g.n = 0 /\ g.tm = "armed" /\ g.won = "none"
           /\ \/ g.op = "pending"
              \/ g.op = "queued" /\ g.ec = "error"
<1> DEFINE g == [k EXCEPT !.op = IF fd = "closed" THEN "queued" ELSE "pending",
                          !.ec = IF fd = "closed" THEN "error" ELSE "none",
                          !.n = 0, !.tm = "armed", !.won = "none"]
<1>1. Asio!Rearmed(calls, c, k.pc) = calls
  BY DEF Asio!Rearmed
<1>2. Asio!Group(calls, c, k) = [calls EXCEPT ![c] = g]
  BY <1>1 DEF Asio!Group
<1>3. /\ g \in AsioCall
      /\ g.pc = k.pc /\ g.n = 0 /\ g.tm = "armed" /\ g.won = "none"
      /\ g.op = "pending" \/ (g.op = "queued" /\ g.ec = "error")
  BY DEF AsioCall
<1> QED
  BY <1>2, <1>3, ZenonT(60)

(* socket.cancel() changes nothing but to abort an operation that is pending. *)
LEMMA AsioCancels ==
  ASSUME AsioInv, NEW others, NEW calls \in Asio!Cancelled(call, others)
  PROVE  /\ calls \in [Asio!Coroutines -> AsioCall]
         /\ \A d \in Asio!Coroutines :
              \/ calls[d] = call[d]
              \/ call[d].op = "pending" /\ calls[d] = Asio!Aborted(call[d])
<1>1. /\ DOMAIN calls = Asio!Coroutines
      /\ calls = [d \in Asio!Coroutines |-> calls[d]]
      /\ \A d \in Asio!Coroutines :
              \/ calls[d] = call[d]
              \/ call[d].op = "pending" /\ calls[d] = Asio!Aborted(call[d])
  BY DEF Asio!Cancelled
<1>2. \A d \in Asio!Coroutines : Asio!Aborted(call[d]) \in AsioCall
  <2>1. \A k \in AsioCall : Asio!Aborted(k) \in AsioCall
    BY ONLY DEF AsioCall, Asio!Aborted
  <2>2. \A d \in Asio!Coroutines : call[d] \in AsioCall
    BY DEF AsioInv, AsioTyped
  <2> QED
    BY ONLY <2>1, <2>2
<1> QED
  BY <1>1, <1>2 DEF AsioInv, AsioTyped

(* An aborted operation has taken no byte. *)
LEMMA AsioAborted ==
  ASSUME NEW k \in AsioCall
  PROVE  LET a == Asio!Aborted(k) IN
         /\ a \in AsioCall /\ a.pc = k.pc /\ a.n = k.n /\ a.tm = k.tm /\ a.won = k.won
         /\ a.expired = k.expired /\ a.op = "queued" /\ a.ec = "aborted"
  BY DEF Asio!Aborted, AsioCall

AsioNoBytes == UNCHANGED <<net, bio, taken, got>>

(* The end of a call of c that is no read, which may have aborted what the other
   coroutine was waiting for. *)
LEMMA AsioEnds ==
  ASSUME AsioInv, NEW c \in Asio!Coroutines, call[c].pc # "read", AsioNoBytes,
         closed = TRUE => closed' = TRUE,
         res' = res \/ \E r : res' = [res EXCEPT ![c] = r] /\ (r \in {"none", "ok"} => c = "writer"),
         call' \in [Asio!Coroutines -> AsioCall], call'[c] = Asio!Idle,
         \A d \in Asio!Coroutines \ {c} :
           \/ call'[d] = call[d]
           \/ call[d].op = "pending" /\ call'[d] = Asio!Aborted(call[d])
  PROVE  AsioInv'
<1> USE DEF AsioInv, Asio!Coroutines
<1>1. \A d \in Asio!Coroutines : call[d] \in AsioCall
  BY DEF AsioTyped
<1>2. AsioTyped'
  BY DEF AsioTyped, AsioNoBytes
<1>3. \A d \in Asio!Coroutines \ {c} :
        /\ call'[d].pc = call[d].pc /\ call'[d].n = call[d].n /\ call'[d].tm = call[d].tm
        /\ call'[d].won = call[d].won /\ call'[d].expired = call[d].expired
        /\ \/ call'[d].op = call[d].op /\ call'[d].ec = call[d].ec
           \/ call[d].op = "pending" /\ call'[d].op = "queued" /\ call'[d].ec = "aborted"
  BY <1>1, AsioAborted
<1>4. call'[c].pc = "idle" /\ call'[c].op = "none" /\ call'[c].tm = "none" /\ call'[c].won = "none"
  BY DEF Asio!Idle
<1>5. AsioTurns'
  <2>1. \A d \in Asio!Coroutines : call'[d].pc = "sslshut" => closed' = TRUE
    BY <1>3, <1>4 DEF AsioTurns
  <2>2. CASE c = "reader"
    BY <1>3, <1>4, <2>1, <2>2 DEF AsioTurns
  <2>3. CASE c = "writer"
    BY <1>3, <1>4, <2>1, <2>3 DEF AsioTurns
  <2> QED
    BY <2>2, <2>3
<1>6. AsioBytesKept'
  <2>1. CASE c = "reader"
    BY <1>4, <2>1 DEF AsioBytesKept, AsioNoBytes, AsioTyped
  <2>2. CASE c = "writer"
    <3>1. res'["reader"] = res["reader"]
      BY <2>2 DEF AsioTyped
    <3> QED
      BY <1>3, <2>2, <3>1 DEF AsioBytesKept, AsioNoBytes
  <2> QED
    BY <2>1, <2>2
<1>7. \A d \in Asio!Coroutines : AsioTimed(call'[d])
  BY <1>3, <1>4 DEF AsioTimed
<1> QED
  BY <1>2, <1>5, <1>6, <1>7

(* The start of a call of c, in its turn.  It may have aborted what the other
   coroutine was waiting for. *)
LEMMA AsioBegins ==
  ASSUME AsioInv, NEW c \in Asio!Coroutines, call[c].pc # "read", AsioNoBytes, res' = res,
         closed = TRUE => closed' = TRUE,
         NEW calls \in [Asio!Coroutines -> AsioCall],
         \A d \in Asio!Coroutines \ {c} :
           \/ calls[d] = call[d]
           \/ call[d].op = "pending" /\ calls[d] = Asio!Aborted(call[d]),
         NEW k \in AsioCall, call' = Asio!Group(calls, c, k),
         \/ k.pc = "read" /\ c = "reader" /\ res["reader"] \in {"none", "ok"}
         \/ /\ k.pc \notin {"idle", "read"}
            /\ k.pc = "write" => c = "writer"
            /\ k.pc = "sslshut" => closed' = TRUE
            /\ \A d \in Asio!Coroutines \ {c} : call[d].pc \in {"idle", "read"}
  PROVE  AsioInv'
<1> USE DEF AsioInv, Asio!Coroutines
<1>1. \A d \in Asio!Coroutines : call[d] \in AsioCall
  BY DEF AsioTyped
<1>2. \A d \in Asio!Coroutines \ {c} :
        /\ calls[d].pc = call[d].pc /\ calls[d].n = call[d].n /\ calls[d].tm = call[d].tm
        /\ calls[d].won = call[d].won /\ calls[d].expired = call[d].expired
        /\ \/ calls[d].op = call[d].op /\ calls[d].ec = call[d].ec
           \/ call[d].op = "pending" /\ calls[d].op = "queued" /\ calls[d].ec = "aborted"
  BY <1>1, AsioAborted
<1>3. \A d \in Asio!Coroutines \ {c} :
        Asio!Timer(calls[d].pc) = Asio!Timer(k.pc) => calls[d].tm # "armed"
  BY <1>2 DEF AsioTurns, Asio!Timer, AsioCall
<1>4. PICK g \in AsioCall :
        /\ Asio!Group(calls, c, k) = [calls EXCEPT ![c] = g]
        /\ g.pc = k.pc /\ g.n = 0 /\ g.tm = "armed" /\ g.won = "none"
        /\ \/ g.op = "pending"
           \/ g.op = "queued" /\ g.ec = "error"
  BY <1>3, AsioGroup
<1>5. call' = [calls EXCEPT ![c] = g]
  BY <1>4
<1>6. AsioTyped'
  BY <1>5 DEF AsioTyped, AsioNoBytes
<1>7. call'[c] = g /\ \A d \in Asio!Coroutines \ {c} : call'[d] = calls[d]
  BY <1>5
<1>8. AsioTurns'
  <2>1. \A d \in Asio!Coroutines : call'[d].pc = "sslshut" => closed' = TRUE
    BY <1>2, <1>4, <1>7 DEF AsioTurns
  <2>2. CASE c = "reader"
    BY <1>2, <1>4, <1>7, <2>1, <2>2 DEF AsioTurns
  <2>3. CASE c = "writer"
    BY <1>2, <1>4, <1>7, <2>1, <2>3 DEF AsioTurns
  <2> QED
    BY <2>2, <2>3
<1>9. AsioBytesKept'
  <2>1. CASE c = "reader"
    BY <1>4, <1>7, <2>1 DEF AsioBytesKept, AsioNoBytes, AsioTyped
  <2>2. CASE c = "writer"
    BY <1>2, <1>7, <2>2 DEF AsioBytesKept, AsioNoBytes
  <2> QED
    BY <2>1, <2>2
<1>10. \A d \in Asio!Coroutines : AsioTimed(call'[d])
  BY <1>2, <1>4, <1>7 DEF AsioTimed
<1> QED
  BY <1>6, <1>8, <1>9, <1>10

(* shutdown() of the transport, after the close frame or instead of it. *)
LEMMA AsioShutdown ==
  ASSUME AsioInv, NEW c \in Asio!Coroutines, NEW fail \in BOOLEAN,
         call[c].pc = "closeframe" \/ (call[c].pc = "idle" /\ fail),
         Asio!shutdown(c, fail), AsioNoBytes
  PROVE  AsioInv'
<1> USE DEF Asio!Coroutines
<1>1. CASE fd = "closed"
  <2>1. res' = [res EXCEPT ![c] = "threw"] /\ call' = [call EXCEPT ![c] = Asio!Idle] /\ closed' = TRUE
    BY <1>1 DEF Asio!shutdown
  <2>2. Asio!Idle \in AsioCall
    BY DEF Asio!Idle, AsioCall
  <2>3. /\ call' \in [Asio!Coroutines -> AsioCall] /\ call'[c] = Asio!Idle
        /\ \A d \in Asio!Coroutines \ {c} : call'[d] = call[d]
    BY <2>1, <2>2 DEF AsioInv, AsioTyped
  <2>4. \E r : res' = [res EXCEPT ![c] = r] /\ (r \in {"none", "ok"} => c = "writer")
    <3> WITNESS "threw"
    <3> QED
      BY <2>1
  <2> QED
    BY <2>1, <2>3, <2>4, AsioEnds
<1>2. CASE fd # "closed"
  <2>1. PICK calls \in Asio!Cancelled(call, Asio!Others(c)) :
          IF tls /\ ~fail
          THEN /\ call' = Asio!Group(calls, c, [call[c] EXCEPT !.pc = "sslshut"])
               /\ UNCHANGED <<fd, fin, res>>
          ELSE Asio!close_socket(c, calls, ~fail)
    BY <1>2 DEF Asio!shutdown
  <2>2. closed' = TRUE
    BY <1>2 DEF Asio!shutdown
  <2>3. /\ calls \in [Asio!Coroutines -> AsioCall]
        /\ \A d \in Asio!Coroutines :
             \/ calls[d] = call[d]
             \/ call[d].op = "pending" /\ calls[d] = Asio!Aborted(call[d])
    BY AsioCancels
  <2>4. CASE tls /\ ~fail
    <3>1. call' = Asio!Group(calls, c, [call[c] EXCEPT !.pc = "sslshut"]) /\ res' = res
      BY <2>1, <2>4
    <3>2. [call[c] EXCEPT !.pc = "sslshut"] \in AsioCall
      BY DEF AsioInv, AsioTyped, AsioCall
    <3>3. \A d \in Asio!Coroutines \ {c} : call[d].pc \in {"idle", "read"}
      BY <2>4 DEF AsioInv, AsioTurns, AsioTyped, AsioCall
    <3> QED
      BY <2>2, <2>3, <3>1, <3>2, <3>3, AsioBegins DEF AsioCall
  <2>5. CASE ~(tls /\ ~fail)
    <3>1. call' = [Asio!Closed(calls) EXCEPT ![c] = Asio!Idle] /\ res' = res
      BY <2>1, <2>5 DEF Asio!close_socket
    <3>2. \A d \in Asio!Coroutines :
            \/ Asio!Closed(calls)[d] = call[d]
            \/ call[d].op = "pending" /\ Asio!Closed(calls)[d] = Asio!Aborted(call[d])
      BY <2>3, AsioAborted DEF Asio!Closed, AsioInv, AsioTyped
    <3>3. Asio!Idle \in AsioCall
      BY DEF Asio!Idle, AsioCall
    <3>4. \A d \in Asio!Coroutines : Asio!Closed(calls)[d] \in AsioCall
      BY <3>2, AsioAborted DEF AsioInv, AsioTyped
    <3>5. DOMAIN Asio!Closed(calls) = Asio!Coroutines
      BY DEF Asio!Closed
    <3>6. /\ call' \in [Asio!Coroutines -> AsioCall] /\ call'[c] = Asio!Idle
          /\ \A d \in Asio!Coroutines \ {c} :
               \/ call'[d] = call[d]
               \/ call[d].op = "pending" /\ call'[d] = Asio!Aborted(call[d])
      BY <3>1, <3>2, <3>3, <3>4, <3>5
    <3> QED
      BY <2>2, <3>1, <3>6, AsioEnds
  <2> QED
    BY <2>4, <2>5
<1> QED
  BY <1>1, <1>2

(* A step within the call of c: the coroutine and the bytes it has in hand stay,
   and only an expired timer gets ahead of the operation. *)
LEMMA AsioWithin ==
  ASSUME AsioInv, NEW c \in Asio!Coroutines, NEW g \in AsioCall, AsioNoBytes, res' = res,
         closed' = closed, call' = [call EXCEPT ![c] = g], call[c].pc # "idle",
         g.pc = call[c].pc, g.n = call[c].n, AsioTimed(g),
         \/ g.op = call[c].op /\ g.ec = call[c].ec
         \/ call[c].op # "none" /\ g.op \notin {"none", "pending"}
            /\ (g.ec = "aborted" \/ (g.ec = call[c].ec /\ call[c].op # "pending"))
  PROVE  AsioInv'
<1> USE DEF AsioInv, Asio!Coroutines
<1>1. call'[c] = g /\ \A d \in Asio!Coroutines \ {c} : call'[d] = call[d]
  BY DEF AsioTyped
<1>2. AsioTyped'
  BY DEF AsioTyped, AsioNoBytes
<1>3. AsioTurns'
  <2>1. \A d \in Asio!Coroutines : call'[d].pc = "sslshut" => closed' = TRUE
    BY <1>1 DEF AsioTurns
  <2>2. CASE c = "reader"
    BY <1>1, <2>1, <2>2 DEF AsioTurns
  <2>3. CASE c = "writer"
    BY <1>1, <2>1, <2>3 DEF AsioTurns
  <2> QED
    BY <2>2, <2>3
<1>4. AsioBytesKept'
  <2>1. CASE c = "reader"
    BY <1>1, <2>1 DEF AsioBytesKept, AsioNoBytes
  <2>2. CASE c = "writer"
    BY <1>1, <2>2 DEF AsioBytesKept, AsioNoBytes
  <2> QED
    BY <2>1, <2>2
<1>5. \A d \in Asio!Coroutines : AsioTimed(call'[d])
  BY <1>1
<1> QED
  BY <1>2, <1>3, <1>4, <1>5

(* The operation completes. *)
LEMMA AsioCompletes == ASSUME AsioInv, NEW c \in Asio!Coroutines, Asio!Complete(c) PROVE AsioInv'
<1> USE DEF AsioInv, Asio!Coroutines
<1>1. call[c] \in AsioCall
  BY SMTT(40) DEF AsioTyped
<1>2. PICK ec \in {"none", "eof", "error"}, n \in Nat :
        /\ call' = [call EXCEPT ![c].op = "queued", ![c].ec = ec, ![c].n = n]
        /\ taken' = taken + n
        /\ call[c].pc = "read" /\ ec = "none" => n > 0
        /\ call[c].pc # "read" => n = 0
        /\ net' \in Nat /\ bio' \in Nat
  <2> DEFINE Done(ec, n) == call' = [call EXCEPT ![c].op = "queued", ![c].ec = ec, ![c].n = n]
  <2>1. CASE call[c].pc = "read" /\ net + bio > 0 /\ ~(UNCHANGED <<taken, net, bio>>)
    <3>1. PICK n \in 1..(net + bio) :
            /\ tls \/ n <= net
            /\ taken' = taken + n
            /\ net' = IF tls THEN 0 ELSE net - n
            /\ bio' = IF tls THEN net + bio - n ELSE 0
            /\ Done("none", n)
      BY <2>1 DEF Asio!Complete
    <3>2. n \in Nat /\ n > 0 /\ net' \in Nat /\ bio' \in Nat
      BY <3>1 DEF AsioTyped
    <3> WITNESS "none" \in {"none", "eof", "error"}, n \in Nat
    <3> QED
      BY <2>1, <3>1, <3>2
  <2>2. CASE UNCHANGED <<taken, net, bio>>
    <3>1. PICK ec \in {"none", "eof", "error"} :
            Done(ec, 0) /\ (call[c].pc = "read" => ec = "eof")
      BY <2>2, SMTT(40) DEF Asio!Complete, AsioTyped
    <3>2. taken' = taken + 0 /\ net' \in Nat /\ bio' \in Nat
      BY <2>2 DEF AsioTyped
    <3> WITNESS ec \in {"none", "eof", "error"}, 0 \in Nat
    <3> QED
      BY <3>1, <3>2
  <2> QED
    BY <2>1, <2>2 DEF Asio!Complete
<1>3. call[c].op = "pending" /\ UNCHANGED <<closed, got, res>>
  BY DEF Asio!Complete
<1>4. /\ call'[c] = [call[c] EXCEPT !.op = "queued", !.ec = ec, !.n = n]
      /\ \A d \in Asio!Coroutines \ {c} : call'[d] = call[d]
  BY <1>2 DEF AsioTyped
<1>5. AsioTyped'
  BY <1>1, <1>2, <1>3 DEF AsioTyped, AsioCall
<1>6. AsioTurns'
  <2>1. \A d \in Asio!Coroutines : call'[d].pc = call[d].pc /\ call'[d].tm = call[d].tm
    BY <1>1, <1>4, ZenonT(60) DEF AsioCall
  <2>2. \A d \in Asio!Coroutines : call'[d].pc = "idle" => d # c /\ call'[d].op = "none"
    <3>1. call[c].pc # "idle"
      BY <1>3 DEF AsioTurns
    <3> QED
      BY <1>4, <2>1, <3>1 DEF AsioTurns
  <2>3. \A d \in Asio!Coroutines : call'[d].pc = "sslshut" => closed' = TRUE
    BY <2>1, <1>3 DEF AsioTurns
  <2> QED
    BY <2>1, <2>2, <2>3 DEF AsioTurns
<1>7. AsioBytesKept'
  <2>1. CASE c = "reader"
    BY <1>1, <1>2, <1>3, <1>4, <2>1 DEF AsioBytesKept, AsioTyped, AsioCall, AsioTurns
  <2>2. CASE c = "writer"
    BY <1>2, <1>3, <1>4, <2>2 DEF AsioBytesKept, AsioTyped, AsioTurns
  <2> QED
    BY <2>1, <2>2
<1>8. \A d \in Asio!Coroutines : AsioTimed(call'[d])
  <2>1. \A d \in Asio!Coroutines :
          call'[d].won = call[d].won /\ call'[d].tm = call[d].tm /\ call'[d].expired = call[d].expired
    BY <1>1, <1>4, ZenonT(60) DEF AsioCall
  <2> QED
    BY <2>1 DEF AsioTimed
<1> QED
  BY <1>5, <1>6, <1>7, <1>8

(* The reader resumes: what its read has taken is returned if it succeeded. *)
LEMMA AsioReadEnds == ASSUME AsioInv, Asio!read_some_end PROVE AsioInv'
<1> USE DEF AsioInv, Asio!Coroutines
<1> DEFINE k == call["reader"]
<1>1. /\ k \in AsioCall /\ k.pc = "read"
      /\ k.won # "none" /\ k.op \in {"queued", "done"}
      /\ UNCHANGED <<closed, net, bio, taken>>
  BY DEF AsioTyped, Asio!read_some_end, Asio!Resumes
<1>2. res' = [res EXCEPT !["reader"] = Asio!Outcome(k)]
  BY DEF Asio!read_some_end
<1>3. /\ Asio!Outcome(k) = "ok" => got' = got + k.n /\ got' = taken
      /\ Asio!Outcome(k) # "ok" => got' = got
      /\ Asio!Outcome(k) # "none"
      /\ got' \in Nat
  BY <1>1 DEF Asio!read_some_end, AsioBytesKept, Asio!Outcome, AsioTyped, AsioCall
<1>4. res'["reader"] = Asio!Outcome(k)
  BY <1>2 DEF AsioTyped
<1>5. CASE call' = [call EXCEPT !["reader"] = Asio!Idle]
  <2>1. Asio!Idle \in AsioCall /\ Asio!Idle.pc = "idle" /\ Asio!Idle.op = "none"
        /\ Asio!Idle.tm = "none" /\ Asio!Idle.won = "none"
    BY DEF Asio!Idle, AsioCall
  <2>2. call'["reader"] = Asio!Idle /\ call'["writer"] = call["writer"]
    BY <1>5 DEF AsioTyped
  <2>3. AsioTyped'
    BY <1>1, <1>2, <1>3, <1>5, <2>1 DEF AsioTyped
  <2>4. AsioTurns'
    <3>1. \A d \in Asio!Coroutines : call'[d].pc = "sslshut" => closed' = TRUE
      BY <1>1, <2>1, <2>2 DEF AsioTurns
    <3> QED
      BY <2>1, <2>2, <3>1 DEF AsioTurns
  <2>5. AsioBytesKept'
    BY <1>1, <1>3, <1>4, <2>1, <2>2 DEF AsioBytesKept
  <2>6. \A d \in Asio!Coroutines : AsioTimed(call'[d])
    BY <2>1, <2>2 DEF AsioTimed
  <2> QED
    BY <2>3, <2>4, <2>5, <2>6
<1>6. CASE Asio!Outcome(k) = "ok" /\ call' = Asio!Group(call, "reader", k)
  <2>1. \A d \in Asio!Coroutines \ {"reader"} :
          Asio!Timer(call[d].pc) = Asio!Timer(k.pc) => call[d].tm # "armed"
    BY <1>1 DEF AsioTurns, Asio!Timer, AsioTyped, AsioCall
  <2>2. call \in [Asio!Coroutines -> AsioCall] /\ "reader" \in Asio!Coroutines
    BY DEF AsioTyped
  <2>3. PICK g \in AsioCall :
          /\ Asio!Group(call, "reader", k) = [call EXCEPT !["reader"] = g]
          /\ g.pc = k.pc /\ g.n = 0 /\ g.tm = "armed" /\ g.won = "none"
          /\ g.op = "pending" \/ (g.op = "queued" /\ g.ec = "error")
    BY <1>1, <2>1, <2>2, AsioGroup
  <2>4. call' = [call EXCEPT !["reader"] = g]
    BY <1>6, <2>3
  <2>5. call'["reader"] = g /\ call'["writer"] = call["writer"]
    BY <2>4 DEF AsioTyped
  <2>6. AsioTyped'
    BY <1>1, <1>2, <1>3, <2>4 DEF AsioTyped
  <2>7. AsioTurns'
    <3>1. \A d \in Asio!Coroutines : call'[d].pc = "sslshut" => closed' = TRUE
      BY <1>1, <2>3, <2>5 DEF AsioTurns
    <3> QED
      BY <1>1, <2>3, <2>5, <3>1 DEF AsioTurns
  <2>8. AsioBytesKept'
    BY <1>1, <1>3, <1>4, <1>6, <2>3, <2>5 DEF AsioBytesKept
  <2>9. \A d \in Asio!Coroutines : AsioTimed(call'[d])
    BY <2>3, <2>5 DEF AsioTimed
  <2> QED
    BY <2>6, <2>7, <2>8, <2>9
<1> QED
  BY <1>5, <1>6 DEF Asio!read_some_end

LEMMA AsioStep == ASSUME AsioInv, Asio!Next PROVE AsioInv'
<1> USE DEF Asio!Coroutines
<1>1. \A c \in Asio!Coroutines : call[c] \in AsioCall
  BY DEF AsioInv, AsioTyped
<1>2. CASE Asio!ServerSends
  BY <1>2 DEF Asio!ServerSends, AsioInv, AsioTyped, AsioTurns, AsioBytesKept
<1>3. CASE Asio!can_read
  BY <1>3 DEF Asio!can_read, AsioInv, AsioTyped, AsioTurns, AsioBytesKept
<1>4. CASE Asio!read_some
  <2> DEFINE k == [Asio!Idle EXCEPT !.pc = "read"]
  <2>1. k \in AsioCall /\ k.pc = "read"
    BY DEF Asio!Idle, AsioCall
  <2>2. /\ call' = Asio!Group(call, "reader", k) /\ call["reader"].pc # "read"
        /\ AsioNoBytes /\ res' = res /\ closed' = closed /\ res["reader"] \in {"none", "ok"}
    BY <1>4 DEF Asio!read_some, AsioNoBytes, Asio!MayCall
  <2> HIDE DEF k
  <2> QED
    BY <2>1, <2>2, AsioBegins DEF AsioInv, AsioTyped
<1>5. CASE Asio!write_some
  <2> DEFINE k == [Asio!Idle EXCEPT !.pc = "write"]
  <2>1. k \in AsioCall /\ k.pc = "write"
    BY DEF Asio!Idle, AsioCall
  <2>2. /\ call' = Asio!Group(call, "writer", k) /\ call["writer"].pc # "read"
        /\ AsioNoBytes /\ res' = res /\ closed' = closed
    BY <1>5 DEF Asio!write_some, AsioNoBytes
  <2>3. call["reader"].pc \in {"idle", "read"}
    BY <1>1, <1>5 DEF Asio!write_some, Asio!MayCall, Asio!NobodyWrites, AsioInv, AsioTurns, AsioCall
  <2> HIDE DEF k
  <2> QED
    BY <2>1, <2>2, <2>3, AsioBegins DEF AsioInv, AsioTyped
<1>6. ASSUME NEW c \in Asio!Coroutines, Asio!close(c) PROVE AsioInv'
  <2>1. call[c].pc = "idle" /\ AsioNoBytes
    BY <1>6 DEF Asio!close, AsioNoBytes
  <2>2. CASE Asio!shutdown(c, TRUE)
    BY <2>1, <2>2, AsioShutdown
  <2>3. CASE ~Asio!shutdown(c, TRUE)
    <3> DEFINE k == [Asio!Idle EXCEPT !.pc = "closeframe"]
    <3>1. k \in AsioCall /\ k.pc = "closeframe"
      BY DEF Asio!Idle, AsioCall
    <3>2. call' = Asio!Group(call, c, k) /\ res' = res /\ closed' = closed
      BY <1>6, <2>3 DEF Asio!close
    <3>3. \A d \in Asio!Coroutines \ {c} : call[d].pc \in {"idle", "read"}
      BY <1>1, <1>6, <2>3 DEF Asio!close, Asio!MayCall, Asio!NobodyWrites, AsioInv, AsioTurns,
         AsioCall
    <3> HIDE DEF k
    <3> QED
      BY <2>1, <3>1, <3>2, <3>3, AsioBegins DEF AsioInv, AsioTyped
  <2> QED
    BY <2>2, <2>3
<1>7. ASSUME NEW c \in Asio!Coroutines, Asio!Expire(c) PROVE AsioInv'
  <2> DEFINE g == [call[c] EXCEPT !.expired = TRUE]
  <2>1. /\ g \in AsioCall /\ g.pc = call[c].pc /\ g.n = call[c].n /\ g.op = call[c].op
        /\ g.ec = call[c].ec /\ AsioTimed(g)
    BY <1>1 DEF AsioCall, AsioTimed
  <2>2. /\ call' = [call EXCEPT ![c] = g] /\ AsioNoBytes /\ res' = res /\ closed' = closed
        /\ call[c].pc # "idle"
    BY <1>7 DEF Asio!Expire, AsioNoBytes
  <2> HIDE DEF g
  <2> QED
    BY <2>1, <2>2, AsioWithin
<1>8. ASSUME NEW c \in Asio!Coroutines, Asio!Fire(c) PROVE AsioInv'
  <2> DEFINE g == [call[c] EXCEPT !.tm = "queued"]
  <2>1. /\ g \in AsioCall /\ g.pc = call[c].pc /\ g.n = call[c].n /\ g.op = call[c].op
        /\ g.ec = call[c].ec /\ AsioTimed(g)
    BY <1>1, <1>8 DEF AsioCall, AsioTimed, AsioInv, Asio!Fire
  <2>2. /\ call' = [call EXCEPT ![c] = g] /\ AsioNoBytes /\ res' = res /\ closed' = closed
        /\ call[c].pc # "idle"
    BY <1>8 DEF Asio!Fire, AsioNoBytes, AsioInv, AsioTurns
  <2> HIDE DEF g
  <2> QED
    BY <2>1, <2>2, AsioWithin
<1>9. ASSUME NEW c \in Asio!Coroutines, Asio!FirstHandler(c) PROVE AsioInv'
  <2>1. /\ AsioNoBytes /\ res' = res /\ closed' = closed /\ call[c].won = "none"
        /\ call[c].pc # "idle"
    BY <1>9 DEF Asio!FirstHandler, AsioNoBytes, AsioInv, AsioTurns
  <2>2. CASE /\ call[c].op = "queued"
             /\ call' = [call EXCEPT ![c].op = "done", ![c].won = "op",
                                     ![c].tm = IF @ = "armed" THEN "queued" ELSE @]
    <3> DEFINE g == [call[c] EXCEPT !.op = "done", !.won = "op",
                                    !.tm = IF @ = "armed" THEN "queued" ELSE @]
    <3>1. /\ g \in AsioCall /\ g.pc = call[c].pc /\ g.n = call[c].n /\ g.op = "done"
          /\ g.ec = call[c].ec /\ AsioTimed(g)
      BY <1>1, ZenonT(60) DEF AsioCall, AsioTimed
    <3>2. call' = [call EXCEPT ![c] = g]
      BY <2>2 DEF AsioInv, AsioTyped
    <3> HIDE DEF g
    <3> QED
      BY <2>1, <2>2, <3>1, <3>2, AsioWithin
  <2>3. CASE /\ call[c].tm = "queued"
             /\ call' = [call EXCEPT
                  ![c] = [IF @.op = "pending" THEN Asio!Aborted(@) ELSE @
                            EXCEPT !.tm = "done", !.won = "timer"]]
    <3> DEFINE h == IF call[c].op = "pending" THEN Asio!Aborted(call[c]) ELSE call[c]
               g == [h EXCEPT !.tm = "done", !.won = "timer"]
    <3>1. /\ h \in AsioCall /\ h.pc = call[c].pc /\ h.n = call[c].n
          /\ h.expired = call[c].expired
          /\ \/ h.op = call[c].op /\ h.ec = call[c].ec
             \/ call[c].op = "pending" /\ h.op = "queued" /\ h.ec = "aborted"
      BY <1>1, AsioAborted
    <3>2. call' = [call EXCEPT ![c] = g]
      BY <2>3 DEF AsioInv, AsioTyped
    <3> HIDE DEF h
    <3>3. call[c].expired
      BY <2>1, <2>3 DEF AsioInv, AsioTimed
    <3>4. /\ g \in AsioCall /\ g.pc = h.pc /\ g.n = h.n /\ g.op = h.op /\ g.ec = h.ec
          /\ AsioTimed(g)
      BY <3>1, <3>3 DEF AsioCall, AsioTimed
    <3> HIDE DEF g
    <3> QED
      BY <2>1, <3>1, <3>2, <3>4, AsioWithin
  <2> QED
    BY <1>9, <2>2, <2>3 DEF Asio!FirstHandler
<1>10. CASE Asio!write_some_end
  <2>1. /\ call["writer"].pc = "write" /\ AsioNoBytes /\ closed' = closed
        /\ res' = [res EXCEPT !["writer"] = Asio!Outcome(call["writer"])]
        /\ call' = [call EXCEPT !["writer"] = Asio!Idle]
    BY <1>10 DEF Asio!write_some_end, AsioNoBytes
  <2>2. Asio!Idle \in AsioCall
    BY DEF Asio!Idle, AsioCall
  <2>3. /\ call' \in [Asio!Coroutines -> AsioCall] /\ call'["writer"] = Asio!Idle
        /\ \A d \in Asio!Coroutines \ {"writer"} : call'[d] = call[d]
    BY <2>1, <2>2 DEF AsioInv, AsioTyped
  <2> QED
    BY <2>1, <2>3, AsioEnds
<1>11. ASSUME NEW c \in Asio!Coroutines, Asio!close_frame_end(c) PROVE AsioInv'
  <2>1. /\ call[c].pc = "closeframe" /\ AsioNoBytes
        /\ Asio!shutdown(c, Asio!Outcome(call[c]) # "ok")
    BY <1>11 DEF Asio!close_frame_end, AsioNoBytes
  <2> QED
    BY <2>1, AsioShutdown
<1>12. ASSUME NEW c \in Asio!Coroutines, Asio!ssl_shutdown_end(c) PROVE AsioInv'
  <2>1. /\ call[c].pc = "sslshut" /\ AsioNoBytes /\ closed' = closed /\ res' = res
        /\ call' = [Asio!Closed(call) EXCEPT ![c] = Asio!Idle]
    BY <1>12 DEF Asio!ssl_shutdown_end, Asio!close_socket, AsioNoBytes
  <2>2. \A d \in Asio!Coroutines :
          \/ Asio!Closed(call)[d] = call[d]
          \/ call[d].op = "pending" /\ Asio!Closed(call)[d] = Asio!Aborted(call[d])
    BY DEF Asio!Closed
  <2>3. Asio!Idle \in AsioCall
    BY DEF Asio!Idle, AsioCall
  <2>4. \A d \in Asio!Coroutines : Asio!Closed(call)[d] \in AsioCall
    BY <1>1, <2>2, AsioAborted
  <2>5. DOMAIN Asio!Closed(call) = Asio!Coroutines
    BY DEF Asio!Closed
  <2>6. /\ call' \in [Asio!Coroutines -> AsioCall] /\ call'[c] = Asio!Idle
        /\ \A d \in Asio!Coroutines \ {c} :
             \/ call'[d] = call[d]
             \/ call[d].op = "pending" /\ call'[d] = Asio!Aborted(call[d])
    BY <2>1, <2>2, <2>3, <2>4, <2>5
  <2> QED
    BY <2>1, <2>6, AsioEnds
<1> QED
  BY <1>2, <1>3, <1>4, <1>5, <1>6, <1>7, <1>8, <1>9, <1>10, <1>11, <1>12, AsioCompletes,
     AsioReadEnds DEF Asio!Next, Asio!Step

-----------------------------------------------------------------------------
(* What the invariants give *)

LEMMA TcpStep == ASSUME TcpInv, Tcp!Next PROVE TcpInv'
  BY TcpTypedStep, TcpHoldersStep, TcpOwnerStep, TcpEndedStep, TcpConnectedStep DEF TcpInv

LEMMA TlsStep == ASSUME TlsInv, Tls!Next PROVE TlsInv'
  BY TlsOwnerStep, TlsResultStep DEF TlsInv

LEMMA TcpOneOwner == ASSUME TcpInv PROVE Tcp!OneOwner
<1>1. ASSUME NEW d \in Tcp!Fds, table[d] = "ours" PROVE \E o \in Objects : Tcp!Holders(d) = {o}
  <2>1. PICK o \in Objects : obj[o] = "live" /\ fd[o] = d
    BY <1>1 DEF TcpInv, TcpOwner
  <2>2. d # Tcp!None
    BY Bounds DEF Tcp!Fds, Tcp!None
  <2>3. ASSUME NEW p \in Objects, fd[p] = d, obj[p] # "dead" PROVE p = o
    BY <2>1, <2>2, <2>3 DEF TcpInv, TcpTyped, TcpHolders
  <2>4. Tcp!Holders(d) = {o}
    BY <2>1, <2>3 DEF Tcp!Holders
  <2> QED
    BY <2>4
<1> QED
  BY <1>1 DEF Tcp!OneOwner, TcpInv, TcpOwner

LEMMA TcpEndIsReal == ASSUME TcpInv, Tcp!Next PROVE Tcp!EndOfStreamIsReal
<1> SUFFICES ASSUME res' = "closed", pc # "idle"
             PROVE  avail = 0 /\ (fin \/ link = "shut")
  BY DEF Tcp!EndOfStreamIsReal
<1>1. CASE res = "closed"
  <2>1. call.on \in Objects /\ obj[call.on] = "live"
    BY DEF TcpInv, TcpTyped, TcpEnded
  <2> QED
    BY <1>1, <2>1 DEF TcpInv, TcpEnded
<1>2. CASE res # "closed"
  <2>1. Tcp!recv
    BY <1>2 DEF Tcp!Next, Tcp!User, Tcp!Step, Tcp!init, Tcp!connect, Tcp!wait_readable,
       Tcp!read_some, Tcp!write_some, Tcp!Usable, Tcp!shutdown, Tcp!close, Tcp!destroy,
       Tcp!move, Tcp!connect_start, Tcp!connect_finish, Tcp!select_timeout,
       Tcp!select_ready, Tcp!send, Tcp!select_failed, Tcp!Peer, Tcp!Expire, Tcp!Others,
       Tcp!Return
  <2> QED
    BY <1>2, <2>1 DEF Tcp!recv, Tcp!Return, Tcp!Readable
<1> QED
  BY <1>1, <1>2

LEMMA TlsOneOwner == ASSUME TlsInv PROVE Tls!CallbacksReachOwner
<1> SUFFICES ASSUME heap
             PROVE  \E o \in Objects : /\ \A p \in Objects : ssl[p] # "null" <=> p = o
                                       /\ obj[o] = "live" /\ ex = o
  BY DEF Tls!CallbacksReachOwner
<1>1. PICK o \in Objects : ssl[o] # "null"
  BY DEF TlsInv, TlsOwner
<1>2. obj[o] = "live" /\ ex = o
  BY <1>1 DEF TlsInv, TlsOwner
<1>3. \A p \in Objects : ssl[p] # "null" <=> p = o
  BY <1>1, <1>2 DEF TlsInv, TlsOwner
<1> QED
  BY <1>2, <1>3

LEMMA TlsErrorIsOwn == ASSUME TlsInv, Tls!Next PROVE Tls!SslErrorIsOwn
<1> SUFFICES ASSUME res' = "ssl error", pc = "ssl" PROVE tls' = "broken"
  BY DEF Tls!SslErrorIsOwn
<1>1. res = "none"
  BY DEF TlsInv, TlsResult
<1>2. TlsLoop
  BY <1>1 DEF Tls!Next, Tls!User, Tls!Step, TlsLoop, Tls!init, Tls!connect, Tls!shutdown,
     Tls!close, Tls!destroy, Tls!set_verify_peer, Tls!read_write, Tls!Established, Tls!move,
     Tls!Live, Tls!ssl_select, Tls!loop_check, Tls!connect_verify, Tls!Peer,
     Tls!OtherErrors, Tls!Expire
<1> QED
  BY <1>1, <1>2, TlsLoopStep

LEMMA AsioPromises == ASSUME AsioInv PROVE Asio!NothingLostSilently /\ Asio!TimeoutIsReal
<1>1. Asio!TimeoutIsReal
  BY DEF AsioInv, AsioTimed, Asio!TimeoutIsReal
<1>2. ASSUME call["reader"].pc = "read", Asio!Resumes("reader"),
             Asio!Outcome(call["reader"]) = "ok"
      PROVE  call["reader"].n > 0
  BY <1>2 DEF AsioInv, AsioBytesKept, Asio!Resumes, Asio!Outcome, AsioTyped, AsioCall,
     Asio!Coroutines
<1> QED
  BY <1>1, <1>2 DEF Asio!NothingLostSilently, AsioInv, AsioBytesKept

-----------------------------------------------------------------------------
(* The system: the transport that was chosen keeps its invariant *)

Inv ==
  /\ which = "tcp" => TcpInv
  /\ which = "tls" => TlsInv
  /\ which = "asio" => AsioInv

LEMMA Invariance == Spec => []Inv
<1>1. Init => Inv
  BY TcpInitially, TlsInitially, AsioInitially DEF Init, InitTcp, InitTls, InitAsio, Inv
<1>2. ASSUME Inv, [Next]_vars PROVE Inv'
  <2>1. CASE AsTcp /\ Tcp!Next
    BY <1>2, <2>1, TcpStep DEF AsTcp, Inv
  <2>2. CASE AsTls /\ Tls!Next
    BY <1>2, <2>2, TlsStep DEF AsTls, Inv
  <2>3. CASE AsAsio /\ Asio!Next
    BY <1>2, <2>3, AsioStep DEF AsAsio, Inv
  <2>4. CASE UNCHANGED vars
    BY <1>2, <2>4 DEF vars, notTcp, Inv, TcpInv, TcpTyped, TcpHolders, TcpOwner, TcpEnded,
       Tcp!ConnectedIsReal, TlsInv, TlsOwner, TlsResult, Tls!VerifiedIsVerified, AsioInv,
       AsioTyped, AsioTurns, AsioBytesKept
  <2> QED
    BY <1>2, <2>1, <2>2, <2>3, <2>4 DEF Next
<1> QED
  BY <1>1, <1>2, PTL DEF Spec

(* A descriptor opened by TcpSocket::init has one owner through moves, failed
   inits, failed closes and destruction, and so has the SSL structure of an
   OpenSslSocket, whose callbacks lead to that owner: for any number of objects
   and descriptors. *)
THEOREM TransportsOneOwner == Spec => []OneOwner
<1>1. Inv => OneOwner
  BY TcpOneOwner, TlsOneOwner DEF Inv, OneOwner
<1> QED
  BY <1>1, Invariance, PTL

(* A TcpSocket that says it is connected is, and OpenSslSocket::connect with
   verification has succeeded only for a server with a trusted certificate for
   this host. *)
THEOREM TransportsConnectedIsReal == Spec => []ConnectedIsReal
<1>1. Inv => ConnectedIsReal
  BY DEF Inv, ConnectedIsReal, TcpInv, TlsInv, TlsResult
<1> QED
  BY <1>1, Invariance, PTL

(* The end of the stream, an SSL error and a timeout are reported only when they
   have happened to this connection and to this call. *)
THEOREM TransportsReportsAreTrue == Spec => ReportsAreTrue
<1> DEFINE Report == /\ which = "tcp" => Tcp!EndOfStreamIsReal
                     /\ which = "tls" => Tls!SslErrorIsOwn
                     /\ which = "asio" => Asio!TimeoutIsReal
<1>1. Inv /\ [Next]_vars => [Report]_vars
  BY TcpEndIsReal, TlsErrorIsOwn, AsioPromises DEF Inv, Next, AsTcp, AsTls, AsAsio
<1>2. ReportsAreTrue <=> [][Report]_vars
  BY DEF ReportsAreTrue
<1> QED
  BY <1>1, <1>2, Invariance, PTL DEF Spec

(* AsioSocket: whatever the timers, the server and the other coroutine do while
   a read is pending, a byte that has been taken from the connection reaches the
   reader unless its call has failed, and a read that succeeds returns one. *)
THEOREM TransportsNothingLostSilently == Spec => []NothingLostSilently
<1>1. Inv => NothingLostSilently
  BY AsioPromises DEF Inv, NothingLostSilently
<1> QED
  BY <1>1, Invariance, PTL
=============================================================================
