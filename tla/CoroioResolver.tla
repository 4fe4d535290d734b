--------------------------- MODULE CoroioResolver ---------------------------
(***************************************************************************)
(* The name resolver of coroio (resolver.cpp): coroutines of one event     *)
(* loop that share its tables.  SenderTask sends queued requests,          *)
(* ReceiverTask hands answers to those who wait for them, TimeoutsTask     *)
(* ends requests after two seconds, and Resolve() is called by any number  *)
(* of clients.  Handles are resumed inline: a client that is resumed may   *)
(* call Resolve() again, and that resumes the sender, before the next      *)
(* client of the same request is resumed.                                  *)
(*                                                                         *)
(* Datagrams may be lost, duplicated and reordered.                        *)
(***************************************************************************)
EXTENDS Naturals, SequencesExt

CONSTANTS
  Clients,
  Requests,   (* pairs of a name and a record type *)
  XidMod      (* 65535; no more queries than that are made while a datagram lives *)

VARIABLES
  queue,        (* AddResolveQueue *)
  timeouts,     (* TimeoutsQueue; due: its time has come *)
  waitingAddrs, (* WaitingAddrs: no entry is the empty sequence *)
  results,      (* Results: the request that the addresses are for, or an exception *)
  inflight,     (* Inflight *)
  xid,          (* Xid *)
  sender,       (* SenderTask: asleep, running, writing or dead *)
  suspended,    (* SenderSuspended is set *)
  receiver,     (* ReceiverTask: alive or dead *)
  resuming,     (* handles that ResumeWaiters has still to resume *)
  left,         (* entries TimeoutsTask has still to look at in this round *)
  asks,         (* what each client waits for *)
  queries       (* datagrams that were sent: the answer comes never, once, or often *)

tables == <<queue, timeouts, waitingAddrs>>
send == <<sender, suspended, inflight, xid, queries>>
vars == <<tables, results, send, receiver, resuming, left, asks>>

Xids == 1..XidMod
None == "none"

(* The constructor starts the tasks; the sender ends if its Connect() throws. *)
Init ==
  /\ queue = <<>> /\ timeouts = <<>> /\ waitingAddrs = [r \in Requests |-> <<>>]
  /\ results = [r \in Requests |-> None]
  /\ inflight = [x \in Xids |-> None] /\ xid = 1
  /\ sender \in {"asleep", "dead"} /\ suspended = (sender = "asleep") /\ receiver = "alive"
  /\ resuming = <<>> /\ left = 0
  /\ asks = [c \in Clients |-> None] /\ queries = {}

(* No coroutine is running: the event loop may resume one. *)
Quiet == resuming = <<>> /\ sender # "running" /\ left = 0

-----------------------------------------------------------------------------

(* Mutant: a deadline is set only for a name that has no result yet. *)
DeadlineMutant(r) == IF results[r] = None THEN Append(timeouts, [req |-> r, due |-> FALSE]) ELSE timeouts

Deadline(r) == Append(timeouts, [req |-> r, due |-> FALSE])

(* Resolve(): the first to ask queues the request and its deadline; the rest
   wait with it.  There is room for the query. *)
Resolve(c, r) ==
  /\ waitingAddrs[r] = <<>> =>
       Len(queue) < Cardinality({x \in Xids : inflight[x] = None})
  /\ IF waitingAddrs[r] = <<>>
     THEN queue' = Append(queue, r) /\ timeouts' = Deadline(r)
     ELSE UNCHANGED <<queue, timeouts>>
  /\ waitingAddrs' = [waitingAddrs EXCEPT ![r] = Append(@, c)]
  /\ asks' = [asks EXCEPT ![c] = r]
  /\ sender' = IF suspended THEN "running" ELSE sender   (* ResumeSender *)
  /\ UNCHANGED <<suspended, inflight, xid, queries>>

Call(c) ==
  /\ Quiet /\ asks[c] = None
  /\ \E r \in Requests : Resolve(c, r)
  /\ UNCHANGED <<results, receiver, resuming, left>>

(* The next waiter takes the result, and its caller may ask again at once. *)
Resume ==
  /\ resuming # <<>> /\ sender # "running"
  /\ LET c == Head(resuming) IN
     \/ asks' = [asks EXCEPT ![c] = None] /\ UNCHANGED <<tables, send>>
     \/ \E r \in Requests : Resolve(c, r)
  /\ resuming' = Tail(resuming)
  /\ UNCHANGED <<results, receiver, left>>

ResumeWaiters(result, r) ==
  IF r # None /\ waitingAddrs[r] # <<>>
  THEN /\ results' = [results EXCEPT ![r] = result]
       /\ resuming' = waitingAddrs[r]
       /\ waitingAddrs' = [waitingAddrs EXCEPT ![r] = <<>>]
  ELSE UNCHANGED <<results, resuming, waitingAddrs>>

-----------------------------------------------------------------------------
(* SenderTask *)

(* Mutant: the number is not advanced. *)
NextXidMutant(x) == x

NextXid(x) == 1 + ((x + 1) % XidMod)

(* Mutant: SenderSuspended stays set. *)
ClearedMutant == TRUE

Cleared == FALSE

(* CreatePacket: the number and the question *)
Packet == [xid |-> xid, req |-> Head(queue)]

SenderTask ==
  /\ sender = "running"
  /\ \/ /\ queue = <<>>
        /\ sender' = "asleep" /\ suspended' = TRUE
        /\ UNCHANGED <<queue, inflight, xid, queries>>
     \/ /\ queue # <<>>
        /\ suspended' = Cleared
        /\ queue' = Tail(queue)
        /\ inflight' = [inflight EXCEPT ![xid] = Head(queue)]
        /\ xid' = NextXid(xid)
        /\ \/ sender' = "running" /\ queries' = queries \cup {Packet}
           \/ sender' \in {"writing", "dead"} /\ UNCHANGED queries
  /\ UNCHANGED <<timeouts, waitingAddrs, results, receiver, resuming, left, asks>>

(* The socket is writable again: the packet of the last request goes out. *)
SenderResumed ==
  /\ Quiet /\ sender = "writing"
  /\ \/ sender' = "running"
        /\ queries' \in {queries \cup {[xid |-> x, req |-> inflight[x]]} :
                           x \in {y \in Xids : inflight[y] # None /\ NextXid(y) = xid}}
     \/ sender' = "dead" /\ UNCHANGED queries
  /\ UNCHANGED <<tables, results, suspended, inflight, xid, receiver, resuming, left, asks>>

-----------------------------------------------------------------------------
(* ReceiverTask: an answer carries the number of its query and addresses of the
   name in it; one that is too short, or reports an error, makes an exception;
   an error of the socket ends the task. *)

ParsePacket(q, failed) == IF failed THEN "exception" ELSE q.req

ReceiverTask ==
  /\ Quiet /\ receiver = "alive"
  /\ \/ \E q \in queries, failed \in BOOLEAN :
          ResumeWaiters(ParsePacket(q, failed), inflight[q.xid]) /\ UNCHANGED receiver
     \/ receiver' = "dead" /\ UNCHANGED <<results, resuming, waitingAddrs>>
  /\ UNCHANGED <<queue, timeouts, send, left, asks>>

-----------------------------------------------------------------------------
(* TimeoutsTask *)

TimePasses ==
  /\ \E i \in DOMAIN timeouts :
       /\ ~timeouts[i].due /\ \A j \in 1..(i - 1) : timeouts[j].due
       /\ timeouts' = [timeouts EXCEPT ![i].due = TRUE]
  /\ UNCHANGED <<queue, waitingAddrs, results, send, receiver, resuming, left, asks>>

TimeoutsTask ==
  /\ Quiet /\ timeouts # <<>> /\ Head(timeouts).due
  /\ left' = Cardinality({i \in DOMAIN timeouts : timeouts[i].due})
  /\ UNCHANGED <<tables, results, send, receiver, resuming, asks>>

(* The front entry: Resolve() only adds at the end while it is looked at. *)
TimeoutsStep ==
  /\ left > 0 /\ resuming = <<>> /\ sender # "running"
  /\ left' = left - 1
  /\ ResumeWaiters("exception", Head(timeouts).req)
  /\ timeouts' = Tail(timeouts)
  /\ UNCHANGED <<queue, send, receiver, asks>>

-----------------------------------------------------------------------------

Next ==
  \/ \E c \in Clients : Call(c)
  \/ Resume \/ SenderTask \/ SenderResumed \/ ReceiverTask
  \/ TimePasses \/ TimeoutsTask \/ TimeoutsStep

(* The event loop resumes what is ready and time passes; nothing is assumed of
   the network. *)
Spec ==
  /\ Init /\ [][Next]_vars
  /\ WF_vars(Resume) /\ WF_vars(SenderTask) /\ WF_vars(TimePasses)
  /\ WF_vars(TimeoutsTask) /\ WF_vars(TimeoutsStep)

-----------------------------------------------------------------------------

(* Whoever is about to be resumed finds addresses of its own request, or an
   exception, also when answers are late, come twice or overtake each other
   and the waiters before it have asked again. *)
AnswerIsForRequest ==
  \A i \in DOMAIN resuming :
    results[asks[resuming[i]]] \in {asks[resuming[i]], "exception"}

(* SenderSuspended is set exactly while the sender sleeps, so that a call never
   resumes it inside its write, and it does not sleep while requests wait. *)
SenderInStep ==
  /\ sender # "running" => (suspended <=> sender = "asleep")
  /\ sender = "asleep" => queue = <<>>

Times(c, s) == Cardinality({i \in DOMAIN s : s[i] = c})

(* Every client that waits is in the list of its request exactly once or is
   about to be resumed, and that request has a deadline ahead (Resolve and
   ResumeWaiters). *)
WaitersAreKnown ==
  \A c \in Clients : asks[c] # None =>
    /\ Times(c, waitingAddrs[asks[c]]) + Times(c, resuming) = 1
    /\ Times(c, resuming) = 0 => \E i \in DOMAIN timeouts : timeouts[i].req = asks[c]

(* the Resolve() of client c has returned *)
Returned(c) == asks[c] = None

(* A request ends with "Timeout" when its own two seconds are over, not when
   those of an earlier request for the same name are: its own deadline is not
   still in the queue then. *)
TimeoutIsOwn ==
  [][left' < left /\ waitingAddrs[Head(timeouts).req] # <<>>
       => \A i \in DOMAIN timeouts \ {1} : timeouts[i].req # Head(timeouts).req]_vars
=============================================================================
