--------------------------- MODULE OutgoingQueue ---------------------------
(***************************************************************************)
(* The outgoing queue of src/consensus/outgoing_queue.go: a buffered Go    *)
(* channel of capacity Cap, goroutines calling Add (drop the head while    *)
(* the channel is full, then send), WORKER_CONCURRENCY workers ranging     *)
(* over the channel and posting each parcel, and Start, which closes the   *)
(* channel when the context is cancelled.                                  *)
(*                                                                         *)
(* A parcel is named by the number of the Add that made it.  A post       *)
(* either reaches the peer or is lost (expired, or the HTTP request        *)
(* failed); neither is retried.  Each step of a goroutine below is one     *)
(* channel operation or one read of len(q.queue).                         *)
(***************************************************************************)
EXTENDS Naturals, Sequences

CONSTANTS
  Producers,    \* goroutines that call Add
  Workers,      \* the outgoingWorker goroutines
  Cap,          \* cap(q.queue)
  MaxParcels,   \* Adds explored in a behaviour
  MayClose      \* whether the context of Start may be cancelled

ASSUME Cap \in Nat \ {0} /\ MaxParcels \in Nat /\ MayClose \in BOOLEAN

Parcels == 1..MaxParcels
NoParcel == 0

VARIABLES
  queue,      \* the contents of the buffered channel, oldest first
  closed,     \* close(q.queue) has run
  pc,         \* pc[p]: where producer p is in Add
  parcel,     \* parcel[p]: the parcel Add of p is enqueueing
  made,       \* parcels created by Add so far
  wpc,        \* wpc[w]: "recv" (in range), "post", or "exited"
  held,       \* held[w]: the parcel worker w is posting
  delivered,  \* parcels posted to their peer
  lost,       \* parcels a worker dropped (expired or failed post)
  dropped,    \* parcels Add dropped from the head
  crashed     \* a goroutine panicked

vars == <<queue, closed, pc, parcel, made, wpc, held,
          delivered, lost, dropped, crashed>>

TypeOK ==
  /\ queue \in Seq(Parcels) /\ Len(queue) <= Cap
  /\ closed \in BOOLEAN
  /\ pc \in [Producers -> {"idle", "check", "drop", "send"}]
  /\ parcel \in [Producers -> Parcels \cup {NoParcel}]
  /\ made \in 0..MaxParcels
  /\ wpc \in [Workers -> {"recv", "post", "exited"}]
  /\ held \in [Workers -> Parcels \cup {NoParcel}]
  /\ delivered \subseteq Parcels /\ lost \subseteq Parcels /\ dropped \subseteq Parcels
  /\ crashed \in BOOLEAN

Init ==
  /\ queue = <<>>
  /\ closed = FALSE
  /\ pc = [p \in Producers |-> "idle"]
  /\ parcel = [p \in Producers |-> NoParcel]
  /\ made = 0
  /\ wpc = [w \in Workers |-> "recv"]
  /\ held = [w \in Workers |-> NoParcel]
  /\ delivered = {} /\ lost = {} /\ dropped = {}
  /\ crashed = FALSE

Running == ~crashed

-----------------------------------------------------------------------------
(* Add(to, msg, rawMsg, relay).                                           *)

\* Add is called with a new parcel.
AddBegin(p) ==
  /\ Running
  /\ pc[p] = "idle"
  /\ made < MaxParcels
  /\ made' = made + 1
  /\ parcel' = [parcel EXCEPT ![p] = made + 1]
  /\ pc' = [pc EXCEPT ![p] = "check"]
  /\ UNCHANGED <<queue, closed, wpc, held, delivered, lost, dropped, crashed>>

\* for len(q.queue) >= cap(q.queue): one read of len.
FullCheck(p) ==
  /\ Running
  /\ pc[p] = "check"
  /\ pc' = [pc EXCEPT ![p] = IF Len(queue) >= Cap THEN "drop" ELSE "send"]
  /\ UNCHANGED <<queue, closed, parcel, made, wpc, held,
                 delivered, lost, dropped, crashed>>

\* p := <-q.queue blocks while the channel is empty and open.  On a closed
\* and empty channel it yields nil, and p.msg.GetType() panics.
DropHead(p) ==
  /\ Running
  /\ pc[p] = "drop"
  /\ queue # <<>> \/ closed
  /\ IF queue = <<>>
     THEN /\ crashed' = TRUE
          /\ UNCHANGED <<queue, pc, dropped>>
     ELSE /\ queue' = Tail(queue)
          /\ dropped' = dropped \cup {Head(queue)}
          /\ pc' = [pc EXCEPT ![p] = "check"]
          /\ UNCHANGED crashed
  /\ UNCHANGED <<closed, parcel, made, wpc, held, delivered, lost>>

\* q.queue <- parcel blocks while the channel is full; a send on a closed
\* channel panics.
Enqueue(p) ==
  /\ Running
  /\ pc[p] = "send"
  /\ Len(queue) < Cap \/ closed
  /\ IF closed
     THEN /\ crashed' = TRUE
          /\ UNCHANGED <<queue, pc, parcel>>
     ELSE /\ queue' = Append(queue, parcel[p])
          /\ pc' = [pc EXCEPT ![p] = "idle"]
          /\ parcel' = [parcel EXCEPT ![p] = NoParcel]
          /\ UNCHANGED crashed
  /\ UNCHANGED <<closed, made, wpc, held, delivered, lost, dropped>>

-----------------------------------------------------------------------------
(* Start and outgoingWorker.Run.                                          *)

\* <-ctx.Done(); close(q.queue).
Close ==
  /\ MayClose
  /\ Running
  /\ ~closed
  /\ closed' = TRUE
  /\ UNCHANGED <<queue, pc, parcel, made, wpc, held,
                 delivered, lost, dropped, crashed>>

\* Mutant of WorkerRecv: the loop ends as soon as the channel is empty,
\* open or not.
WorkerRecvUntilEmpty(w) ==
  /\ Running
  /\ wpc[w] = "recv"
  /\ IF queue = <<>>
     THEN /\ wpc' = [wpc EXCEPT ![w] = "exited"]
          /\ UNCHANGED <<queue, held>>
     ELSE /\ queue' = Tail(queue)
          /\ held' = [held EXCEPT ![w] = Head(queue)]
          /\ wpc' = [wpc EXCEPT ![w] = "post"]
  /\ UNCHANGED <<closed, pc, parcel, made, delivered, lost, dropped, crashed>>

\* for parcel := range queue: take the head, or leave the loop once the
\* channel is closed and drained.
WorkerRecv(w) ==
  /\ Running
  /\ wpc[w] = "recv"
  /\ queue # <<>> \/ closed
  /\ IF queue = <<>>
     THEN /\ wpc' = [wpc EXCEPT ![w] = "exited"]
          /\ UNCHANGED <<queue, held>>
     ELSE /\ queue' = Tail(queue)
          /\ held' = [held EXCEPT ![w] = Head(queue)]
          /\ wpc' = [wpc EXCEPT ![w] = "post"]
  /\ UNCHANGED <<closed, pc, parcel, made, delivered, lost, dropped, crashed>>

\* The body of the loop: an expired parcel is skipped; otherwise
\* client.Post either succeeds or fails (the client is rebuilt).  Either
\* way the parcel is done with.
WorkerPost(w) ==
  /\ Running
  /\ wpc[w] = "post"
  /\ \/ delivered' = delivered \cup {held[w]} /\ UNCHANGED lost
     \/ lost' = lost \cup {held[w]} /\ UNCHANGED delivered
  /\ held' = [held EXCEPT ![w] = NoParcel]
  /\ wpc' = [wpc EXCEPT ![w] = "recv"]
  /\ UNCHANGED <<queue, closed, pc, parcel, made, dropped, crashed>>

Next ==
  \/ \E p \in Producers : AddBegin(p) \/ FullCheck(p) \/ DropHead(p) \/ Enqueue(p)
  \/ Close
  \/ \E w \in Workers : WorkerRecv(w) \/ WorkerPost(w)

Spec == Init /\ [][Next]_vars

\* Every goroutine that can take a step eventually does (the Go scheduler
\* runs every runnable goroutine).
Fairness ==
  /\ \A p \in Producers : WF_vars(FullCheck(p) \/ DropHead(p) \/ Enqueue(p))
  /\ \A w \in Workers : WF_vars(WorkerRecv(w) \/ WorkerPost(w))

FairSpec == Spec /\ Fairness

-----------------------------------------------------------------------------
(* Properties.                                                            *)

\* A parcel in the channel is eventually taken off it, by a worker that
\* posts it or by Add dropping it, unless a goroutine panicked first: the
\* workers' range loop keeps receiving while the channel is open, and
\* drains it after close.
InChannel(x) == \E i \in 1..Len(queue) : queue[i] = x
ParcelsLeaveChannel ==
  \A x \in Parcels :
    InChannel(x) ~> (x \in delivered \cup lost \cup dropped \/ crashed)

\* Neither Add nor a worker panics (send on, or nil receive from, the
\* closed channel).
NoPanic == ~crashed

\* Every call of Add returns: the producer is never left blocked in the
\* drop loop's receive.
AddReturns ==
  \A p \in Producers : pc[p] = "check" ~> pc[p] = "idle"
====
