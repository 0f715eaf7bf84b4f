------------------------------- MODULE Meshcat -------------------------------
(***************************************************************************)
(* The server of meshcat (viewer/meshcat/server.py) between Python and the *)
(* pages that show the scene: pages of a browser, by websockets, and cells *)
(* of a notebook, by comms that the kernel forwards (wrapper.py).          *)
(*                                                                         *)
(* Python sends one request at a time and waits for its reply.  `ready' is *)
(* passed on to all the pages; the server replies once it has gathered as  *)
(* many acknowledgements as there are pages.  A comm that is silent for a  *)
(* period of the watchdog is purged.                                       *)
(*                                                                         *)
(* Messages of one page arrive in order, whatever the delay; a page that   *)
(* closes says so, unless it is a comm that vanishes.                      *)
(***************************************************************************)
EXTENDS Naturals, Sequences, FiniteSets

CONSTANTS Webs,         \* pages of browsers
          Comms,        \* cells of a notebook
          MaxRequests,  \* bound: ready requests
          WebsStay,     \* whether websockets open and close between requests only
          None

ASSUME MeshcatAssumption ==
    /\ Webs \cap Comms = {} /\ WebsStay \in BOOLEAN /\ MaxRequests \in Nat

Pages == Webs \cup Comms

VARIABLES server,  \* pools and messages of the server
          page,    \* every page: its status, and the ready requests it has to answer
          wire,    \* messages of every page that the server has not handled
          caller   \* Python: the request it waits for, and the last reply

meshVars == <<server, page, wire, caller>>

MeshInit ==
    /\ server = [webs |-> {}, comms |-> {}, watched |-> {}, webAcks |-> <<>>,
                 commAcks |-> {}, waiting |-> FALSE]
    /\ page = [p \in Pages |-> [status |-> "new", todo |-> <<>>]]
    /\ wire = [p \in Pages |-> <<>>]
    /\ caller = [pc |-> "idle", id |-> 0, reply |-> None]

Send(p, kind) == wire' = [wire EXCEPT ![p] = Append(@, [kind |-> kind, id |-> 0])]

---------------------------------------------------------------------------
(* The pages.                                                              *)

MayMove(p) == p \in Comms \/ ~WebsStay \/ caller.pc \in {"idle", "wait"}

OpenPage(p) ==
    /\ page[p].status = "new" /\ MayMove(p)
    /\ page' = [page EXCEPT ![p].status = "open"] /\ Send(p, "open")
    /\ UNCHANGED <<server, caller>>

ClosePage(p) ==
    /\ page[p].status = "open" /\ MayMove(p)
    /\ page' = [page EXCEPT ![p] = [status |-> "closed", todo |-> <<>>]] /\ Send(p, "close")
    /\ UNCHANGED <<server, caller>>

\* The cell of a notebook is gone and nobody says so.
Vanish(p) ==
    /\ p \in Comms /\ page[p].status = "open"
    /\ page' = [page EXCEPT ![p] = [status |-> "closed", todo |-> <<>>]]
    /\ UNCHANGED <<server, wire, caller>>

Answer(p) ==
    /\ page[p].todo # <<>>
    /\ page' = [page EXCEPT ![p].todo = Tail(@)]
    /\ wire' = [wire EXCEPT ![p] = Append(@, [kind |-> "ack", id |-> Head(page[p].todo)])]
    /\ UNCHANGED <<server, caller>>

SayAlive(p) ==
    /\ p \in Comms /\ page[p].status = "open"
    /\ \A k \in DOMAIN wire[p] : wire[p][k].kind # "watchdog"
    /\ Send(p, "watchdog") /\ UNCHANGED <<server, page, caller>>

---------------------------------------------------------------------------
(* The server.                                                             *)

Acks(s) == {s.webAcks[k] : k \in DOMAIN s.webAcks} \cup {a[2] : a \in s.commAcks}

\* Variant: comms are not counted.
GatheredFromWebs(s) ==
    IF s.waiting /\ Len(s.webAcks) = Cardinality(s.webs)
      THEN [state |-> [s EXCEPT !.waiting = FALSE, !.webAcks = <<>>, !.commAcks = {}],
            reply |-> <<Acks(s)>>]
      ELSE [state |-> s, reply |-> <<>>]

\* As many acknowledgements as pages are there: they are sent as one reply.
Gathered(s) ==
    IF /\ s.waiting /\ Len(s.webAcks) = Cardinality(s.webs)
       /\ Cardinality(s.commAcks) = Cardinality(s.comms)
      THEN [state |-> [s EXCEPT !.waiting = FALSE, !.webAcks = <<>>, !.commAcks = {}],
            reply |-> <<Acks(s)>>]
      ELSE [state |-> s, reply |-> <<>>]

\* What was replied: the requests the acknowledgements answer, and the pages without one.
Deliver(s, gathered) ==
    /\ server' = gathered.state
    /\ caller' = IF gathered.reply = <<>> THEN caller
                 ELSE [caller EXCEPT !.pc = IF @ = "ready" THEN "idle" ELSE "confused",
                                     !.reply = [acks |-> Head(gathered.reply),
                                                pages |-> s.webs \cup s.comms,
                                                from |-> {a[1] : a \in s.commAcks},
                                                webs |-> Len(s.webAcks)]]

\* handle_web, and the opening and the closing of a websocket.
HandleWeb(p) ==
    LET m == Head(wire[p])
        acked == [server EXCEPT !.webAcks = Append(@, m.id)]
    IN /\ p \in Webs /\ wire[p] # <<>>
       /\ wire' = [wire EXCEPT ![p] = Tail(@)]
       /\ \/ m.kind = "open" /\ server' = [server EXCEPT !.webs = @ \cup {p}] /\ UNCHANGED caller
          \/ m.kind = "close" /\ server' = [server EXCEPT !.webs = @ \ {p}] /\ UNCHANGED caller
          \/ m.kind = "ack" /\ Deliver(acked, Gathered(acked))
       /\ UNCHANGED page

\* Variant: the message of a comm that leaves the pool is kept.
WithoutCommsButAcks(s, gone) == [s EXCEPT !.comms = @ \ gone]

WithoutComms(s, gone) ==
    [s EXCEPT !.comms = @ \ gone, !.commAcks = {a \in @ : a[1] \notin gone}]

AckedBy(s, p, id) ==
    IF p \in s.comms THEN [s EXCEPT !.commAcks = {a \in @ : a[1] # p} \cup {<<p, id>>}] ELSE s

\* handle_comm.  A comm that opens while acknowledgements are gathered is asked for its own.
HandleComm(p) ==
    LET m == Head(wire[p])
        Handle(after) == Deliver(after, Gathered(after))
    IN /\ p \in Comms /\ wire[p] # <<>>
       /\ wire' = [wire EXCEPT ![p] = Tail(@)]
       /\ page' = IF m.kind = "open" /\ server.waiting /\ page[p].status = "open"
                    THEN [page EXCEPT ![p].todo = Append(@, caller.id)] ELSE page
       /\ \/ m.kind = "open" /\ Handle([server EXCEPT !.comms = @ \cup {p}, !.watched = @ \cup {p}])
          \/ m.kind = "close" /\ Handle(WithoutComms(server, {p}))
          \/ m.kind = "ack" /\ Handle(AckedBy(server, p, m.id))
          \/ m.kind = "watchdog" /\ server' = [server EXCEPT !.watched = @ \cup {p}] /\ UNCHANGED caller

\* watchdog_comm.
Watchdog ==
    LET s == [WithoutComms(server, server.comms \ server.watched) EXCEPT !.watched = {}]
    IN Deliver(s, Gathered(s)) /\ UNCHANGED <<page, wire>>

---------------------------------------------------------------------------
(* MeshcatWrapper.wait: a page is waited for if there must be one, then    *)
(* all of them are asked whether they are ready.                           *)

AskPage ==
    /\ caller.pc = "idle" /\ caller.id < MaxRequests
    /\ caller' = [caller EXCEPT !.pc = "wait"] /\ UNCHANGED <<server, page, wire>>

\* wait_for_websockets, again every 0.1 s until there is a page.
ReplyPage ==
    /\ caller.pc = "wait" /\ server.webs \cup server.comms # {}
    /\ caller' = [caller EXCEPT !.pc = "ask"] /\ UNCHANGED <<server, page, wire>>

\* A comm the kernel no longer has is said to be closed when something is sent to it.
Bounced(gone) ==
    [p \in Pages |-> IF p \in gone THEN Append(wire[p], [kind |-> "close", id |-> 0]) ELSE wire[p]]

AskReady ==
    /\ caller.pc \in {"idle", "ask"} /\ caller.id < MaxRequests
    /\ WebsStay => \A p \in Webs : wire[p] = <<>>
    /\ IF server.webs \cup server.comms = {}
         THEN caller' = [caller EXCEPT !.pc = "idle", !.reply = None] /\ UNCHANGED <<server, page, wire>>
         ELSE /\ server' = [server EXCEPT !.waiting = TRUE]
              /\ page' = [p \in Pages |->
                            IF p \in server.webs \cup server.comms /\ page[p].status = "open"
                              THEN [page[p] EXCEPT !.todo = Append(@, caller.id + 1)] ELSE page[p]]
              /\ caller' = [pc |-> "ready", id |-> caller.id + 1, reply |-> None]
              /\ \E gone \in SUBSET {p \in server.comms : page[p].status = "closed"} :
                    wire' = Bounced(gone)

MeshNext ==
    \/ Watchdog \/ AskPage \/ ReplyPage \/ AskReady
    \/ \E p \in Pages : \/ OpenPage(p) \/ ClosePage(p) \/ Vanish(p) \/ Answer(p) \/ SayAlive(p)
                        \/ HandleWeb(p) \/ HandleComm(p)

\* The server handles what it receives and its timers; a page that is open answers.
MeshFairness ==
    /\ WF_meshVars(Watchdog) /\ WF_meshVars(ReplyPage) /\ WF_meshVars(AskReady)
    /\ \A p \in Pages : WF_meshVars(Answer(p)) /\ WF_meshVars(HandleWeb(p) \/ HandleComm(p))

MeshSpec == MeshInit /\ [][MeshNext]_meshVars /\ MeshFairness

---------------------------------------------------------------------------
\* A ready request gets its reply, whatever comm opens, closes or vanishes meanwhile.
ReadyIsAnswered == (caller.pc = "ready") ~> (caller.pc = "idle")

\* The server never replies to a request that was not made: the socket would fail, and so
\* would all the requests to come.
OneReplyPerRequest == caller.pc # "confused"

\* The acknowledgements of a reply answer this very request, one from each of the pages
\* there were: Python does not read the state of a page that lags behind.
RepliesAreFresh ==
    caller.reply # None =>
      /\ caller.reply.acks \subseteq {caller.id}
      /\ caller.reply.from = caller.reply.pages \cap Comms
      /\ caller.reply.webs = Cardinality(caller.reply.pages \cap Webs)

\* Every request has its own reply.
RepliesToRequests == OneReplyPerRequest /\ RepliesAreFresh
=============================================================================
