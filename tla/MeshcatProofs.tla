---------------------------- MODULE MeshcatProofs ----------------------------
(***************************************************************************)
(* Every request to the server of meshcat, and every request to its        *)
(* recorder, gets its own reply: for any number of pages, requests and     *)
(* calls, whatever page opens, closes or vanishes and however the process  *)
(* of the recorder ends.                                                   *)
(*                                                                         *)
(* The invariants are stated of a state given by its parts: the server     *)
(* handles a message, then it delivers its reply if it has gathered all    *)
(* the acknowledgements, and the invariant holds in between as well.       *)
(***************************************************************************)
EXTENDS MeshcatRecorder, FiniteSetTheorems, SequenceTheorems, TLAPS

Messages == [kind : {"open", "close", "ack", "watchdog"}, id : Nat]

Replies == [acks : SUBSET Nat, pages : SUBSET Pages, from : SUBSET Comms, webs : Nat]

Servers == [webs : SUBSET Webs, comms : SUBSET Comms, watched : SUBSET Comms,
            webAcks : Seq(Nat), commAcks : SUBSET (Comms \X Nat), waiting : BOOLEAN]

Callers == [pc : {"idle", "wait", "ask", "ready", "confused"}, id : Nat,
            reply : Replies \cup {None}]

PageStates == [status : {"new", "open", "closed"}, todo : Seq(Nat)]

MeshTypes(s, pg, w, c) ==
    /\ s \in Servers
    /\ IsFiniteSet(s.webs) /\ IsFiniteSet(s.comms)
    /\ pg \in [Pages -> PageStates]
    /\ w \in [Pages -> Seq(Messages)]
    /\ \A p \in Webs : \A k \in DOMAIN w[p] : w[p][k].kind # "watchdog"
    /\ c \in Callers

\* The server gathers acknowledgements while Python waits for them.
Turns(s, c) == c.pc # "confused" /\ (s.waiting <=> c.pc = "ready")

IsAck(m) == m.kind = "ack"

\* There is nothing to come from the page.
Quiet(p, pg, w) == pg[p].todo = <<>> /\ \A k \in DOMAIN w[p] : ~IsAck(w[p][k])

\* A comm of the pool owes one acknowledgement at most, of the current request, and none once
\* it has given it.
OwesOnce(p, s, pg, w, c) ==
    /\ pg[p].todo # <<>> => pg[p].todo = <<c.id>> /\ \A k \in DOMAIN w[p] : ~IsAck(w[p][k])
    /\ \A k \in DOMAIN w[p] : IsAck(w[p][k]) => w[p][k].id = c.id
    /\ \A j, k \in DOMAIN w[p] : IsAck(w[p][j]) /\ IsAck(w[p][k]) => j = k
    /\ ~s.waiting \/ <<p, c.id>> \in s.commAcks => Quiet(p, pg, w)

CommInv(p, s, pg, w, c) ==
    /\ pg[p].status = "new" => pg[p].todo = <<>> /\ w[p] = <<>> /\ p \notin s.comms
    /\ \A k \in DOMAIN w[p] : w[p][k].kind = "open" => k = 1 /\ p \notin s.comms /\ Quiet(p, pg, w)
    /\ p \in s.comms => OwesOnce(p, s, pg, w, c)

CommsInv(s, pg, w, c) ==
    /\ s.commAcks \subseteq s.comms \X {c.id}
    /\ ~s.waiting => s.commAcks = {}
    /\ \A p \in Comms : CommInv(p, s, pg, w, c)

\* A websocket that opens and closes between requests only.
OpenMessage == [kind |-> "open", id |-> 0]
CloseMessage == [kind |-> "close", id |-> 0]
AckMessage(k) == [kind |-> "ack", id |-> k]

WebAsked(p, s, pg, w, c) ==
    /\ p \in s.webs <=> pg[p].status = "open"
    /\ \/ pg[p].todo = <<>> /\ w[p] = <<>>
       \/ p \in s.webs /\ pg[p].todo = <<c.id>> /\ w[p] = <<>>
       \/ p \in s.webs /\ pg[p].todo = <<>> /\ w[p] = <<AckMessage(c.id)>>

WebIdle(p, s, pg, w) ==
    /\ pg[p].todo = <<>>
    /\ \/ pg[p].status \in {"new", "closed"} /\ p \notin s.webs /\ w[p] = <<>>
       \/ pg[p].status = "open" /\ p \notin s.webs /\ w[p] = <<OpenMessage>>
       \/ pg[p].status = "open" /\ p \in s.webs /\ w[p] = <<>>
       \/ pg[p].status = "closed" /\ p \notin s.webs /\ w[p] = <<OpenMessage, CloseMessage>>
       \/ pg[p].status = "closed" /\ p \in s.webs /\ w[p] = <<CloseMessage>>

\* The websockets that have given the acknowledgement they were asked for.
Done(s, pg, w) == {p \in s.webs : pg[p].todo = <<>> /\ w[p] = <<>>}

WebsInv(s, pg, w, c) ==
    /\ \A k \in DOMAIN s.webAcks : s.webAcks[k] = c.id
    /\ IF s.waiting THEN /\ \A p \in Webs : WebAsked(p, s, pg, w, c)
                         /\ Len(s.webAcks) = Cardinality(Done(s, pg, w))
       ELSE s.webAcks = <<>> /\ \A p \in Webs : WebIdle(p, s, pg, w)

\* What a reply holds, fresh if the websockets stay.
ReplyInv(c) ==
    c.reply # None =>
      /\ WebsStay => c.reply.acks \subseteq {c.id}
      /\ c.reply.from = c.reply.pages \cap Comms
      /\ c.reply.webs = Cardinality(c.reply.pages \cap Webs)

MeshInvOf(s, pg, w, c) ==
    /\ MeshTypes(s, pg, w, c)
    /\ Turns(s, c)
    /\ CommsInv(s, pg, w, c)
    /\ WebsStay => WebsInv(s, pg, w, c)
    /\ ReplyInv(c)

MeshInv == MeshInvOf(server, page, wire, caller)

---------------------------------------------------------------------------
(* Delivering.                                                             *)

With(c, x, r) == [c EXCEPT !.pc = x, !.reply = r]

Delivered(s, c) ==
    LET g == Gathered(s)
    IN IF g.reply = <<>> THEN c
       ELSE With(c, IF c.pc = "ready" THEN "idle" ELSE "confused",
                 [acks |-> Head(g.reply), pages |-> s.webs \cup s.comms,
                  from |-> {a[1] : a \in s.commAcks}, webs |-> Len(s.webAcks)])

IsGathered(s) ==
    /\ s.waiting /\ Len(s.webAcks) = Cardinality(s.webs)
    /\ Cardinality(s.commAcks) = Cardinality(s.comms)

AtRest(s) == [s EXCEPT !.waiting = FALSE, !.webAcks = <<>>, !.commAcks = {}]

ReplyOf(s) == [acks |-> Acks(s), pages |-> s.webs \cup s.comms,
               from |-> {a[1] : a \in s.commAcks}, webs |-> Len(s.webAcks)]

\* Updating a field of the server leaves the others.
LEMMA ServerFields ==
  ASSUME NEW A, NEW B, NEW C, NEW D, NEW E, NEW F,
         NEW s \in [webs : A, comms : B, watched : C, webAcks : D, commAcks : E, waiting : F]
  PROVE  LET S == [webs : A, comms : B, watched : C, webAcks : D, commAcks : E, waiting : F] IN
    /\ \A x \in A : LET r == [s EXCEPT !.webs = x] IN
         /\ r \in S /\ r.webs = x /\ r.comms = s.comms /\ r.watched = s.watched
         /\ r.webAcks = s.webAcks /\ r.commAcks = s.commAcks /\ r.waiting = s.waiting
    /\ \A x \in B : LET r == [s EXCEPT !.comms = x] IN
         /\ r \in S /\ r.webs = s.webs /\ r.comms = x /\ r.watched = s.watched
         /\ r.webAcks = s.webAcks /\ r.commAcks = s.commAcks /\ r.waiting = s.waiting
    /\ \A x \in C : LET r == [s EXCEPT !.watched = x] IN
         /\ r \in S /\ r.webs = s.webs /\ r.comms = s.comms /\ r.watched = x
         /\ r.webAcks = s.webAcks /\ r.commAcks = s.commAcks /\ r.waiting = s.waiting
    /\ \A x \in D : LET r == [s EXCEPT !.webAcks = x] IN
         /\ r \in S /\ r.webs = s.webs /\ r.comms = s.comms /\ r.watched = s.watched
         /\ r.webAcks = x /\ r.commAcks = s.commAcks /\ r.waiting = s.waiting
    /\ \A x \in E : LET r == [s EXCEPT !.commAcks = x] IN
         /\ r \in S /\ r.webs = s.webs /\ r.comms = s.comms /\ r.watched = s.watched
         /\ r.webAcks = s.webAcks /\ r.commAcks = x /\ r.waiting = s.waiting
    /\ \A x \in F : LET r == [s EXCEPT !.waiting = x] IN
         /\ r \in S /\ r.webs = s.webs /\ r.comms = s.comms /\ r.watched = s.watched
         /\ r.webAcks = s.webAcks /\ r.commAcks = s.commAcks /\ r.waiting = x
BY SMT

LEMMA RestingServer ==
  ASSUME NEW s \in Servers
  PROVE  /\ AtRest(s) \in Servers
         /\ AtRest(s).webs = s.webs /\ AtRest(s).comms = s.comms
         /\ AtRest(s).webAcks = <<>> /\ AtRest(s).commAcks = {} /\ AtRest(s).waiting = FALSE
<1> DEFINE a == [s EXCEPT !.waiting = FALSE]
           b == [a EXCEPT !.webAcks = <<>>]
           c == [b EXCEPT !.commAcks = {}]
<1>1. a \in Servers /\ a.webs = s.webs /\ a.comms = s.comms /\ a.waiting = FALSE
  BY ServerFields, Zenon DEF Servers
<1> HIDE DEF a
<1>2. <<>> \in Seq(Nat)
  OBVIOUS
<1>3. /\ b \in Servers /\ b.webs = s.webs /\ b.comms = s.comms /\ b.waiting = FALSE
      /\ b.webAcks = <<>>
  BY <1>1, <1>2, ServerFields, Zenon DEF Servers
<1> HIDE DEF b
<1>4. {} \in SUBSET (Comms \X Nat)
  OBVIOUS
<1>5. /\ c \in Servers /\ c.webs = s.webs /\ c.comms = s.comms /\ c.waiting = FALSE
      /\ c.webAcks = <<>> /\ c.commAcks = {}
  BY <1>3, <1>4, ServerFields, Zenon DEF Servers
<1>6. c = AtRest(s)
  BY DEF AtRest, a, b
<1> QED
  BY <1>5, <1>6

LEMMA Replied ==
  ASSUME NEW c \in Callers, NEW r \in Replies
  PROVE  LET d == With(c, "idle", r)
         IN d \in Callers /\ d.pc = "idle" /\ d.id = c.id /\ d.reply = r
<1> DEFINE a == [c EXCEPT !.pc = "idle"]
           b == [a EXCEPT !.reply = r]
<1>1. a \in Callers /\ a.pc = "idle" /\ a.id = c.id
  BY SMT DEF Callers
<1> HIDE DEF a
<1>2. b \in Callers /\ b.pc = "idle" /\ b.id = c.id /\ b.reply = r
  BY <1>1, SMT DEF Callers
<1>3. b = With(c, "idle", r)
  BY DEF a, With
<1> HIDE DEF b
<1> QED
  BY <1>2, <1>3, Zenon

\* All the comms have given theirs: there are as many acknowledgements, at most one of each.
LEMMA CommsHaveAll ==
  ASSUME NEW s, NEW pg, NEW w, NEW c, MeshInvOf(s, pg, w, c), IsGathered(s)
  PROVE  s.commAcks = s.comms \X {c.id}
<1> DEFINE all == s.comms \X {c.id}
<1>1. IsFiniteSet({c.id}) /\ Cardinality({c.id}) = 1
  BY FS_Singleton, Zenon
<1>2. IsFiniteSet(s.comms) /\ s.commAcks \subseteq all
  BY Zenon DEF MeshInvOf, MeshTypes, CommsInv
<1>3. IsFiniteSet(all) /\ Cardinality(all) = Cardinality(s.comms) * Cardinality({c.id})
  BY <1>1, <1>2, FS_Product, Zenon
<1>4. Cardinality(s.comms) \in Nat
  BY <1>2, FS_CardinalityType, Zenon
<1>5. Cardinality(all) = Cardinality(s.comms)
  BY <1>1, <1>3, <1>4, SMT
<1>6. Cardinality(s.commAcks) = Cardinality(all)
  BY <1>5, Zenon DEF IsGathered
<1>7. s.commAcks = all
  BY <1>2, <1>3, <1>6, FS_Subset, Zenon
<1> QED
  BY <1>7

\* All the websockets have given theirs.
LEMMA WebsHaveAll ==
  ASSUME NEW s, NEW pg, NEW w, NEW c, MeshInvOf(s, pg, w, c), IsGathered(s), WebsStay
  PROVE  s.webs = Done(s, pg, w)
<1>1. IsFiniteSet(s.webs) /\ Done(s, pg, w) \subseteq s.webs
  BY Zenon DEF MeshInvOf, MeshTypes, Done
<1>2. Cardinality(Done(s, pg, w)) = Cardinality(s.webs)
  BY Zenon DEF MeshInvOf, WebsInv, IsGathered
<1> QED
  BY <1>1, <1>2, FS_Subset, Zenon

LEMMA ReplyIsFresh ==
  ASSUME NEW s, NEW pg, NEW w, NEW c, MeshInvOf(s, pg, w, c), IsGathered(s)
  PROVE  LET d == With(c, "idle", ReplyOf(s))
         IN ReplyInv(d) /\ d \in Callers /\ d.pc = "idle" /\ d.id = c.id
<1> DEFINE r == ReplyOf(s)
<1> SUFFICES ASSUME NEW d, d = With(c, "idle", ReplyOf(s))
             PROVE  ReplyInv(d) /\ d \in Callers /\ d.pc = "idle" /\ d.id = c.id
  OBVIOUS
<1>1. s.commAcks = s.comms \X {c.id}
  BY CommsHaveAll, Zenon
<1>2. /\ s.webs \subseteq Webs /\ s.comms \subseteq Comms /\ s.webAcks \in Seq(Nat) /\ c.id \in Nat
      /\ Len(s.webAcks) = Cardinality(s.webs)
      /\ c \in Callers
  BY SMT DEF MeshInvOf, MeshTypes, IsGathered, Servers, Callers
<1>3. /\ r.from = {a[1] : a \in s.commAcks} /\ r.pages = s.webs \cup s.comms
      /\ r.webs = Len(s.webAcks) /\ r.acks = Acks(s)
  BY Zenon DEF ReplyOf
<1>12. r.from = s.comms
  <2>1. \A x \in s.comms : <<x, c.id>> \in s.commAcks /\ <<x, c.id>>[1] = x
    BY <1>1, SMT
  <2>2. \A a \in s.commAcks : a[1] \in s.comms
    BY <1>1, SMT
  <2>3. s.comms \subseteq {a[1] : a \in s.commAcks}
    <3> SUFFICES ASSUME NEW x \in s.comms PROVE \E a \in s.commAcks : x = a[1]
      OBVIOUS
    <3> QED
      BY <2>1
  <2>4. {a[1] : a \in s.commAcks} \subseteq s.comms
    BY <2>2, Zenon
  <2> QED
    BY <1>3, <2>3, <2>4, Zenon
<1>4. r.pages \cap Comms = s.comms /\ r.pages \cap Webs = s.webs
  BY <1>2, <1>3, MeshcatAssumption, Zenon
<1>5. \A a \in s.commAcks : a[2] = c.id
  BY <1>1, SMT
<1>6. WebsStay => \A k \in DOMAIN s.webAcks : s.webAcks[k] = c.id
  BY Zenon DEF MeshInvOf, WebsInv
<1>7. WebsStay => r.acks \subseteq {c.id}
  BY <1>3, <1>5, <1>6, Zenon DEF Acks
<1>8. r.acks \subseteq Nat
  BY <1>2, <1>3, <1>5, SMT DEF Acks
<1>9. Len(s.webAcks) \in Nat
  BY <1>2, LenProperties, Zenon
<1>10. r \in Replies
  BY <1>2, <1>3, <1>12, <1>8, <1>9, SMT DEF ReplyOf, Replies, Pages
<1> HIDE DEF r
<1>13. d.reply = r /\ d.id = c.id /\ d.pc = "idle" /\ d \in Callers
  <2>2. d = With(c, "idle", r)
    BY DEF r
  <2>3. LET e == With(c, "idle", r)
        IN e.reply = r /\ e.id = c.id /\ e.pc = "idle" /\ e \in Callers
    BY <1>2, <1>10, Replied, Zenon
  <2> QED
    BY <2>2, <2>3
<1>11. ReplyInv(d)
  BY <1>13, <1>3, <1>12, <1>4, <1>7, <1>2, Zenon DEF ReplyInv
<1> QED
  BY <1>11, <1>13

\* Once the server has delivered, nothing is owed to it.
LEMMA RestInv ==
  ASSUME NEW s, NEW pg, NEW w, NEW c, MeshInvOf(s, pg, w, c), IsGathered(s),
         NEW d, d = With(c, "idle", ReplyOf(s))
  PROVE  MeshInvOf(AtRest(s), pg, w, d)
<1> DEFINE r == AtRest(s)
<1>1. MeshTypes(s, pg, w, c) /\ s \in Servers /\ c \in Callers
  BY Zenon DEF MeshInvOf, MeshTypes
<1>2. /\ r.webs = s.webs /\ r.comms = s.comms
      /\ r.webAcks = <<>> /\ r.commAcks = {} /\ r.waiting = FALSE /\ r \in Servers
  BY <1>1, RestingServer, Zenon
<1>9. LET e == With(c, "idle", ReplyOf(s))
      IN ReplyInv(e) /\ e \in Callers /\ e.pc = "idle" /\ e.id = c.id
  BY ReplyIsFresh, Zenon
<1>3. /\ d.pc = "idle" /\ d.id = c.id /\ d \in Callers
  BY <1>9
<1> HIDE DEF r
<1>4. MeshTypes(r, pg, w, d)
  BY <1>1, <1>2, <1>3, Zenon DEF MeshTypes
<1>5. Turns(r, d)
  BY <1>2, <1>3, SMT DEF Turns
<1>6. CommsInv(r, pg, w, d)
  <2>1. ASSUME NEW p \in Comms PROVE CommInv(p, r, pg, w, d)
    <3>1. CommInv(p, s, pg, w, c)
      BY Zenon DEF MeshInvOf, CommsInv
    <3>2. p \in s.comms => <<p, c.id>> \in s.commAcks
      BY CommsHaveAll, SMT
    <3>3. p \in s.comms => OwesOnce(p, r, pg, w, d)
      BY <1>2, <1>3, <3>1, <3>2, Zenon DEF CommInv, OwesOnce
    <3> QED
      BY <1>2, <3>1, <3>3, Zenon DEF CommInv
  <2> QED
    BY <1>2, <2>1, Zenon DEF CommsInv
<1>7. ASSUME WebsStay PROVE WebsInv(r, pg, w, d)
  <2>1. ASSUME NEW p \in Webs PROVE WebIdle(p, r, pg, w)
    <3>1. WebAsked(p, s, pg, w, c)
      BY <1>7, Zenon DEF MeshInvOf, WebsInv, IsGathered
    <3>4. s.webs = Done(s, pg, w)
      BY <1>7, WebsHaveAll, Zenon
    <3>2. p \in s.webs => pg[p].todo = <<>> /\ w[p] = <<>>
      BY <3>4, SMT DEF Done
    <3>3. pg[p].status \in {"new", "open", "closed"}
      BY <1>1, <2>1, SMT DEF MeshTypes, PageStates, Pages
    <3> QED
      BY <1>2, <3>1, <3>2, <3>3, Zenon DEF WebAsked, WebIdle
  <2>2. \A k \in DOMAIN <<>> : <<>>[k] = d.id
    OBVIOUS
  <2> QED
    BY <1>2, <2>1, <2>2, Zenon DEF WebsInv
<1>8. ReplyInv(d)
  BY <1>9
<1> QED
  BY <1>4, <1>5, <1>6, <1>7, <1>8, Zenon DEF MeshInvOf, r

LEMMA DeliveredInv ==
  ASSUME NEW s, NEW pg, NEW w, NEW c, MeshInvOf(s, pg, w, c)
  PROVE  MeshInvOf(Gathered(s).state, pg, w, Delivered(s, c))
<1>1. CASE ~IsGathered(s)
  <2>1. Gathered(s) = [state |-> s, reply |-> <<>>]
    BY <1>1, Zenon DEF Gathered, IsGathered
  <2>2. Gathered(s).state = s /\ Delivered(s, c) = c
    BY <2>1, SMT DEF Delivered
  <2> QED
    BY <2>2, Zenon
<1>2. CASE IsGathered(s)
  <2>1. Gathered(s) = [state |-> AtRest(s), reply |-> <<Acks(s)>>]
    BY <1>2, Zenon DEF Gathered, IsGathered, AtRest
  <2>2. Gathered(s).state = AtRest(s) /\ Gathered(s).reply # <<>> /\ Head(Gathered(s).reply) = Acks(s)
    BY <2>1, SMT
  <2>3. c.pc = "ready"
    BY <1>2, Zenon DEF MeshInvOf, Turns, IsGathered
  <2>4. Delivered(s, c) = With(c, "idle", ReplyOf(s))
    BY <2>2, <2>3, Zenon DEF Delivered, ReplyOf
  <2>5. MeshInvOf(AtRest(s), pg, w, With(c, "idle", ReplyOf(s)))
    BY <1>2, RestInv, Zenon
  <2> QED
    BY <2>2, <2>4, <2>5, Zenon
<1> QED
  BY <1>1, <1>2, Zenon

\* What Deliver does, in one piece.
LEMMA DeliverIsDelivered ==
  ASSUME NEW s, NEW g, g = Gathered(s), Deliver(s, g)
  PROVE  server' = g.state /\ caller' = Delivered(s, caller)
<1>1. server' = g.state
  BY DEF Deliver
<1>2. CASE g.reply = <<>>
  BY <1>2 DEF Deliver, Delivered
<1>3. CASE g.reply # <<>>
  BY <1>3 DEF Deliver, Delivered, With
<1> QED
  BY <1>1, <1>2, <1>3

---------------------------------------------------------------------------
(* A step of one page, or of the server about one page.                    *)

PageTypes(p, s1, pg1, w1) ==
    /\ s1 \in Servers /\ IsFiniteSet(s1.webs) /\ IsFiniteSet(s1.comms)
    /\ pg1 \in [Pages -> PageStates] /\ w1 \in [Pages -> Seq(Messages)]
    /\ p \in Webs => \A k \in DOMAIN w1[p] : w1[p][k].kind # "watchdog"

Elsewhere(p, s, pg, w, s1, pg1, w1, id) ==
    /\ s1.waiting = s.waiting
    /\ \A q \in Pages \ {p} : pg1[q] = pg[q] /\ w1[q] = w[q]
    /\ \A q \in Comms \ {p} : /\ q \in s1.comms <=> q \in s.comms
                              /\ <<q, id>> \in s1.commAcks <=> <<q, id>> \in s.commAcks

CommPart(p, s1, pg1, w1, c) ==
    /\ s1.commAcks \subseteq s1.comms \X {c.id}
    /\ ~s1.waiting => s1.commAcks = {}
    /\ p \in Comms => CommInv(p, s1, pg1, w1, c)

WebPart(p, s, s1, pg1, w1, c) ==
    /\ \A q \in Webs \ {p} : q \in s1.webs <=> q \in s.webs
    /\ \A k \in DOMAIN s1.webAcks : s1.webAcks[k] = c.id
    /\ IF s1.waiting THEN /\ p \in Webs => WebAsked(p, s1, pg1, w1, c)
                          /\ Len(s1.webAcks) = Cardinality(Done(s1, pg1, w1))
       ELSE s1.webAcks = <<>> /\ (p \in Webs => WebIdle(p, s1, pg1, w1))

\* The other pages are as they were, and so is what the invariant says of them.
LEMMA PageStep ==
  ASSUME NEW s, NEW pg, NEW w, NEW c, MeshInvOf(s, pg, w, c), NEW p \in Pages,
         NEW s1, NEW pg1, NEW w1, PageTypes(p, s1, pg1, w1),
         Elsewhere(p, s, pg, w, s1, pg1, w1, c.id),
         CommPart(p, s1, pg1, w1, c), WebsStay => WebPart(p, s, s1, pg1, w1, c)
  PROVE  MeshInvOf(s1, pg1, w1, c)
<1>1. MeshTypes(s1, pg1, w1, c)
  <2>1. MeshTypes(s, pg, w, c)
    BY Zenon DEF MeshInvOf
  <2>2. ASSUME NEW q \in Webs PROVE \A k \in DOMAIN w1[q] : w1[q][k].kind # "watchdog"
    <3>1. CASE q = p
      BY <3>1, Zenon DEF PageTypes
    <3>2. CASE q # p
      <4>1. w1[q] = w[q]
        BY <3>2, Zenon DEF Elsewhere, Pages
      <4>2. \A k \in DOMAIN w[q] : w[q][k].kind # "watchdog"
        BY <2>1, Zenon DEF MeshTypes
      <4> QED
        BY <4>1, <4>2
    <3> QED
      BY <3>1, <3>2, Zenon
  <2> QED
    BY <2>1, <2>2, Zenon DEF MeshTypes, PageTypes
<1>2. Turns(s1, c)
  BY SMT DEF MeshInvOf, Turns, Elsewhere
<1>3. CommsInv(s1, pg1, w1, c)
  <2>1. ASSUME NEW q \in Comms PROVE CommInv(q, s1, pg1, w1, c)
    <3>1. CASE q = p
      BY <3>1, Zenon DEF CommPart
    <3>2. CASE q # p
      <4>1. CommInv(q, s, pg, w, c)
        BY Zenon DEF MeshInvOf, CommsInv
      <4>2. /\ pg1[q] = pg[q] /\ w1[q] = w[q] /\ s1.waiting = s.waiting
            /\ q \in s1.comms <=> q \in s.comms
            /\ <<q, c.id>> \in s1.commAcks <=> <<q, c.id>> \in s.commAcks
        BY <3>2, Zenon DEF Elsewhere, Pages
      <4> QED
        BY <4>1, <4>2, SMT DEF CommInv, OwesOnce, Quiet
    <3> QED
      BY <3>1, <3>2, Zenon
  <2> QED
    BY <2>1, Zenon DEF CommsInv, CommPart
<1>4. ASSUME WebsStay PROVE WebsInv(s1, pg1, w1, c)
  <2>1. WebsInv(s, pg, w, c) /\ WebPart(p, s, s1, pg1, w1, c) /\ s1.waiting = s.waiting
    BY <1>4, Zenon DEF MeshInvOf, Elsewhere
  <2>2. ASSUME NEW q \in Webs
        PROVE IF s1.waiting THEN WebAsked(q, s1, pg1, w1, c) ELSE WebIdle(q, s1, pg1, w1)
    <3>1. CASE q = p
      BY <2>1, <3>1, Zenon DEF WebPart
    <3>2. CASE q # p
      <4>1. IF s.waiting THEN WebAsked(q, s, pg, w, c) ELSE WebIdle(q, s, pg, w)
        BY <2>1, Zenon DEF WebsInv
      <4>2. /\ pg1[q] = pg[q] /\ w1[q] = w[q] /\ s1.waiting = s.waiting
            /\ q \in s1.webs <=> q \in s.webs
        BY <2>1, <3>2, Zenon DEF Elsewhere, Pages, WebPart
      <4> QED
        BY <4>1, <4>2, SMT DEF WebAsked, WebIdle
    <3> QED
      BY <3>1, <3>2, Zenon
  <2> QED
    BY <2>1, <2>2, Zenon DEF WebsInv, WebPart
<1>5. ReplyInv(c)
  BY Zenon DEF MeshInvOf
<1> QED
  BY <1>1, <1>2, <1>3, <1>4, <1>5, Zenon DEF MeshInvOf

LEMMA Appended ==
  ASSUME NEW S, NEW q \in Seq(S), NEW e \in S
  PROVE  /\ Append(q, e) \in Seq(S) /\ Append(q, e) # <<>> /\ Len(q) \in Nat
         /\ \A k \in DOMAIN Append(q, e) :
              \/ k \in DOMAIN q /\ Append(q, e)[k] = q[k]
              \/ k = Len(q) + 1 /\ k \notin DOMAIN q /\ Append(q, e)[k] = e
BY SMT

LEMMA Tailed ==
  ASSUME NEW S, NEW q \in Seq(S), q # <<>>
  PROVE  /\ Tail(q) \in Seq(S) /\ 1 \in DOMAIN q /\ Head(q) = q[1] /\ Head(q) \in S
         /\ \A k \in DOMAIN Tail(q) : /\ k + 1 \in DOMAIN q /\ Tail(q)[k] = q[k + 1]
                                      /\ k \in Nat /\ k # 0
BY SMT

LEMMA AppendedToOne ==
  ASSUME NEW S, NEW a \in S, NEW b \in S
  PROVE  Append(<<>>, b) = <<b>> /\ Append(<<a>>, b) = <<a, b>>
<1>1. Append(<<>>, b) = <<b>>
  OBVIOUS
<1>2. <<a>> \in Seq(S) /\ <<a, b>> \in Seq(S) /\ Len(<<a>>) = 1 /\ Len(<<a, b>>) = 2
  OBVIOUS
<1>3. Append(<<a>>, b) = <<a, b>>
  <2> DEFINE u == Append(<<a>>, b)  v == <<a, b>>
  <2>1. /\ u \in Seq(S) /\ Len(u) = 2 /\ u[1] = a /\ u[2] = b
    BY <1>2, AppendProperties
  <2>2. v \in Seq(S) /\ Len(v) = 2 /\ v[1] = a /\ v[2] = b
    BY <1>2
  <2> HIDE DEF u, v
  <2>3. Len(u) = Len(v) /\ \A i \in 1 .. Len(u) : u[i] = v[i]
    BY <2>1, <2>2
  <2> QED
    BY <2>1, <2>2, <2>3, SeqEqual, Zenon DEF u, v
<1> QED
  BY <1>1, <1>3

\* The pages move, and the server knows nothing of it yet.
LEMMA PageMoves ==
  ASSUME NEW s, NEW pg, NEW w, NEW c, MeshInvOf(s, pg, w, c), NEW p \in Pages,
         NEW pg1, NEW w1, PageTypes(p, s, pg1, w1),
         \A q \in Pages \ {p} : pg1[q] = pg[q] /\ w1[q] = w[q],
         p \in Comms => CommInv(p, s, pg1, w1, c),
         WebsStay /\ p \in Webs =>
           IF s.waiting THEN /\ WebAsked(p, s, pg1, w1, c)
                             /\ p \in Done(s, pg, w) <=> p \in Done(s, pg1, w1)
           ELSE WebIdle(p, s, pg1, w1)
  PROVE  MeshInvOf(s, pg1, w1, c)
<1>1. Elsewhere(p, s, pg, w, s, pg1, w1, c.id)
  BY Zenon DEF Elsewhere
<1>2. CommPart(p, s, pg1, w1, c)
  BY Zenon DEF CommPart, MeshInvOf, CommsInv
<1>3. ASSUME WebsStay PROVE WebPart(p, s, s, pg1, w1, c)
  <2>1. WebsInv(s, pg, w, c) /\ s \in Servers
    BY <1>3, Zenon DEF MeshInvOf, MeshTypes
  <2>2. CASE s.waiting
    <3>1. ASSUME NEW q PROVE q \in Done(s, pg, w) <=> q \in Done(s, pg1, w1)
      <4>1. CASE q = p /\ p \in Webs
        BY <1>3, <2>2, <4>1, Zenon
      <4>2. CASE q = p /\ p \notin Webs
        BY <2>1, <4>2, SMT DEF Done, Servers
      <4>3. CASE q # p
        <5>1. q \in s.webs => q \in Pages \ {p}
          BY <2>1, <4>3, SMT DEF Servers, Pages
        <5> QED
          BY <5>1, SMT DEF Done
      <4> QED
        BY <4>1, <4>2, <4>3, Zenon
    <3>2. Done(s, pg, w) = Done(s, pg1, w1)
      BY <3>1, Zenon
    <3> QED
      BY <1>3, <2>1, <2>2, <3>2, SMT DEF WebsInv, WebPart
  <2>3. CASE ~s.waiting
    BY <1>3, <2>1, <2>3, Zenon DEF WebsInv, WebPart
  <2> QED
    BY <2>2, <2>3, Zenon
<1> QED
  BY <1>1, <1>2, <1>3, PageStep, Zenon

LEMMA TypedPage ==
  ASSUME NEW p \in Pages, NEW s, NEW pg, NEW w, NEW c, MeshInvOf(s, pg, w, c)
  PROVE  /\ s \in Servers /\ pg \in [Pages -> PageStates] /\ w \in [Pages -> Seq(Messages)]
         /\ pg[p] \in PageStates /\ pg[p].status \in {"new", "open", "closed"}
         /\ pg[p].todo \in Seq(Nat) /\ w[p] \in Seq(Messages) /\ c \in Callers /\ c.id \in Nat
         /\ PageTypes(p, s, pg, w)
<1>1. /\ s \in Servers /\ pg \in [Pages -> PageStates] /\ w \in [Pages -> Seq(Messages)]
      /\ c \in Callers
  BY Zenon DEF MeshInvOf, MeshTypes
<1>2. pg[p] \in PageStates /\ w[p] \in Seq(Messages)
  BY <1>1, Zenon
<1>3. pg[p].status \in {"new", "open", "closed"} /\ pg[p].todo \in Seq(Nat)
  BY <1>2, Zenon DEF PageStates
<1>4. c.id \in Nat
  BY <1>1, Zenon DEF Callers
<1>5. PageTypes(p, s, pg, w)
  BY <1>1, Zenon DEF MeshInvOf, MeshTypes, PageTypes
<1> QED
  BY <1>1, <1>2, <1>3, <1>4, <1>5

LEMMA StatusOfPage ==
  ASSUME NEW Statuses, NEW Todos, NEW x \in [status : Statuses, todo : Todos], NEW v \in Statuses
  PROVE  [x EXCEPT !.status = v] \in [status : Statuses, todo : Todos]
OBVIOUS

LEMMA OpenPageInv == ASSUME MeshInv, NEW p \in Pages, OpenPage(p) PROVE MeshInv'
<1> DEFINE s == server  c == caller
<1>1. MeshInvOf(s, page, wire, c) /\ PageTypes(p, s, page, wire)
  BY TypedPage, Zenon DEF MeshInv
<1>2. /\ page[p] \in PageStates /\ page[p].todo \in Seq(Nat) /\ wire[p] \in Seq(Messages)
      /\ page \in [Pages -> PageStates] /\ wire \in [Pages -> Seq(Messages)]
  BY <1>1, TypedPage, Zenon
<1>3. OpenMessage \in Messages /\ OpenMessage.kind = "open"
  BY SMT DEF OpenMessage, Messages
<1>4. PICK pg1, w1 : /\ pg1 = page' /\ w1 = wire'
                     /\ pg1 = [page EXCEPT ![p].status = "open"]
                     /\ w1 = [wire EXCEPT ![p] = Append(wire[p], OpenMessage)]
  BY SMT DEF OpenPage, Send, OpenMessage
<1>5. page[p].status = "new" /\ MayMove(p)
  BY Zenon DEF OpenPage
<1>6. /\ pg1 \in [Pages -> PageStates] /\ pg1[p].status = "open" /\ pg1[p].todo = page[p].todo
      /\ w1 \in [Pages -> Seq(Messages)] /\ w1[p] = Append(wire[p], OpenMessage)
      /\ \A q \in Pages \ {p} : pg1[q] = page[q] /\ w1[q] = wire[q]
  <2>1. Append(wire[p], OpenMessage) \in Seq(Messages)
    BY <1>2, <1>3, Appended, Zenon
  <2>2. [page[p] EXCEPT !.status = "open"] \in PageStates
    <3>1. page[p] \in [status : {"new", "open", "closed"}, todo : Seq(Nat)]
      BY <1>2, Zenon DEF PageStates
    <3>2. "open" \in {"new", "open", "closed"}
      OBVIOUS
    <3> QED
      BY <3>1, <3>2, StatusOfPage, Zenon DEF PageStates
  <2>3. pg1 = [page EXCEPT ![p] = [page[p] EXCEPT !.status = "open"]]
    BY <1>4
  <2>4. pg1[p] = [page[p] EXCEPT !.status = "open"]
    BY <1>2, <2>3, Zenon
  <2> QED
    BY <1>2, <1>4, <2>1, <2>2, <2>3, <2>4, SMT DEF PageStates
<1>7. PageTypes(p, s, pg1, w1)
  <2>1. ASSUME p \in Webs PROVE \A k \in DOMAIN w1[p] : w1[p][k].kind # "watchdog"
    BY <1>1, <1>2, <1>3, <1>6, <2>1, Appended, SMT DEF PageTypes
  <2> QED
    BY <1>1, <1>6, <2>1, Zenon DEF PageTypes
<1>8. ASSUME p \in Comms PROVE CommInv(p, s, pg1, w1, c)
  <2>1. page[p].todo = <<>> /\ wire[p] = <<>> /\ p \notin s.comms
    BY <1>1, <1>5, <1>8, Zenon DEF MeshInvOf, CommsInv, CommInv
  <2>2. w1[p] = <<OpenMessage>>
    BY <1>6, <2>1, SMT
  <2> QED
    BY <1>3, <1>6, <2>1, <2>2, SMT DEF CommInv, Quiet, IsAck
<1>9. ASSUME WebsStay, p \in Webs PROVE ~s.waiting /\ WebIdle(p, s, pg1, w1)
  <2>1. ~s.waiting
    BY <1>1, <1>5, <1>9, MeshcatAssumption, SMT DEF MayMove, MeshInvOf, Turns
  <2>2. WebIdle(p, s, page, wire)
    BY <1>1, <1>9, <2>1, Zenon DEF MeshInvOf, WebsInv
  <2>3. page[p].todo = <<>> /\ wire[p] = <<>> /\ p \notin s.webs
    BY <1>5, <2>2, SMT DEF WebIdle
  <2>4. w1[p] = <<OpenMessage>>
    BY <1>6, <2>3, SMT
  <2> QED
    BY <1>6, <2>1, <2>3, <2>4, Zenon DEF WebIdle
<1>10. MeshInvOf(s, pg1, w1, c)
  BY <1>1, <1>6, <1>7, <1>8, <1>9, PageMoves, Zenon
<1> QED
  BY <1>4, <1>10, SMT DEF OpenPage, MeshInv

LEMMA ClosePageInv == ASSUME MeshInv, NEW p \in Pages, ClosePage(p) PROVE MeshInv'
<1> DEFINE s == server  c == caller
<1>1. MeshInvOf(s, page, wire, c) /\ PageTypes(p, s, page, wire)
  BY TypedPage, Zenon DEF MeshInv
<1>2. /\ page[p] \in PageStates /\ page[p].todo \in Seq(Nat) /\ wire[p] \in Seq(Messages)
      /\ page \in [Pages -> PageStates] /\ wire \in [Pages -> Seq(Messages)]
  BY <1>1, TypedPage, Zenon
<1>3. CloseMessage \in Messages /\ CloseMessage.kind = "close"
  BY SMT DEF CloseMessage, Messages
<1>4. PICK pg1, w1 : /\ pg1 = page' /\ w1 = wire'
                     /\ pg1 = [page EXCEPT ![p] = [status |-> "closed", todo |-> <<>>]]
                     /\ w1 = [wire EXCEPT ![p] = Append(wire[p], CloseMessage)]
  <2>1. page' = [page EXCEPT ![p] = [status |-> "closed", todo |-> <<>>]]
    BY Zenon DEF ClosePage
  <2>2. wire' = [wire EXCEPT ![p] = Append(wire[p], CloseMessage)]
    BY SMT DEF ClosePage, Send, CloseMessage
  <2> QED
    BY <2>1, <2>2, Zenon
<1>5. page[p].status = "open" /\ MayMove(p)
  BY Zenon DEF ClosePage
<1>6. /\ pg1 \in [Pages -> PageStates] /\ pg1[p].status = "closed" /\ pg1[p].todo = <<>>
      /\ w1 \in [Pages -> Seq(Messages)] /\ w1[p] = Append(wire[p], CloseMessage)
      /\ \A q \in Pages \ {p} : pg1[q] = page[q] /\ w1[q] = wire[q]
  <2>1. Append(wire[p], CloseMessage) \in Seq(Messages)
    BY <1>2, <1>3, Appended, Zenon
  <2>2. [status |-> "closed", todo |-> <<>>] \in PageStates
    BY SMT DEF PageStates
  <2>3. pg1[p] = [status |-> "closed", todo |-> <<>>]
    BY <1>2, <1>4, Zenon
  <2> QED
    BY <1>2, <1>4, <2>1, <2>2, <2>3, SMT
<1>11. \A k \in DOMAIN w1[p] : \/ k \in DOMAIN wire[p] /\ w1[p][k] = wire[p][k]
                               \/ w1[p][k].kind = "close"
  BY <1>2, <1>3, <1>6, Appended, SMT
<1>7. PageTypes(p, s, pg1, w1)
  <2>1. ASSUME p \in Webs PROVE \A k \in DOMAIN w1[p] : w1[p][k].kind # "watchdog"
    BY <1>1, <1>11, <2>1, SMT DEF PageTypes
  <2> QED
    BY <1>1, <1>6, <2>1, Zenon DEF PageTypes
<1>8. ASSUME p \in Comms PROVE CommInv(p, s, pg1, w1, c)
  <2>1. CommInv(p, s, page, wire, c)
    BY <1>1, <1>8, Zenon DEF MeshInvOf, CommsInv
  <2>2. ASSUME Quiet(p, page, wire) PROVE Quiet(p, pg1, w1)
    BY <1>6, <1>11, <2>2, SMT DEF Quiet, IsAck
  <2>3. \A k \in DOMAIN w1[p] : w1[p][k].kind = "open" => k = 1 /\ p \notin s.comms /\ Quiet(p, pg1, w1)
    BY <1>11, <2>1, <2>2, SMT DEF CommInv
  <2>4. ASSUME p \in s.comms PROVE OwesOnce(p, s, pg1, w1, c)
    <3>1. OwesOnce(p, s, page, wire, c)
      BY <2>1, <2>4, Zenon DEF CommInv
    <3>2. \A k \in DOMAIN w1[p] : IsAck(w1[p][k]) => k \in DOMAIN wire[p] /\ w1[p][k] = wire[p][k]
      BY <1>11, SMT DEF IsAck
    <3>3. \A k \in DOMAIN w1[p] : IsAck(w1[p][k]) => w1[p][k].id = c.id
      BY <3>1, <3>2, SMT DEF OwesOnce
    <3>4. \A j, k \in DOMAIN w1[p] : IsAck(w1[p][j]) /\ IsAck(w1[p][k]) => j = k
      BY <3>1, <3>2, SMT DEF OwesOnce
    <3>5. ~s.waiting \/ <<p, c.id>> \in s.commAcks => Quiet(p, pg1, w1)
      BY <3>1, <2>2, Zenon DEF OwesOnce
    <3> QED
      BY <1>6, <3>3, <3>4, <3>5, Zenon DEF OwesOnce
  <2> QED
    BY <1>6, <2>3, <2>4, SMT DEF CommInv
<1>9. ASSUME WebsStay, p \in Webs PROVE ~s.waiting /\ WebIdle(p, s, pg1, w1)
  <2>1. ~s.waiting
    BY <1>1, <1>5, <1>9, MeshcatAssumption, SMT DEF MayMove, MeshInvOf, Turns
  <2>2. WebIdle(p, s, page, wire)
    BY <1>1, <1>9, <2>1, Zenon DEF MeshInvOf, WebsInv
  <2>3. \/ p \notin s.webs /\ wire[p] = <<OpenMessage>>
        \/ p \in s.webs /\ wire[p] = <<>>
    BY <1>5, <2>2, SMT DEF WebIdle
  <2>4. \/ p \notin s.webs /\ w1[p] = <<OpenMessage, CloseMessage>>
        \/ p \in s.webs /\ w1[p] = <<CloseMessage>>
    <3>1. OpenMessage \in Messages
      BY SMT DEF OpenMessage, Messages
    <3>2. /\ Append(<<OpenMessage>>, CloseMessage) = <<OpenMessage, CloseMessage>>
          /\ Append(<<>>, CloseMessage) = <<CloseMessage>>
      BY <1>3, <3>1, AppendedToOne, Zenon
    <3> QED
      BY <1>6, <2>3, <3>2, Zenon
  <2> QED
    BY <1>6, <2>1, <2>4, Zenon DEF WebIdle
<1>10. MeshInvOf(s, pg1, w1, c)
  BY <1>1, <1>6, <1>7, <1>8, <1>9, PageMoves, Zenon
<1> QED
  BY <1>4, <1>10, SMT DEF ClosePage, MeshInv

LEMMA VanishInv == ASSUME MeshInv, NEW p \in Pages, Vanish(p) PROVE MeshInv'
<1> DEFINE s == server  c == caller
<1>1. MeshInvOf(s, page, wire, c) /\ PageTypes(p, s, page, wire)
  BY TypedPage, Zenon DEF MeshInv
<1>2. page \in [Pages -> PageStates]
  BY <1>1, TypedPage, Zenon
<1>3. PICK pg1 : pg1 = page' /\ pg1 = [page EXCEPT ![p] = [status |-> "closed", todo |-> <<>>]]
  BY SMT DEF Vanish
<1>4. p \in Comms /\ p \notin Webs
  BY MeshcatAssumption, Zenon DEF Vanish
<1>5. /\ pg1 \in [Pages -> PageStates] /\ pg1[p].status = "closed" /\ pg1[p].todo = <<>>
      /\ \A q \in Pages \ {p} : pg1[q] = page[q]
  <2>2. [status |-> "closed", todo |-> <<>>] \in PageStates
    BY SMT DEF PageStates
  <2>3. pg1[p] = [status |-> "closed", todo |-> <<>>]
    BY <1>2, <1>3, Zenon
  <2> QED
    BY <1>2, <1>3, <2>2, <2>3, SMT
<1>6. PageTypes(p, s, pg1, wire)
  BY <1>1, <1>5, Zenon DEF PageTypes
<1>7. CommInv(p, s, pg1, wire, c)
  <2>1. CommInv(p, s, page, wire, c)
    BY <1>1, <1>4, Zenon DEF MeshInvOf, CommsInv
  <2> QED
    BY <1>5, <2>1, SMT DEF CommInv, OwesOnce, Quiet
<1>8. MeshInvOf(s, pg1, wire, c)
  BY <1>1, <1>4, <1>5, <1>6, <1>7, PageMoves, Zenon
<1> QED
  BY <1>3, <1>8, SMT DEF Vanish, MeshInv

LEMMA AnswerInv == ASSUME MeshInv, NEW p \in Pages, Answer(p) PROVE MeshInv'
<1> DEFINE s == server  c == caller  m == AckMessage(Head(page[p].todo))
<1>1. MeshInvOf(s, page, wire, c) /\ PageTypes(p, s, page, wire)
  BY TypedPage, Zenon DEF MeshInv
<1>2. /\ page[p] \in PageStates /\ page[p].todo \in Seq(Nat) /\ wire[p] \in Seq(Messages)
      /\ page \in [Pages -> PageStates] /\ wire \in [Pages -> Seq(Messages)]
  BY <1>1, TypedPage, Zenon
<1>5. page[p].todo # <<>>
  BY Zenon DEF Answer
<1>12. Head(page[p].todo) \in Nat /\ Tail(page[p].todo) \in Seq(Nat)
  BY <1>2, <1>5, Tailed, Zenon
<1>3. m \in Messages /\ m.kind = "ack" /\ m.id = Head(page[p].todo)
  BY <1>12, SMT DEF AckMessage, Messages
<1>4. PICK pg1, w1 : /\ pg1 = page' /\ w1 = wire'
                     /\ pg1 = [page EXCEPT ![p] = [page[p] EXCEPT !.todo = Tail(page[p].todo)]]
                     /\ w1 = [wire EXCEPT ![p] = Append(wire[p], m)]
  BY SMT DEF Answer, AckMessage
<1> HIDE DEF m
<1>6. /\ pg1 \in [Pages -> PageStates] /\ pg1[p].status = page[p].status
      /\ pg1[p].todo = Tail(page[p].todo)
      /\ w1 \in [Pages -> Seq(Messages)] /\ w1[p] = Append(wire[p], m)
      /\ \A q \in Pages \ {p} : pg1[q] = page[q] /\ w1[q] = wire[q]
  <2>1. Append(wire[p], m) \in Seq(Messages)
    BY <1>2, <1>3, Appended, Zenon
  <2>2. [page[p] EXCEPT !.todo = Tail(page[p].todo)] \in PageStates
    BY <1>2, <1>12, Zenon DEF PageStates
  <2>4. pg1[p] = [page[p] EXCEPT !.todo = Tail(page[p].todo)]
    BY <1>2, <1>4, Zenon
  <2>5. pg1[p].status = page[p].status /\ pg1[p].todo = Tail(page[p].todo)
    BY <1>2, <2>4, Zenon DEF PageStates
  <2> QED
    BY <1>2, <1>4, <2>1, <2>2, <2>5, SMT
<1>11. \A k \in DOMAIN w1[p] : \/ k \in DOMAIN wire[p] /\ w1[p][k] = wire[p][k]
                               \/ k = Len(wire[p]) + 1 /\ w1[p][k] = m
  BY <1>2, <1>3, <1>6, Appended, SMT
<1>7. PageTypes(p, s, pg1, w1)
  <2>1. ASSUME p \in Webs PROVE \A k \in DOMAIN w1[p] : w1[p][k].kind # "watchdog"
    <3>1. \A k \in DOMAIN wire[p] : wire[p][k].kind # "watchdog"
      BY <1>1, <2>1, Zenon DEF PageTypes
    <3> QED
      BY <1>3, <1>11, <3>1
  <2> QED
    BY <1>1, <1>6, <2>1, Zenon DEF PageTypes
<1>8. ASSUME p \in Comms PROVE CommInv(p, s, pg1, w1, c)
  <2>1. CommInv(p, s, page, wire, c)
    BY <1>1, <1>8, Zenon DEF MeshInvOf, CommsInv
  <2>2. ~Quiet(p, page, wire) /\ page[p].status # "new"
    BY <1>5, <2>1, Zenon DEF Quiet, CommInv
  <2>3. \A k \in DOMAIN w1[p] : w1[p][k].kind # "open"
    BY <1>3, <1>11, <2>1, <2>2, SMT DEF CommInv
  <2>4. ASSUME p \in s.comms PROVE OwesOnce(p, s, pg1, w1, c)
    <3>1. OwesOnce(p, s, page, wire, c)
      BY <2>1, <2>4, Zenon DEF CommInv
    <3>2. /\ page[p].todo = <<c.id>> /\ \A k \in DOMAIN wire[p] : ~IsAck(wire[p][k])
          /\ s.waiting /\ <<p, c.id>> \notin s.commAcks
      BY <1>5, <2>2, <3>1, Zenon DEF OwesOnce
    <3>3. pg1[p].todo = <<>> /\ m.id = c.id
      BY <1>3, <1>6, <3>2, SMT
    <3>4. \A k \in DOMAIN w1[p] : IsAck(w1[p][k]) => k = Len(wire[p]) + 1 /\ w1[p][k] = m
      BY <1>11, <3>2, SMT
    <3> QED
      BY <3>2, <3>3, <3>4, SMT DEF OwesOnce
  <2> QED
    BY <1>6, <2>2, <2>3, <2>4, SMT DEF CommInv
<1>9. ASSUME WebsStay, p \in Webs
      PROVE  IF s.waiting THEN /\ WebAsked(p, s, pg1, w1, c)
                               /\ p \in Done(s, page, wire) <=> p \in Done(s, pg1, w1)
             ELSE WebIdle(p, s, pg1, w1)
  <2>1. s.waiting
    BY <1>1, <1>5, <1>9, Zenon DEF MeshInvOf, WebsInv, WebIdle
  <2>2. WebAsked(p, s, page, wire, c)
    BY <1>1, <1>9, <2>1, Zenon DEF MeshInvOf, WebsInv
  <2>3. p \in s.webs /\ page[p].todo = <<c.id>> /\ wire[p] = <<>>
    BY <1>5, <2>2, Zenon DEF WebAsked
  <2>4. m = AckMessage(c.id)
    BY <2>3, SMT DEF m
  <2>5. pg1[p].todo = <<>> /\ w1[p] = <<AckMessage(c.id)>> /\ w1[p] # <<>>
    BY <1>6, <2>3, <2>4, SMT
  <2>6. WebAsked(p, s, pg1, w1, c)
    BY <1>6, <2>2, <2>3, <2>5, Zenon DEF WebAsked
  <2>7. p \notin Done(s, page, wire) /\ p \notin Done(s, pg1, w1)
    BY <1>5, <2>5, Zenon DEF Done
  <2> QED
    BY <2>1, <2>6, <2>7, Zenon
<1>10. MeshInvOf(s, pg1, w1, c)
  BY <1>1, <1>6, <1>7, <1>8, <1>9, PageMoves, Zenon
<1> QED
  BY <1>4, <1>10, SMT DEF Answer, MeshInv

LEMMA SayAliveInv == ASSUME MeshInv, NEW p \in Pages, SayAlive(p) PROVE MeshInv'
<1> DEFINE s == server  c == caller  m == [kind |-> "watchdog", id |-> 0]
<1>1. MeshInvOf(s, page, wire, c) /\ PageTypes(p, s, page, wire)
  BY TypedPage, Zenon DEF MeshInv
<1>2. wire[p] \in Seq(Messages) /\ wire \in [Pages -> Seq(Messages)]
  BY <1>1, TypedPage, Zenon
<1>3. m \in Messages /\ m.kind = "watchdog"
  BY SMT DEF Messages
<1>4. PICK w1 : w1 = wire' /\ w1 = [wire EXCEPT ![p] = Append(wire[p], m)]
  BY SMT DEF SayAlive, Send
<1>5. p \in Comms /\ p \notin Webs /\ page[p].status = "open"
  BY MeshcatAssumption, Zenon DEF SayAlive
<1> HIDE DEF m
<1>6. /\ w1 \in [Pages -> Seq(Messages)] /\ w1[p] = Append(wire[p], m)
      /\ \A q \in Pages \ {p} : w1[q] = wire[q]
  <2>1. Append(wire[p], m) \in Seq(Messages)
    BY <1>2, <1>3, Appended, Zenon
  <2> QED
    BY <1>2, <1>4, <2>1, SMT
<1>11. \A k \in DOMAIN w1[p] : \/ k \in DOMAIN wire[p] /\ w1[p][k] = wire[p][k]
                               \/ w1[p][k].kind = "watchdog"
  BY <1>2, <1>3, <1>6, Appended, SMT
<1>7. PageTypes(p, s, page, w1)
  BY <1>1, <1>5, <1>6, Zenon DEF PageTypes
<1>8. CommInv(p, s, page, w1, c)
  <2>1. CommInv(p, s, page, wire, c)
    BY <1>1, <1>5, Zenon DEF MeshInvOf, CommsInv
  <2>2. ASSUME Quiet(p, page, wire) PROVE Quiet(p, page, w1)
    BY <1>11, <2>2, SMT DEF Quiet, IsAck
  <2>3. \A k \in DOMAIN w1[p] : w1[p][k].kind = "open" => k = 1 /\ p \notin s.comms /\ Quiet(p, page, w1)
    BY <1>11, <2>1, <2>2, SMT DEF CommInv
  <2>4. ASSUME p \in s.comms PROVE OwesOnce(p, s, page, w1, c)
    <3>1. OwesOnce(p, s, page, wire, c)
      BY <2>1, <2>4, Zenon DEF CommInv
    <3>2. \A k \in DOMAIN w1[p] : IsAck(w1[p][k]) => k \in DOMAIN wire[p] /\ w1[p][k] = wire[p][k]
      BY <1>11, SMT DEF IsAck
    <3> QED
      BY <3>1, <3>2, <2>2, SMT DEF OwesOnce
  <2> QED
    BY <1>5, <2>3, <2>4, SMT DEF CommInv
<1>10. MeshInvOf(s, page, w1, c)
  BY <1>1, <1>5, <1>6, <1>7, <1>8, PageMoves, Zenon
<1> QED
  BY <1>4, <1>10, SMT DEF SayAlive, MeshInv

---------------------------------------------------------------------------
(* The messages that the server handles.                                   *)

TailAt(w, p) == [w EXCEPT ![p] = Tail(w[p])]

LEMMA WireMoves ==
  ASSUME NEW w \in [Pages -> Seq(Messages)], NEW p \in Pages, w[p] # <<>>
  PROVE  LET w1 == TailAt(w, p) IN
         /\ w1 \in [Pages -> Seq(Messages)] /\ w1[p] = Tail(w[p])
         /\ \A q \in Pages \ {p} : w1[q] = w[q]
         /\ \A k \in DOMAIN w1[p] : /\ k + 1 \in DOMAIN w[p] /\ w1[p][k] = w[p][k + 1]
                                    /\ k \in Nat /\ k # 0
         /\ 1 \in DOMAIN w[p] /\ Head(w[p]) = w[p][1] /\ Head(w[p]) \in Messages
<1> DEFINE w1 == TailAt(w, p)
<1>1. w[p] \in Seq(Messages)
  OBVIOUS
<1>2. /\ Tail(w[p]) \in Seq(Messages) /\ 1 \in DOMAIN w[p] /\ Head(w[p]) = w[p][1]
      /\ Head(w[p]) \in Messages
      /\ \A k \in DOMAIN Tail(w[p]) : /\ k + 1 \in DOMAIN w[p] /\ Tail(w[p])[k] = w[p][k + 1]
                                      /\ k \in Nat /\ k # 0
  BY <1>1, Tailed, Zenon
<1>3. w1 \in [Pages -> Seq(Messages)] /\ w1[p] = Tail(w[p]) /\ \A q \in Pages \ {p} : w1[q] = w[q]
  BY <1>2, Zenon DEF TailAt
<1> QED
  BY <1>2, <1>3, Zenon

\* The server handles a message of a websocket: the comms are not concerned.
LEMMA WebStep ==
  ASSUME NEW s, NEW pg, NEW w, NEW c, MeshInvOf(s, pg, w, c), NEW p \in Webs, w[p] # <<>>,
         NEW s1 \in Servers, IsFiniteSet(s1.webs), s1.comms = s.comms, s1.commAcks = s.commAcks,
         s1.waiting = s.waiting, WebsStay => WebPart(p, s, s1, pg, TailAt(w, p), c)
  PROVE  MeshInvOf(s1, pg, TailAt(w, p), c)
<1> DEFINE w1 == TailAt(w, p)
<1>1. p \in Pages /\ p \notin Comms
  BY MeshcatAssumption DEF Pages
<1>2. w \in [Pages -> Seq(Messages)] /\ PageTypes(p, s, pg, w)
  BY <1>1, TypedPage, Zenon
<1>3. /\ w1 \in [Pages -> Seq(Messages)]
      /\ \A q \in Pages \ {p} : w1[q] = w[q]
      /\ \A k \in DOMAIN w1[p] : k + 1 \in DOMAIN w[p] /\ w1[p][k] = w[p][k + 1]
  BY <1>1, <1>2, WireMoves, Zenon
<1>4. PageTypes(p, s1, pg, w1)
  <2>1. \A k \in DOMAIN w1[p] : w1[p][k].kind # "watchdog"
    BY <1>2, <1>3, Zenon DEF PageTypes
  <2>2. IsFiniteSet(s1.comms)
    BY <1>2, Zenon DEF PageTypes
  <2> QED
    BY <1>2, <1>3, <2>1, <2>2, Zenon DEF PageTypes
<1>5. Elsewhere(p, s, pg, w, s1, pg, w1, c.id)
  BY <1>3, Zenon DEF Elsewhere
<1>6. CommPart(p, s1, pg, w1, c)
  BY <1>1, Zenon DEF CommPart, MeshInvOf, CommsInv
<1> QED
  BY <1>1, <1>4, <1>5, <1>6, PageStep, Zenon

LEMMA HandleWebInv == ASSUME MeshInv, NEW p \in Pages, HandleWeb(p) PROVE MeshInv'
<1> DEFINE s == server  c == caller  m == Head(wire[p])  acks == Append(s.webAcks, m.id)
           w1 == TailAt(wire, p)
<1>1. MeshInvOf(s, page, wire, c) /\ PageTypes(p, s, page, wire)
  BY TypedPage, Zenon DEF MeshInv
<1>2. /\ s \in Servers /\ wire \in [Pages -> Seq(Messages)]
      /\ IsFiniteSet(s.webs) /\ c.id \in Nat /\ page[p].status \in {"new", "open", "closed"}
  BY <1>1, TypedPage, Zenon DEF PageTypes
<1>3. p \in Webs /\ wire[p] # <<>> /\ page' = page
  BY Zenon DEF HandleWeb
<1>4. wire' = w1
  BY SMT DEF HandleWeb, TailAt
<1>5. /\ w1[p] = Tail(wire[p]) /\ 1 \in DOMAIN wire[p] /\ m = wire[p][1] /\ m \in Messages
  BY <1>2, <1>3, WireMoves, Zenon
<1> HIDE DEF w1
<1>6. m.kind \in {"open", "close", "ack"} /\ m.id \in Nat
  <2>1. m.kind # "watchdog"
    BY <1>1, <1>3, <1>5, Zenon DEF PageTypes
  <2> QED
    BY <1>5, <2>1, SMT DEF Messages
<1>7. WebsStay => WebsInv(s, page, wire, c)
  BY <1>1, Zenon DEF MeshInvOf
<1>8. WebsStay => IF s.waiting THEN WebAsked(p, s, page, wire, c) ELSE WebIdle(p, s, page, wire)
  BY <1>3, <1>7, Zenon DEF WebsInv
<1>9. /\ OpenMessage.kind = "open" /\ CloseMessage.kind = "close" /\ AckMessage(c.id).kind = "ack"
      /\ AckMessage(c.id).id = c.id
  BY SMT DEF OpenMessage, CloseMessage, AckMessage
<1>10. \A a, b : /\ Head(<<a>>) = a /\ Head(<<a, b>>) = a /\ Tail(<<a>>) = <<>>
                 /\ Tail(<<a, b>>) = <<b>>
  OBVIOUS
<1>11. CASE m.kind = "open"
  <2> DEFINE s1 == [s EXCEPT !.webs = s.webs \cup {p}]
  <2>1. server' = s1 /\ caller' = c
    BY <1>11 DEF HandleWeb
  <2>2. s.webs \cup {p} \in SUBSET Webs /\ IsFiniteSet(s.webs \cup {p})
    <3>1. s.webs \in SUBSET Webs /\ IsFiniteSet(s.webs \cup {p})
      BY <1>2, FS_AddElement, Zenon DEF Servers
    <3> QED
      BY <1>3, <3>1
  <2>3. /\ s1 \in Servers /\ s1.webs = s.webs \cup {p} /\ s1.comms = s.comms
        /\ s1.commAcks = s.commAcks /\ s1.waiting = s.waiting /\ s1.webAcks = s.webAcks
    BY <1>2, <2>2, ServerFields, Zenon DEF Servers
  <2> HIDE DEF s1
  <2>4. ASSUME WebsStay PROVE WebPart(p, s, s1, page, w1, c)
    <3>1. ~s.waiting
      BY <1>3, <1>8, <1>9, <1>10, <1>11, <2>4, Zenon DEF WebAsked
    <3>2. \/ page[p].status = "open" /\ wire[p] = <<OpenMessage>>
          \/ page[p].status = "closed" /\ wire[p] = <<OpenMessage, CloseMessage>>
      BY <1>3, <1>8, <1>9, <1>10, <1>11, <2>4, <3>1, SMT DEF WebIdle
    <3>3. p \in s1.webs
      BY <2>3
    <3>4. \/ page[p].status = "open" /\ w1[p] = <<>>
          \/ page[p].status = "closed" /\ w1[p] = <<CloseMessage>>
      BY <1>5, <1>10, <3>2, Zenon
    <3>5. WebIdle(p, s1, page, w1)
      BY <1>8, <2>4, <3>1, <3>3, <3>4, Zenon DEF WebIdle
    <3>6. \A q \in Webs \ {p} : q \in s1.webs <=> q \in s.webs
      BY <2>3
    <3> QED
      BY <1>7, <2>3, <2>4, <3>1, <3>5, <3>6, Zenon DEF WebPart, WebsInv
  <2>5. MeshInvOf(s1, page, w1, c)
    BY <1>1, <1>3, <2>2, <2>3, <2>4, WebStep, Zenon DEF w1
  <2> QED
    BY <1>3, <1>4, <2>1, <2>5, SMT DEF MeshInv
<1>12. CASE m.kind = "close"
  <2> DEFINE s1 == [s EXCEPT !.webs = s.webs \ {p}]
  <2>1. server' = s1 /\ caller' = c
    BY <1>12 DEF HandleWeb
  <2>2. s.webs \ {p} \in SUBSET Webs /\ IsFiniteSet(s.webs \ {p})
    <3>1. s.webs \in SUBSET Webs /\ IsFiniteSet(s.webs \ {p})
      BY <1>2, FS_RemoveElement, Zenon DEF Servers
    <3> QED
      BY <1>3, <3>1
  <2>3. /\ s1 \in Servers /\ s1.webs = s.webs \ {p} /\ s1.comms = s.comms
        /\ s1.commAcks = s.commAcks /\ s1.waiting = s.waiting /\ s1.webAcks = s.webAcks
    BY <1>2, <2>2, ServerFields, Zenon DEF Servers
  <2> HIDE DEF s1
  <2>4. ASSUME WebsStay PROVE WebPart(p, s, s1, page, w1, c)
    <3>1. ~s.waiting
      BY <1>3, <1>8, <1>9, <1>10, <1>12, <2>4, Zenon DEF WebAsked
    <3>2. page[p].status = "closed" /\ wire[p] = <<CloseMessage>>
      BY <1>3, <1>8, <1>9, <1>10, <1>12, <2>4, <3>1, SMT DEF WebIdle
    <3>3. p \notin s1.webs
      BY <2>3
    <3>4. w1[p] = <<>>
      BY <1>5, <1>10, <3>2, Zenon
    <3>5. WebIdle(p, s1, page, w1)
      BY <1>8, <2>4, <3>1, <3>2, <3>3, <3>4, Zenon DEF WebIdle
    <3>6. \A q \in Webs \ {p} : q \in s1.webs <=> q \in s.webs
      BY <2>3
    <3> QED
      BY <1>7, <2>3, <2>4, <3>1, <3>5, <3>6, Zenon DEF WebPart, WebsInv
  <2>5. MeshInvOf(s1, page, w1, c)
    BY <1>1, <1>3, <2>2, <2>3, <2>4, WebStep, Zenon DEF w1
  <2> QED
    BY <1>3, <1>4, <2>1, <2>5, SMT DEF MeshInv
<1>13. CASE m.kind = "ack"
  <2> DEFINE s1 == [s EXCEPT !.webAcks = acks]
  <2>1. Deliver(s1, Gathered(s1))
    BY <1>13 DEF HandleWeb
  <2>2. /\ acks \in Seq(Nat) /\ s.webAcks \in Seq(Nat)
        /\ \A k \in DOMAIN acks : (k \in DOMAIN s.webAcks /\ acks[k] = s.webAcks[k]) \/ acks[k] = m.id
        /\ Len(acks) = Len(s.webAcks) + 1
    <3>1. s.webAcks \in Seq(Nat)
      BY <1>2, Zenon DEF Servers
    <3>2. Len(acks) = Len(s.webAcks) + 1
      BY <1>6, <3>1
    <3> QED
      BY <1>6, <3>1, <3>2, Appended, SMT
  <2> HIDE DEF acks, m
  <2>3. /\ s1 \in Servers /\ s1.webs = s.webs /\ s1.comms = s.comms
        /\ s1.commAcks = s.commAcks /\ s1.waiting = s.waiting /\ s1.webAcks = acks
    BY <1>2, <2>2, ServerFields, Zenon DEF Servers
  <2> HIDE DEF s1
  <2>4. ASSUME WebsStay PROVE WebPart(p, s, s1, page, w1, c)
    <3>1. s.waiting
      BY <1>3, <1>8, <1>9, <1>10, <1>13, <2>4, SMT DEF WebIdle, m
    <3>2. p \in s.webs /\ page[p].todo = <<>> /\ wire[p] = <<AckMessage(c.id)>>
      BY <1>3, <1>8, <2>4, <3>1, Zenon DEF WebAsked
    <3>3. m.id = c.id /\ w1[p] = <<>>
      BY <1>5, <1>9, <1>10, <3>2, SMT DEF m
    <3>4. WebAsked(p, s1, page, w1, c)
      BY <1>8, <2>3, <2>4, <3>1, <3>2, <3>3, Zenon DEF WebAsked
    <3>5. \A k \in DOMAIN s1.webAcks : s1.webAcks[k] = c.id
      BY <1>7, <2>2, <2>3, <2>4, <3>3, Zenon DEF WebsInv
    <3>6. Done(s1, page, w1) = Done(s, page, wire) \cup {p}
      <4>1. \A q \in s.webs : q # p => w1[q] = wire[q]
        <5>1. s.webs \subseteq Webs
          BY <1>2, Zenon DEF Servers
        <5>2. \A q \in Pages \ {p} : w1[q] = wire[q]
          BY <1>2, <1>3, WireMoves, Zenon DEF w1
        <5> QED
          BY <5>1, <5>2 DEF Pages
      <4> QED
        BY <2>3, <3>2, <3>3, <4>1, SMT DEF Done
    <3>7. p \notin Done(s, page, wire) /\ IsFiniteSet(Done(s, page, wire))
      BY <1>2, <1>3, FS_Subset, Zenon DEF Done
    <3>8. /\ Cardinality(Done(s1, page, w1)) = Cardinality(Done(s, page, wire)) + 1
      BY <3>6, <3>7, FS_AddElement, Zenon
    <3>9. Len(s1.webAcks) = Cardinality(Done(s1, page, w1))
      BY <1>7, <2>2, <2>3, <2>4, <3>1, <3>8, Zenon DEF WebsInv
    <3> QED
      BY <2>3, <3>1, <3>4, <3>5, <3>9, Zenon DEF WebPart
  <2>5. MeshInvOf(s1, page, w1, c)
    BY <1>1, <1>2, <1>3, <2>3, <2>4, WebStep, Zenon DEF w1
  <2>6. MeshInvOf(Gathered(s1).state, page, w1, Delivered(s1, c))
    BY <2>5, DeliveredInv, Zenon
  <2>7. server' = Gathered(s1).state /\ caller' = Delivered(s1, c)
    BY <2>1, DeliverIsDelivered, Zenon
  <2> QED
    BY <1>3, <1>4, <2>6, <2>7, SMT DEF MeshInv
<1> QED
  BY <1>6, <1>11, <1>12, <1>13, SMT

\* The server handles a message of a comm: the websockets are not concerned.
LEMMA CommStep ==
  ASSUME NEW s, NEW pg, NEW w, NEW c, MeshInvOf(s, pg, w, c), NEW p \in Comms, w[p] # <<>>,
         NEW pg1 \in [Pages -> PageStates], \A q \in Pages \ {p} : pg1[q] = pg[q],
         NEW s1 \in Servers, IsFiniteSet(s1.comms), s1.webs = s.webs, s1.webAcks = s.webAcks,
         s1.waiting = s.waiting,
         \A q \in Comms \ {p} : /\ q \in s1.comms <=> q \in s.comms
                                /\ <<q, c.id>> \in s1.commAcks <=> <<q, c.id>> \in s.commAcks,
         s1.commAcks \subseteq s1.comms \X {c.id}, ~s1.waiting => s1.commAcks = {},
         CommInv(p, s1, pg1, TailAt(w, p), c)
  PROVE  MeshInvOf(s1, pg1, TailAt(w, p), c)
<1> DEFINE w1 == TailAt(w, p)
<1>1. p \in Pages /\ p \notin Webs
  BY MeshcatAssumption DEF Pages
<1>2. w \in [Pages -> Seq(Messages)] /\ PageTypes(p, s, pg, w) /\ s \in Servers
  BY <1>1, TypedPage, Zenon
<1>3. w1 \in [Pages -> Seq(Messages)] /\ \A q \in Pages \ {p} : w1[q] = w[q]
  BY <1>1, <1>2, WireMoves, Zenon
<1> HIDE DEF w1
<1>4. PageTypes(p, s1, pg1, w1)
  <2>1. IsFiniteSet(s1.webs)
    BY <1>2, Zenon DEF PageTypes
  <2> QED
    BY <1>1, <1>2, <1>3, <2>1, Zenon DEF PageTypes
<1>5. Elsewhere(p, s, pg, w, s1, pg1, w1, c.id)
  BY <1>3, Zenon DEF Elsewhere
<1>6. CommPart(p, s1, pg1, w1, c)
  BY <1>1, Zenon DEF CommPart, w1
<1>7. ASSUME WebsStay PROVE WebPart(p, s, s1, pg1, w1, c)
  <2>1. WebsInv(s, pg, w, c)
    BY <1>7, Zenon DEF MeshInvOf
  <2>2. s.webs \subseteq Pages \ {p}
    BY <1>1, <1>2, SMT DEF Servers, Pages
  <2>3. Done(s1, pg1, w1) = Done(s, pg, w)
    <3>1. \A q \in s.webs : pg1[q] = pg[q] /\ w1[q] = w[q]
      BY <1>3, <2>2, Zenon
    <3> QED
      BY <3>1, SMT DEF Done
  <2> QED
    BY <1>1, <2>1, <2>3, Zenon DEF WebPart, WebsInv
<1> QED
  BY <1>1, <1>4, <1>5, <1>6, <1>7, PageStep, Zenon DEF w1

\* What the server is once comms have left its pool, joined it, or answered.
LEMMA LessComms ==
  ASSUME NEW s \in Servers, IsFiniteSet(s.comms), NEW gone
  PROVE  LET r == WithoutComms(s, gone) IN
         /\ r \in Servers /\ r.comms = s.comms \ gone /\ IsFiniteSet(r.comms)
         /\ r.commAcks = {a \in s.commAcks : a[1] \notin gone}
         /\ r.webs = s.webs /\ r.webAcks = s.webAcks /\ r.waiting = s.waiting
         /\ r.watched = s.watched
<1> DEFINE x == s.comms \ gone
           y == {a \in s.commAcks : a[1] \notin gone}
           a0 == [s EXCEPT !.comms = x]
           b == [a0 EXCEPT !.commAcks = y]
<1>1. b = WithoutComms(s, gone)
  BY DEF WithoutComms
<1>2. s.comms \in SUBSET Comms /\ s.commAcks \in SUBSET (Comms \X Nat)
  BY Zenon DEF Servers
<1>3. x \in SUBSET Comms /\ y \in SUBSET (Comms \X Nat) /\ x \subseteq s.comms
  BY <1>2, Zenon
<1>4. IsFiniteSet(x)
  BY <1>3, FS_Subset, Zenon
<1> HIDE DEF x, y
<1>5. /\ a0 \in Servers /\ a0.comms = x /\ a0.commAcks = s.commAcks
      /\ a0.webs = s.webs /\ a0.webAcks = s.webAcks /\ a0.waiting = s.waiting
      /\ a0.watched = s.watched
  BY <1>3, ServerFields, Zenon DEF Servers
<1> HIDE DEF a0
<1>6. /\ b \in Servers /\ b.comms = x /\ b.commAcks = y
      /\ b.webs = s.webs /\ b.webAcks = s.webAcks /\ b.waiting = s.waiting
      /\ b.watched = s.watched
  BY <1>3, <1>5, ServerFields, Zenon DEF Servers
<1> HIDE DEF b
<1> QED
  BY <1>1, <1>4, <1>6 DEF x, y

LEMMA OneMoreComm ==
  ASSUME NEW s \in Servers, IsFiniteSet(s.comms), NEW p \in Comms
  PROVE  LET r == [s EXCEPT !.comms = @ \cup {p}, !.watched = @ \cup {p}] IN
         /\ r \in Servers /\ r.comms = s.comms \cup {p} /\ IsFiniteSet(r.comms)
         /\ r.commAcks = s.commAcks
         /\ r.webs = s.webs /\ r.webAcks = s.webAcks /\ r.waiting = s.waiting
<1> DEFINE x == s.comms \cup {p}
           y == s.watched \cup {p}
           a == [s EXCEPT !.comms = x]
           b == [a EXCEPT !.watched = y]
<1>1. b = [s EXCEPT !.comms = @ \cup {p}, !.watched = @ \cup {p}]
  OBVIOUS
<1>2. s.comms \in SUBSET Comms /\ s.watched \in SUBSET Comms
  BY Zenon DEF Servers
<1>3. x \in SUBSET Comms /\ y \in SUBSET Comms
  BY <1>2, Zenon
<1>4. IsFiniteSet(x)
  BY FS_AddElement, Zenon
<1> HIDE DEF x, y
<1>5. /\ a \in Servers /\ a.comms = x /\ a.commAcks = s.commAcks
      /\ a.webs = s.webs /\ a.webAcks = s.webAcks /\ a.waiting = s.waiting
  BY <1>3, ServerFields, Zenon DEF Servers
<1> HIDE DEF a
<1>6. /\ b \in Servers /\ b.comms = x /\ b.commAcks = s.commAcks
      /\ b.webs = s.webs /\ b.webAcks = s.webAcks /\ b.waiting = s.waiting
  BY <1>3, <1>5, ServerFields, Zenon DEF Servers
<1> HIDE DEF b
<1> QED
  BY <1>1, <1>4, <1>6 DEF x, y

LEMMA OneMoreAck ==
  ASSUME NEW s \in Servers, NEW p \in s.comms, NEW id \in Nat
  PROVE  LET r == AckedBy(s, p, id) IN
         /\ r \in Servers /\ r.comms = s.comms
         /\ r.commAcks = {a \in s.commAcks : a[1] # p} \cup {<<p, id>>}
         /\ r.webs = s.webs /\ r.webAcks = s.webAcks /\ r.waiting = s.waiting
<1> DEFINE y == {a \in s.commAcks : a[1] # p} \cup {<<p, id>>}
<1>1. AckedBy(s, p, id) = [s EXCEPT !.commAcks = y]
  BY DEF AckedBy
<1>2. p \in Comms /\ s.commAcks \in SUBSET (Comms \X Nat)
  BY Zenon DEF Servers
<1>3. y \in SUBSET (Comms \X Nat)
  BY <1>2, SMT
<1> HIDE DEF y
<1>4. LET r == [s EXCEPT !.commAcks = y] IN
         /\ r \in Servers /\ r.comms = s.comms /\ r.commAcks = y
         /\ r.webs = s.webs /\ r.webAcks = s.webAcks /\ r.waiting = s.waiting
  BY <1>3, ServerFields, Zenon DEF Servers
<1> QED
  BY <1>1, <1>4, Zenon DEF y

\* Once the state without reply satisfies the invariant, so does the one with it.
LEMMA HandledInv ==
  ASSUME NEW s1, NEW pg1, NEW w1, MeshInvOf(s1, pg1, w1, caller), Deliver(s1, Gathered(s1)),
         page' = pg1, wire' = w1
  PROVE  MeshInv'
<1>1. MeshInvOf(Gathered(s1).state, pg1, w1, Delivered(s1, caller))
  BY DeliveredInv, Zenon
<1>2. server' = Gathered(s1).state /\ caller' = Delivered(s1, caller)
  BY DeliverIsDelivered, Zenon
<1> QED
  BY <1>1, <1>2, SMT DEF MeshInv

LEMMA HandleCommInv == ASSUME MeshInv, NEW p \in Pages, HandleComm(p) PROVE MeshInv'
<1> DEFINE s == server  c == caller  m == Head(wire[p])  w1 == TailAt(wire, p)
<1>1. MeshInvOf(s, page, wire, c)
  BY Zenon DEF MeshInv
<1>2. /\ s \in Servers /\ wire \in [Pages -> Seq(Messages)] /\ page \in [Pages -> PageStates]
      /\ page[p] \in PageStates /\ page[p].todo \in Seq(Nat)
      /\ c.id \in Nat /\ PageTypes(p, s, page, wire)
  BY <1>1, TypedPage, Zenon
<1>3. IsFiniteSet(s.comms)
  BY <1>2, Zenon DEF PageTypes
<1>4. p \in Comms /\ wire[p] # <<>>
  BY Zenon DEF HandleComm
<1>5. wire' = w1
  BY SMT DEF HandleComm, TailAt
<1>6. /\ 1 \in DOMAIN wire[p] /\ m = wire[p][1] /\ m \in Messages
      /\ \A k \in DOMAIN w1[p] : /\ k + 1 \in DOMAIN wire[p] /\ w1[p][k] = wire[p][k + 1]
                                 /\ k \in Nat /\ k # 0
  BY <1>2, <1>4, WireMoves, Zenon
<1> HIDE DEF w1
<1>7. /\ CommInv(p, s, page, wire, c) /\ s.commAcks \subseteq s.comms \X {c.id}
      /\ ~s.waiting => s.commAcks = {}
  BY <1>1, <1>4, Zenon DEF MeshInvOf, CommsInv
\* What follows the message holds less than what came with it.
<1>8. page[p].status # "new" /\ \A k \in DOMAIN w1[p] : w1[p][k].kind # "open"
  BY <1>4, <1>6, <1>7, SMT DEF CommInv
<1>9. Quiet(p, page, wire) => Quiet(p, page, w1)
  BY <1>6, SMT DEF Quiet
<1>10. OwesOnce(p, s, page, wire, c) => OwesOnce(p, s, page, w1, c)
  <2> SUFFICES ASSUME OwesOnce(p, s, page, wire, c) PROVE OwesOnce(p, s, page, w1, c)
    OBVIOUS
  <2>1. page[p].todo # <<>> => page[p].todo = <<c.id>> /\ \A k \in DOMAIN w1[p] : ~IsAck(w1[p][k])
    BY <1>6, Zenon DEF OwesOnce
  <2>2. \A k \in DOMAIN w1[p] : IsAck(w1[p][k]) => w1[p][k].id = c.id
    BY <1>6, Zenon DEF OwesOnce
  <2>3. \A j, k \in DOMAIN w1[p] : IsAck(w1[p][j]) /\ IsAck(w1[p][k]) => j = k
    <3> SUFFICES ASSUME NEW j \in DOMAIN w1[p], NEW k \in DOMAIN w1[p],
                        IsAck(w1[p][j]), IsAck(w1[p][k])
                 PROVE  j = k
      OBVIOUS
    <3>1. j + 1 = k + 1
      BY <1>6, Zenon DEF OwesOnce
    <3> QED
      BY <1>6, <3>1
  <2> QED
    BY <1>9, <2>1, <2>2, <2>3, Zenon DEF OwesOnce
<1>11. ASSUME m.kind # "open" PROVE page' = page
  BY <1>11 DEF HandleComm
<1>12. ASSUME m.kind = "open",
              Deliver([s EXCEPT !.comms = @ \cup {p}, !.watched = @ \cup {p}],
                      Gathered([s EXCEPT !.comms = @ \cup {p}, !.watched = @ \cup {p}]))
       PROVE  MeshInv'
  <2> DEFINE s1 == [s EXCEPT !.comms = @ \cup {p}, !.watched = @ \cup {p}]
  <2>1. /\ s1 \in Servers /\ s1.comms = s.comms \cup {p} /\ IsFiniteSet(s1.comms)
        /\ s1.commAcks = s.commAcks
        /\ s1.webs = s.webs /\ s1.webAcks = s.webAcks /\ s1.waiting = s.waiting
    BY <1>2, <1>3, <1>4, OneMoreComm, Zenon
  <2>2. Deliver(s1, Gathered(s1))
    BY <1>12, Zenon
  <2> HIDE DEF s1
  <2>3. p \notin s.comms /\ Quiet(p, page, wire)
    BY <1>6, <1>7, <1>12, Zenon DEF CommInv
  <2>4. <<p, c.id>> \notin s.commAcks
    BY <1>7, <2>3
  <2>5. \A q \in Comms \ {p} : /\ q \in s1.comms <=> q \in s.comms
                               /\ <<q, c.id>> \in s1.commAcks <=> <<q, c.id>> \in s.commAcks
    BY <2>1
  <2>6. s1.commAcks \subseteq s1.comms \X {c.id} /\ (~s1.waiting => s1.commAcks = {})
    BY <1>7, <2>1
  <2>7. CASE s.waiting /\ page[p].status = "open"
    <3> DEFINE t1 == Append(page[p].todo, c.id)
               pg1 == [page EXCEPT ![p] = [page[p] EXCEPT !.todo = t1]]
    <3>1. page' = pg1
      BY <1>12, <2>7 DEF HandleComm
    <3>2. page[p].todo = <<>>
      BY <2>3, Zenon DEF Quiet
    <3>3. t1 = <<c.id>> /\ t1 \in Seq(Nat)
      BY <1>2, <3>2
    <3> HIDE DEF t1
    <3>4. /\ pg1[p].todo = t1 /\ pg1[p].status = page[p].status
          /\ pg1 \in [Pages -> PageStates] /\ \A q \in Pages \ {p} : pg1[q] = page[q]
      <4>1. LET x == [page[p] EXCEPT !.todo = t1]
            IN x.todo = t1 /\ x.status = page[p].status /\ x \in PageStates
        BY <1>2, <3>3, Zenon DEF PageStates
      <4>2. pg1[p] = [page[p] EXCEPT !.todo = t1]
        BY <1>2, Zenon
      <4> QED
        BY <1>2, <4>1, <4>2, Zenon
    <3> HIDE DEF pg1
    <3>5. \A k \in DOMAIN w1[p] : ~IsAck(w1[p][k])
      BY <1>9, <2>3, Zenon DEF Quiet
    <3>6. OwesOnce(p, s1, pg1, w1, c)
      BY <2>1, <2>4, <2>7, <3>3, <3>4, <3>5, Zenon DEF OwesOnce
    <3>7. CommInv(p, s1, pg1, w1, c)
      BY <1>8, <3>4, <3>6, Zenon DEF CommInv
    <3>8. MeshInvOf(s1, pg1, w1, c)
      BY <1>1, <1>4, <2>1, <2>5, <2>6, <3>4, <3>7, CommStep, Zenon DEF w1
    <3> QED
      BY <1>5, <2>2, <3>1, <3>8, HandledInv, Zenon
  <2>8. CASE ~(s.waiting /\ page[p].status = "open")
    <3>1. page' = page
      BY <2>8 DEF HandleComm
    <3>2. Quiet(p, page, w1) /\ page[p].todo = <<>>
      BY <1>9, <2>3, Zenon DEF Quiet
    <3>3. OwesOnce(p, s1, page, w1, c)
      BY <3>2, Zenon DEF OwesOnce, Quiet
    <3>4. CommInv(p, s1, page, w1, c)
      BY <1>8, <3>3, Zenon DEF CommInv
    <3>5. MeshInvOf(s1, page, w1, c)
      BY <1>1, <1>2, <1>4, <2>1, <2>5, <2>6, <3>4, CommStep, Zenon DEF w1
    <3> QED
      BY <1>5, <2>2, <3>1, <3>5, HandledInv, Zenon
  <2> QED
    BY <2>7, <2>8, Zenon
<1>13. ASSUME m.kind = "close", Deliver(WithoutComms(s, {p}), Gathered(WithoutComms(s, {p})))
       PROVE  MeshInv'
  <2> DEFINE s1 == WithoutComms(s, {p})
  <2>1. /\ s1 \in Servers /\ s1.comms = s.comms \ {p} /\ IsFiniteSet(s1.comms)
        /\ s1.commAcks = {a \in s.commAcks : a[1] \notin {p}}
        /\ s1.webs = s.webs /\ s1.webAcks = s.webAcks /\ s1.waiting = s.waiting
    BY <1>2, <1>3, LessComms, Zenon
  <2>2. Deliver(s1, Gathered(s1)) /\ page' = page
    BY <1>11, <1>13, SMT
  <2> HIDE DEF s1
  <2>3. \A q \in Comms \ {p} : /\ q \in s1.comms <=> q \in s.comms
                               /\ <<q, c.id>> \in s1.commAcks <=> <<q, c.id>> \in s.commAcks
    BY <2>1
  <2>4. s1.commAcks \subseteq s1.comms \X {c.id} /\ (~s1.waiting => s1.commAcks = {})
    <3>1. \A a \in s1.commAcks : a \in s1.comms \X {c.id}
      BY <1>7, <2>1
    <3> QED
      BY <1>7, <2>1, <3>1
  <2>5. CommInv(p, s1, page, w1, c)
    <3>1. p \notin s1.comms
      BY <2>1
    <3> QED
      BY <1>8, <3>1, Zenon DEF CommInv
  <2>6. MeshInvOf(s1, page, w1, c)
    BY <1>1, <1>2, <1>4, <2>1, <2>3, <2>4, <2>5, CommStep, Zenon DEF w1
  <2> QED
    BY <1>5, <2>2, <2>6, HandledInv, Zenon
<1>14. ASSUME m.kind = "ack", Deliver(AckedBy(s, p, m.id), Gathered(AckedBy(s, p, m.id)))
       PROVE  MeshInv'
  <2> DEFINE s1 == AckedBy(s, p, m.id)
  <2>1. page' = page
    BY <1>11, <1>14
  <2>2. CASE p \notin s.comms
    <3>1. s1 = s
      BY <2>2 DEF AckedBy
    <3>2. CommInv(p, s, page, w1, c)
      BY <1>8, <2>2, Zenon DEF CommInv
    <3>3. MeshInvOf(s, page, w1, c)
      BY <1>1, <1>2, <1>3, <1>4, <1>7, <3>2, CommStep, Zenon DEF w1
    <3>4. Deliver(s, Gathered(s))
      BY <1>14, <3>1
    <3> QED
      BY <1>5, <2>1, <3>3, <3>4, HandledInv, Zenon
  <2>3. CASE p \in s.comms
    <3>1. OwesOnce(p, s, page, wire, c)
      BY <1>7, <2>3, Zenon DEF CommInv
    <3>2. IsAck(wire[p][1]) /\ m.id = c.id
      BY <1>6, <1>14, <3>1, Zenon DEF OwesOnce, IsAck
    <3>3. s.waiting /\ page[p].todo = <<>>
      BY <1>6, <3>1, <3>2, Zenon DEF OwesOnce, Quiet
    <3>4. \A k \in DOMAIN w1[p] : ~IsAck(w1[p][k])
      <4> SUFFICES ASSUME NEW k \in DOMAIN w1[p], IsAck(w1[p][k]) PROVE FALSE
        OBVIOUS
      <4>1. k + 1 = 1
        BY <1>6, <3>1, <3>2, Zenon DEF OwesOnce
      <4> QED
        BY <1>6, <4>1
    <3>5. /\ s1 \in Servers /\ s1.comms = s.comms
          /\ s1.commAcks = {a \in s.commAcks : a[1] # p} \cup {<<p, c.id>>}
          /\ s1.webs = s.webs /\ s1.webAcks = s.webAcks /\ s1.waiting = s.waiting
      BY <1>2, <2>3, <3>2, OneMoreAck
    <3> HIDE DEF s1
    <3>6. \A q \in Comms \ {p} : /\ q \in s1.comms <=> q \in s.comms
                                 /\ <<q, c.id>> \in s1.commAcks <=> <<q, c.id>> \in s.commAcks
      BY <3>5
    <3>7. s1.commAcks \subseteq s1.comms \X {c.id} /\ (~s1.waiting => s1.commAcks = {})
      BY <1>7, <2>3, <3>3, <3>5
    <3>8. OwesOnce(p, s1, page, w1, c)
      BY <3>3, <3>4, Zenon DEF OwesOnce, Quiet
    <3>9. CommInv(p, s1, page, w1, c)
      BY <1>8, <3>8, Zenon DEF CommInv
    <3>12. IsFiniteSet(s1.comms)
      BY <1>3, <3>5
    <3>10. MeshInvOf(s1, page, w1, c)
      BY <1>1, <1>2, <1>4, <3>5, <3>6, <3>7, <3>9, <3>12, CommStep, Zenon DEF w1
    <3>11. Deliver(s1, Gathered(s1))
      BY <1>14, Zenon DEF s1
    <3> QED
      BY <1>5, <2>1, <3>10, <3>11, HandledInv, Zenon
  <2> QED
    BY <2>2, <2>3, Zenon
<1>15. ASSUME m.kind = "watchdog", server' = [s EXCEPT !.watched = @ \cup {p}], UNCHANGED caller
       PROVE  MeshInv'
  <2> DEFINE s1 == [s EXCEPT !.watched = s.watched \cup {p}]
  <2>1. page' = page
    BY <1>11, <1>15
  <2>2. s.watched \cup {p} \in SUBSET Comms
    <3>1. s.watched \in SUBSET Comms
      BY <1>2, Zenon DEF Servers
    <3> QED
      BY <1>4, <3>1
  <2>3. /\ s1 \in Servers /\ s1.comms = s.comms /\ s1.commAcks = s.commAcks
        /\ s1.webs = s.webs /\ s1.webAcks = s.webAcks /\ s1.waiting = s.waiting
    BY <1>2, <2>2, ServerFields, Zenon DEF Servers
  <2>4. server' = s1
    BY <1>15
  <2> HIDE DEF s1
  <2>5. CommInv(p, s1, page, w1, c)
    <3>1. p \in s1.comms => OwesOnce(p, s, page, w1, c)
      BY <1>7, <1>10, <2>3, Zenon DEF CommInv
    <3>2. p \in s1.comms => OwesOnce(p, s1, page, w1, c)
      BY <2>3, <3>1, SMT DEF OwesOnce
    <3> QED
      BY <1>8, <3>2, Zenon DEF CommInv
  <2>6. /\ IsFiniteSet(s1.comms) /\ s1.commAcks \subseteq s1.comms \X {c.id}
        /\ ~s1.waiting => s1.commAcks = {}
    BY <1>3, <1>7, <2>3
  <2>7. MeshInvOf(s1, page, w1, c)
    BY <1>1, <1>2, <1>4, <2>3, <2>5, <2>6, CommStep, Zenon DEF w1
  <2> QED
    BY <1>5, <1>15, <2>1, <2>4, <2>7, SMT DEF MeshInv
<1> QED
  BY <1>12, <1>13, <1>14, <1>15, Zenon DEF HandleComm

\* Those that leave the pool take their acknowledgement with them.
LEMMA WatchdogInv == ASSUME MeshInv, Watchdog PROVE MeshInv'
<1> DEFINE s == server  c == caller  gone == s.comms \ s.watched  s0 == WithoutComms(s, gone)
           s1 == [s0 EXCEPT !.watched = {}]
<1>1. MeshInvOf(s, page, wire, c) /\ MeshTypes(s, page, wire, c)
  BY Zenon DEF MeshInv, MeshInvOf
<1>2. s \in Servers /\ IsFiniteSet(s.comms) /\ IsFiniteSet(s.webs)
  BY <1>1, Zenon DEF MeshTypes
<1>3. Deliver(s1, Gathered(s1)) /\ page' = page /\ wire' = wire
  BY Zenon DEF Watchdog
<1>4. /\ s0 \in Servers /\ s0.comms = s.comms \ gone /\ IsFiniteSet(s0.comms)
      /\ s0.commAcks = {a \in s.commAcks : a[1] \notin gone}
      /\ s0.webs = s.webs /\ s0.webAcks = s.webAcks /\ s0.waiting = s.waiting
  BY <1>2, LessComms, Zenon
<1> HIDE DEF gone, s0
<1>5. {} \in SUBSET Comms
  OBVIOUS
<1>6. /\ s1 \in Servers /\ s1.comms = s.comms \ gone /\ IsFiniteSet(s1.comms)
      /\ s1.commAcks = {a \in s.commAcks : a[1] \notin gone}
      /\ s1.webs = s.webs /\ s1.webAcks = s.webAcks /\ s1.waiting = s.waiting
  BY <1>4, <1>5, ServerFields, Zenon DEF Servers
<1> HIDE DEF s1
<1>7. MeshTypes(s1, page, wire, c)
  BY <1>1, <1>6, Zenon DEF MeshTypes
<1>8. Turns(s1, c)
  BY <1>1, <1>6, SMT DEF MeshInvOf, Turns
<1>9. CommsInv(s1, page, wire, c)
  <2>1. CommsInv(s, page, wire, c)
    BY <1>1, Zenon DEF MeshInvOf
  <2>2. s1.commAcks \subseteq s1.comms \X {c.id}
    <3>1. s.commAcks \subseteq s.comms \X {c.id}
      BY <2>1, Zenon DEF CommsInv
    <3>2. \A a \in s1.commAcks : a \in s1.comms \X {c.id}
      BY <1>6, <3>1
    <3> QED
      BY <3>2
  <2>3. ~s1.waiting => s1.commAcks = {}
    BY <1>6, <2>1 DEF CommsInv
  <2>4. ASSUME NEW q \in Comms PROVE CommInv(q, s1, page, wire, c)
    <3>1. CommInv(q, s, page, wire, c)
      BY <2>1, Zenon DEF CommsInv
    <3>2. q \in s1.comms => q \in s.comms
      BY <1>6
    <3>3. <<q, c.id>> \in s1.commAcks => <<q, c.id>> \in s.commAcks
      BY <1>6
    <3>4. q \in s1.comms => OwesOnce(q, s1, page, wire, c)
      BY <1>6, <3>1, <3>2, <3>3, SMT DEF CommInv, OwesOnce
    <3> QED
      BY <3>1, <3>2, <3>4, Zenon DEF CommInv
  <2> QED
    BY <2>2, <2>3, <2>4, Zenon DEF CommsInv
<1>10. ASSUME WebsStay PROVE WebsInv(s1, page, wire, c)
  <2>1. WebsInv(s, page, wire, c)
    BY <1>1, <1>10, Zenon DEF MeshInvOf
  <2>2. Done(s1, page, wire) = Done(s, page, wire)
    BY <1>6, SMT DEF Done
  <2> QED
    BY <1>6, <2>1, <2>2, SMT DEF WebsInv, WebAsked, WebIdle
<1>11. ReplyInv(c)
  BY <1>1, Zenon DEF MeshInvOf
<1>12. MeshInvOf(s1, page, wire, c)
  BY <1>7, <1>8, <1>9, <1>10, <1>11, Zenon DEF MeshInvOf
<1> QED
  BY <1>3, <1>12, HandledInv, Zenon

---------------------------------------------------------------------------
(* Python asks.                                                            *)

\* Python moves and the server knows nothing of it.
LEMMA CallerStep ==
  ASSUME NEW s, NEW pg, NEW w, NEW c, MeshInvOf(s, pg, w, c),
         NEW c1 \in Callers, c1.id = c.id, Turns(s, c1), ReplyInv(c1)
  PROVE  MeshInvOf(s, pg, w, c1)
<1>1. MeshTypes(s, pg, w, c1)
  BY Zenon DEF MeshInvOf, MeshTypes
<1>2. CommsInv(s, pg, w, c1)
  <2>1. CommsInv(s, pg, w, c)
    BY Zenon DEF MeshInvOf
  <2> QED
    BY <2>1, SMT DEF CommsInv, CommInv, OwesOnce
<1>3. ASSUME WebsStay PROVE WebsInv(s, pg, w, c1)
  <2>1. WebsInv(s, pg, w, c)
    BY <1>3, Zenon DEF MeshInvOf
  <2> QED
    BY <2>1, SMT DEF WebsInv, WebAsked
<1> QED
  BY <1>1, <1>2, <1>3, Zenon DEF MeshInvOf

LEMMA AskPageInv == ASSUME MeshInv, AskPage PROVE MeshInv'
<1> DEFINE c1 == [caller EXCEPT !.pc = "wait"]
<1>1. MeshInvOf(server, page, wire, caller) /\ caller \in Callers
  BY Zenon DEF MeshInv, MeshInvOf, MeshTypes
<1>2. caller.pc = "idle" /\ caller' = c1 /\ server' = server /\ page' = page /\ wire' = wire
  BY Zenon DEF AskPage
<1>3. c1 \in Callers /\ c1.pc = "wait" /\ c1.id = caller.id /\ c1.reply = caller.reply
  BY <1>1, SMT DEF Callers
<1> HIDE DEF c1
<1>4. Turns(server, c1) /\ ReplyInv(c1)
  BY <1>1, <1>2, <1>3, SMT DEF MeshInvOf, Turns, ReplyInv
<1>5. MeshInvOf(server, page, wire, c1)
  BY <1>1, <1>3, <1>4, CallerStep, Zenon
<1> QED
  BY <1>2, <1>5, SMT DEF MeshInv

LEMMA ReplyPageInv == ASSUME MeshInv, ReplyPage PROVE MeshInv'
<1> DEFINE c1 == [caller EXCEPT !.pc = "ask"]
<1>1. MeshInvOf(server, page, wire, caller) /\ caller \in Callers
  BY Zenon DEF MeshInv, MeshInvOf, MeshTypes
<1>2. caller.pc = "wait" /\ caller' = c1 /\ server' = server /\ page' = page /\ wire' = wire
  BY Zenon DEF ReplyPage
<1>3. c1 \in Callers /\ c1.pc = "ask" /\ c1.id = caller.id /\ c1.reply = caller.reply
  BY <1>1, SMT DEF Callers
<1> HIDE DEF c1
<1>4. Turns(server, c1) /\ ReplyInv(c1)
  BY <1>1, <1>2, <1>3, SMT DEF MeshInvOf, Turns, ReplyInv
<1>5. MeshInvOf(server, page, wire, c1)
  BY <1>1, <1>3, <1>4, CallerStep, Zenon
<1> QED
  BY <1>2, <1>5, SMT DEF MeshInv

LEMMA AskReadyInv == ASSUME MeshInv, AskReady PROVE MeshInv'
<1> DEFINE s == server  c == caller
           asked(p) == p \in s.webs \cup s.comms /\ page[p].status = "open"
<1>1. MeshInvOf(s, page, wire, c) /\ MeshTypes(s, page, wire, c)
  BY Zenon DEF MeshInv, MeshInvOf
<1>2. /\ s \in Servers /\ c \in Callers /\ c.id \in Nat
      /\ page \in [Pages -> PageStates] /\ wire \in [Pages -> Seq(Messages)]
      /\ s.webs \subseteq Webs /\ s.comms \subseteq Comms
  BY <1>1, SMT DEF MeshTypes, Callers, Servers
<1>3. c.pc \in {"idle", "ask"}
  BY Zenon DEF AskReady
<1>4. ~s.waiting
  BY <1>1, <1>3, SMT DEF MeshInvOf, Turns
<1>5. CASE s.webs \cup s.comms = {}
  <2> DEFINE c0 == [c EXCEPT !.pc = "idle"]
             c1 == [c0 EXCEPT !.reply = None]
  <2>1. caller' = c1 /\ server' = server /\ page' = page /\ wire' = wire
    <3>1. caller' = [c EXCEPT !.pc = "idle", !.reply = None]
      BY <1>5 DEF AskReady
    <3> QED
      BY <1>5, <3>1 DEF AskReady
  <2>2. c0 \in Callers /\ c0.pc = "idle" /\ c0.id = c.id
    <3>1. c \in Callers
      BY <1>2
    <3> QED
      BY <3>1, SMT DEF Callers
  <2> HIDE DEF c0
  <2>3. c1 \in Callers /\ c1.pc = "idle" /\ c1.id = c.id /\ c1.reply = None
    BY <2>2, SMT DEF Callers
  <2> HIDE DEF c1
  <2>4. Turns(s, c1) /\ ReplyInv(c1)
    BY <1>4, <2>3, SMT DEF Turns, ReplyInv
  <2>5. MeshInvOf(s, page, wire, c1)
    BY <1>1, <2>3, <2>4, CallerStep, Zenon
  <2> QED
    BY <2>1, <2>5, SMT DEF MeshInv
<1>6. CASE s.webs \cup s.comms # {}
  <2> DEFINE n == c.id + 1
             s1 == [s EXCEPT !.waiting = TRUE]
             pg1 == [p \in Pages |-> IF asked(p)
                       THEN [page[p] EXCEPT !.todo = Append(page[p].todo, n)] ELSE page[p]]
             c1 == [pc |-> "ready", id |-> n, reply |-> None]
  <2>1. server' = s1
    BY <1>6 DEF AskReady
  <2>2. page' = pg1
    BY <1>6 DEF AskReady
  <2>3. caller' = c1
    BY <1>6 DEF AskReady
  <2>4. PICK gone \in SUBSET {p \in s.comms : page[p].status = "closed"} : wire' = Bounced(gone)
    BY <1>6, Zenon DEF AskReady
  <2> DEFINE w1 == Bounced(gone)
  <2>5. n \in Nat
    BY <1>2
  <2> HIDE DEF n
  <2>6. c1 \in Callers /\ c1.pc = "ready" /\ c1.id = n /\ c1.reply = None
    BY <2>5, SMT DEF Callers
  <2> HIDE DEF c1
  <2>7. /\ s1 \in Servers /\ s1.webs = s.webs /\ s1.comms = s.comms /\ s1.webAcks = s.webAcks
        /\ s1.commAcks = s.commAcks /\ s1.waiting
    <3>1. TRUE \in BOOLEAN
      OBVIOUS
    <3> QED
      BY <1>2, <3>1, ServerFields, Zenon DEF Servers
  <2> HIDE DEF s1
  <2>8. ASSUME NEW p \in Pages
        PROVE  /\ pg1[p] \in PageStates /\ pg1[p].status = page[p].status
               /\ pg1[p].todo = IF asked(p) THEN Append(page[p].todo, n) ELSE page[p].todo
    <3>1. page[p] \in PageStates /\ page[p].todo \in Seq(Nat)
      BY <1>2, Zenon DEF PageStates
    <3>2. Append(page[p].todo, n) \in Seq(Nat)
      BY <2>5, <3>1, Appended, Zenon
    <3>3. LET x == [page[p] EXCEPT !.todo = Append(page[p].todo, n)]
          IN x \in PageStates /\ x.status = page[p].status /\ x.todo = Append(page[p].todo, n)
      BY <3>1, <3>2, Zenon DEF PageStates
    <3>4. pg1[p] = IF asked(p) THEN [page[p] EXCEPT !.todo = Append(page[p].todo, n)] ELSE page[p]
      BY Zenon
    <3> QED
      BY <3>1, <3>3, <3>4, Zenon
  <2>9. pg1 \in [Pages -> PageStates]
    <3>1. pg1 = [p \in Pages |-> pg1[p]]
      BY Zenon
    <3> QED
      BY <2>8, <3>1, Zenon
  <2>10. ASSUME NEW p \in Pages
         PROVE  /\ w1[p] \in Seq(Messages)
                /\ p \notin gone => w1[p] = wire[p]
                /\ \A k \in DOMAIN w1[p] : \/ k \in DOMAIN wire[p] /\ w1[p][k] = wire[p][k]
                                           \/ w1[p][k].kind = "close"
    <3>1. wire[p] \in Seq(Messages)
      BY <1>2, Zenon
    <3>2. CloseMessage \in Messages /\ CloseMessage.kind = "close"
      BY SMT DEF CloseMessage, Messages
    <3>3. w1[p] = IF p \in gone THEN Append(wire[p], CloseMessage) ELSE wire[p]
      BY Zenon DEF Bounced, CloseMessage
    <3> QED
      BY <3>1, <3>2, <3>3, Appended, SMT
  <2>11. w1 \in [Pages -> Seq(Messages)]
    <3>1. w1 = [p \in Pages |-> w1[p]]
      BY Zenon DEF Bounced
    <3> QED
      BY <2>10, <3>1, Zenon
  <2>12. gone \subseteq Comms /\ \A p \in gone : p \in s.comms /\ page[p].status = "closed"
    BY <1>2, <2>4
  <2> HIDE DEF pg1, w1, asked
  <2>13. MeshTypes(s1, pg1, w1, c1)
    <3>1. ASSUME NEW p \in Webs PROVE \A k \in DOMAIN w1[p] : w1[p][k].kind # "watchdog"
      <4>1. p \in Pages /\ p \notin gone
        BY <2>12, MeshcatAssumption DEF Pages
      <4>2. w1[p] = wire[p]
        BY <2>10, <4>1, Zenon
      <4>3. \A k \in DOMAIN wire[p] : wire[p][k].kind # "watchdog"
        BY <1>1, <3>1, Zenon DEF MeshTypes
      <4> QED
        BY <4>2, <4>3
    <3> QED
      BY <1>1, <2>6, <2>7, <2>9, <2>11, <3>1, Zenon DEF MeshTypes
  <2>14. Turns(s1, c1)
    BY <2>6, <2>7, SMT DEF Turns
  <2>15. CommsInv(s, page, wire, c)
    BY <1>1, Zenon DEF MeshInvOf
  <2>16. s.commAcks = {}
    BY <1>4, <2>15, Zenon DEF CommsInv
  <2>17. ASSUME NEW p \in Comms PROVE CommInv(p, s1, pg1, w1, c1)
    <3>1. CommInv(p, s, page, wire, c) /\ p \in Pages
      BY <2>15, Zenon DEF CommsInv, Pages
    <3>2. p \notin s.comms => pg1[p].todo = page[p].todo /\ w1[p] = wire[p]
      <4>1. p \notin s.comms => ~asked(p)
        BY <1>2, MeshcatAssumption, SMT DEF asked
      <4> QED
        BY <2>8, <2>10, <2>12, <3>1, <4>1, Zenon
    <3>3. p \in s.comms => Quiet(p, page, wire)
      BY <1>4, <3>1, Zenon DEF CommInv, OwesOnce
    <3>4. pg1[p].status = "new" => pg1[p].todo = <<>> /\ w1[p] = <<>> /\ p \notin s1.comms
      BY <2>7, <2>8, <3>1, <3>2, Zenon DEF CommInv
    <3>5. ASSUME NEW k \in DOMAIN w1[p], w1[p][k].kind = "open"
          PROVE  k = 1 /\ p \notin s1.comms /\ Quiet(p, pg1, w1)
      <4>1. k \in DOMAIN wire[p] /\ wire[p][k].kind = "open"
        BY <2>10, <3>1, <3>5, SMT
      <4>2. k = 1 /\ p \notin s.comms /\ Quiet(p, page, wire)
        BY <3>1, <4>1, Zenon DEF CommInv
      <4> QED
        BY <2>7, <3>2, <4>2, SMT DEF Quiet
    <3>6. ASSUME p \in s1.comms PROVE OwesOnce(p, s1, pg1, w1, c1)
      <4>1. Quiet(p, page, wire)
        BY <2>7, <3>3, <3>6, Zenon
      <4>2. \A k \in DOMAIN w1[p] : ~IsAck(w1[p][k])
        BY <2>10, <3>1, <4>1, SMT DEF Quiet, IsAck
      <4>3. pg1[p].todo = <<>> \/ pg1[p].todo = <<n>>
        <5>1. Append(<<>>, n) = <<n>>
          BY <2>5
        <5>2. page[p].todo = <<>>
          BY <4>1, Zenon DEF Quiet
        <5> QED
          BY <2>8, <3>1, <5>1, <5>2, Zenon
      <4>4. <<p, c1.id>> \notin s1.commAcks
        BY <2>7, <2>16
      <4> QED
        BY <2>6, <2>7, <4>2, <4>3, <4>4, Zenon DEF OwesOnce
    <3> QED
      BY <3>4, <3>5, <3>6, Zenon DEF CommInv
  <2>18. CommsInv(s1, pg1, w1, c1)
    <3>1. s1.commAcks \subseteq s1.comms \X {c1.id} /\ (~s1.waiting => s1.commAcks = {})
      BY <2>7, <2>16
    <3> QED
      BY <2>17, <3>1, Zenon DEF CommsInv
  <2>19. ASSUME WebsStay PROVE WebsInv(s1, pg1, w1, c1)
    <3>1. s.webAcks = <<>> /\ \A p \in Webs : WebIdle(p, s, page, wire)
      BY <1>1, <1>4, <2>19, Zenon DEF MeshInvOf, WebsInv
    <3>2. \A p \in Webs : wire[p] = <<>>
      BY <2>19, Zenon DEF AskReady
    <3>3. ASSUME NEW p \in Webs
          PROVE WebAsked(p, s1, pg1, w1, c1) /\ p \notin Done(s1, pg1, w1)
      <4>1. p \in Pages /\ p \notin gone /\ p \notin s.comms
        BY <1>2, <2>12, MeshcatAssumption DEF Pages
      <4>2. w1[p] = <<>>
        BY <2>10, <3>2, <3>3, <4>1, Zenon
      <4>3. /\ page[p].todo = <<>>
            /\ \/ page[p].status \in {"new", "closed"} /\ p \notin s.webs
               \/ page[p].status = "open" /\ p \in s.webs
        BY <3>1, <3>2, <3>3, SMT DEF WebIdle, OpenMessage, CloseMessage
      <4>4. Append(<<>>, n) = <<n>> /\ <<n>> # <<>>
        BY <2>5
      <4>5. CASE p \in s.webs
        <5>1. asked(p) /\ page[p].status = "open"
          BY <4>3, <4>5, SMT DEF asked
        <5>2. pg1[p].todo = <<n>> /\ pg1[p].status = "open"
          BY <2>8, <4>1, <4>3, <4>4, <5>1, Zenon
        <5> QED
          BY <2>6, <2>7, <4>2, <4>4, <4>5, <5>2, Zenon DEF WebAsked, Done
      <4>6. CASE p \notin s.webs
        <5>1. ~asked(p) /\ page[p].status # "open"
          BY <4>1, <4>3, <4>6, SMT DEF asked
        <5>2. pg1[p].todo = <<>> /\ pg1[p].status # "open"
          BY <2>8, <4>1, <4>3, <5>1, Zenon
        <5> QED
          BY <2>7, <4>2, <4>6, <5>2, Zenon DEF WebAsked, Done
      <4> QED
        BY <4>5, <4>6, Zenon
    <3>4. Done(s1, pg1, w1) = {}
      <4>1. Done(s1, pg1, w1) \subseteq Webs
        BY <1>2, <2>7, SMT DEF Done
      <4> QED
        BY <3>3, <4>1, Zenon
    <3>5. Len(s1.webAcks) = Cardinality(Done(s1, pg1, w1))
      BY <2>7, <3>1, <3>4, FS_EmptySet, SMT
    <3>6. \A k \in DOMAIN s1.webAcks : s1.webAcks[k] = c1.id
      BY <2>7, <3>1, SMT
    <3> QED
      BY <2>7, <3>3, <3>5, <3>6, Zenon DEF WebsInv
  <2>20. ReplyInv(c1)
    BY <2>6, Zenon DEF ReplyInv
  <2>21. MeshInvOf(s1, pg1, w1, c1)
    BY <2>13, <2>14, <2>18, <2>19, <2>20, Zenon DEF MeshInvOf
  <2> QED
    BY <2>1, <2>2, <2>3, <2>4, <2>21, SMT DEF MeshInv, w1
<1> QED
  BY <1>5, <1>6, Zenon

LEMMA MeshInitInv == MeshInit => MeshInv
<1> SUFFICES ASSUME MeshInit PROVE MeshInv
  OBVIOUS
<1>1. /\ server.webs = {} /\ server.comms = {} /\ server.webAcks = <<>> /\ server.commAcks = {}
      /\ server.waiting = FALSE /\ server \in Servers
  <2>1. /\ {} \in SUBSET Webs /\ {} \in SUBSET Comms /\ <<>> \in Seq(Nat)
        /\ {} \in SUBSET (Comms \X Nat) /\ FALSE \in BOOLEAN
    OBVIOUS
  <2> QED
    BY <2>1, Zenon DEF MeshInit, Servers
<1>2. /\ page \in [Pages -> PageStates] /\ wire \in [Pages -> Seq(Messages)]
      /\ \A p \in Pages : page[p].status = "new" /\ page[p].todo = <<>> /\ wire[p] = <<>>
  <2>1. [status |-> "new", todo |-> <<>>] \in PageStates
    BY SMT DEF PageStates
  <2>2. <<>> \in Seq(Messages)
    OBVIOUS
  <2> QED
    BY <2>1, <2>2, SMT DEF MeshInit
<1>3. caller \in Callers /\ caller.pc = "idle" /\ caller.id = 0 /\ caller.reply = None
  BY SMT DEF MeshInit, Callers
<1>4. \A p : (p \in Webs => p \in Pages) /\ (p \in Comms => p \in Pages)
  BY Zenon DEF Pages
<1>5. MeshTypes(server, page, wire, caller)
  <2>1. \A p \in Webs : \A k \in DOMAIN wire[p] : wire[p][k].kind # "watchdog"
    BY <1>2, <1>4, SMT
  <2> QED
    BY <1>1, <1>2, <1>3, <2>1, FS_EmptySet, Zenon DEF MeshTypes
<1>6. Turns(server, caller)
  BY <1>1, <1>3, SMT DEF Turns
<1>7. CommsInv(server, page, wire, caller)
  <2>1. ASSUME NEW p \in Comms PROVE CommInv(p, server, page, wire, caller)
    BY <1>1, <1>2, <1>4, <2>1, SMT DEF CommInv
  <2> QED
    BY <1>1, <2>1, SMT DEF CommsInv
<1>8. WebsInv(server, page, wire, caller)
  <2>1. ASSUME NEW p \in Webs PROVE WebIdle(p, server, page, wire)
    BY <1>1, <1>2, <1>4, <2>1, SMT DEF WebIdle
  <2>2. \A k \in DOMAIN server.webAcks : server.webAcks[k] = caller.id
    BY <1>1, SMT
  <2> QED
    BY <1>1, <2>1, <2>2, Zenon DEF WebsInv
<1>9. ReplyInv(caller)
  BY <1>3, Zenon DEF ReplyInv
<1> QED
  BY <1>5, <1>6, <1>7, <1>8, <1>9, Zenon DEF MeshInvOf, MeshInv

LEMMA MeshNextInv == MeshInv /\ [MeshNext]_meshVars => MeshInv'
<1> SUFFICES ASSUME MeshInv, [MeshNext]_meshVars PROVE MeshInv'
  OBVIOUS
<1>1. CASE MeshNext
  BY <1>1, WatchdogInv, AskPageInv, ReplyPageInv, AskReadyInv, OpenPageInv, ClosePageInv, VanishInv,
     AnswerInv, SayAliveInv, HandleWebInv, HandleCommInv, Zenon DEF MeshNext
<1>2. CASE UNCHANGED meshVars
  BY <1>2, Zenon DEF MeshInv, meshVars
<1> QED
  BY <1>1, <1>2, Zenon

---------------------------------------------------------------------------
(* The recorder.                                                           *)

Kinds == {"capture", "start", "add", "stop"}

Words == {"", "arguments", "output", "pid", "error"}

Contents == [kind : Words, id : Nat]

Recorders ==
    [pc : {"idle", "open", "opening", "check", "checking", "submit", "request", "sent"},
     call : Kinds \cup {None}, calls : Nat, open : BOOLEAN, recording : BOOLEAN,
     result : Contents \cup {None}]

Children ==
    [pc : {"none", "starting", "loaded", "loop", "serving", "served", "gone", "hung"},
     serves : Nat, page : Webs \cup {None}]

RecorderTypes(r, x, k) ==
    /\ r \in Recorders /\ k \in Children
    /\ x \in [request : Kinds \cup {"", "quit"}, message : Contents]
    /\ k.pc = "starting" => k.page \in Webs
    /\ r.pc # "idle" => r.call \in Kinds

Content(kind, id) == [kind |-> kind, id |-> id]

\* The process is waiting for a request, or it is dead.
Waits(k) == k.pc \in {"loop", "gone"}

\* The process has not taken the request, or it is serving this very one, or it has: what
\* comes with the request is its arguments until its result.
OnItsWay(r, x, k) ==
    \/ x.request = "" /\ Waits(k) /\ x.message = Content("output", r.calls)
    \/ /\ x.request = r.call
       /\ \/ k.pc = "loop" /\ x.message = Content("arguments", r.calls)
          \/ k.pc = "serving" /\ k.serves = r.calls
          \/ k.pc = "served" /\ x.message = Content("output", r.calls)
          \/ k.pc \in {"gone", "hung"}

OpeningInv(x, k) ==
    /\ k.pc \in {"starting", "loaded", "loop", "gone", "hung"} /\ x.request \in {"", "quit"}
    /\ x.request = "quit" => k.pc \in {"starting", "gone", "hung"}
    /\ x.message # Nothing /\ x.request = "" => Waits(k)

RecorderInvOf(r, x, k) ==
    /\ RecorderTypes(r, x, k)
    /\ r.pc \in {"check", "checking", "request", "sent"} => r.open
    /\ r.pc \in {"open", "opening"} => ~r.open
    /\ r.pc = "opening" => OpeningInv(x, k)
    /\ r.open /\ r.pc # "sent" => x.request = "" /\ Waits(k)
    /\ r.pc = "request" => x.message = Content("arguments", r.calls)
    /\ r.pc = "sent" => OnItsWay(r, x, k)
    /\ r.result # None => r.result = Content("output", r.calls)

RecorderInv == RecorderInvOf(recorder, shm, child)

\* Updating a field leaves the others.
LEMMA RecordersFields ==
  ASSUME NEW A, NEW B, NEW C, NEW D, NEW E, NEW F,
         NEW r \in [pc : A, call : B, calls : C, open : D, recording : E, result : F]
  PROVE  LET R == [pc : A, call : B, calls : C, open : D, recording : E, result : F] IN
    /\ \A v \in A : LET s == [r EXCEPT !.pc = v] IN
         /\ s \in R /\ s.pc = v /\ s.call = r.call /\ s.calls = r.calls
         /\ s.open = r.open /\ s.recording = r.recording /\ s.result = r.result
    /\ \A v \in B : LET s == [r EXCEPT !.call = v] IN
         /\ s \in R /\ s.pc = r.pc /\ s.call = v /\ s.calls = r.calls
         /\ s.open = r.open /\ s.recording = r.recording /\ s.result = r.result
    /\ \A v \in C : LET s == [r EXCEPT !.calls = v] IN
         /\ s \in R /\ s.pc = r.pc /\ s.call = r.call /\ s.calls = v
         /\ s.open = r.open /\ s.recording = r.recording /\ s.result = r.result
    /\ \A v \in D : LET s == [r EXCEPT !.open = v] IN
         /\ s \in R /\ s.pc = r.pc /\ s.call = r.call /\ s.calls = r.calls
         /\ s.open = v /\ s.recording = r.recording /\ s.result = r.result
    /\ \A v \in E : LET s == [r EXCEPT !.recording = v] IN
         /\ s \in R /\ s.pc = r.pc /\ s.call = r.call /\ s.calls = r.calls
         /\ s.open = r.open /\ s.recording = v /\ s.result = r.result
    /\ \A v \in F : LET s == [r EXCEPT !.result = v] IN
         /\ s \in R /\ s.pc = r.pc /\ s.call = r.call /\ s.calls = r.calls
         /\ s.open = r.open /\ s.recording = r.recording /\ s.result = v
BY SMT

LEMMA ChildrenFields ==
  ASSUME NEW A, NEW B, NEW C, NEW k \in [pc : A, serves : B, page : C]
  PROVE  LET K == [pc : A, serves : B, page : C] IN
    /\ \A v \in A : LET s == [k EXCEPT !.pc = v] IN
         s \in K /\ s.pc = v /\ s.serves = k.serves /\ s.page = k.page
    /\ \A v \in B : LET s == [k EXCEPT !.serves = v] IN
         s \in K /\ s.pc = k.pc /\ s.serves = v /\ s.page = k.page
    /\ \A v \in C : LET s == [k EXCEPT !.page = v] IN
         s \in K /\ s.pc = k.pc /\ s.serves = k.serves /\ s.page = v
BY SMT

LEMMA SharedFields ==
  ASSUME NEW A, NEW B, NEW x \in [request : A, message : B]
  PROVE  LET X == [request : A, message : B] IN
    /\ \A v \in A : LET s == [x EXCEPT !.request = v] IN
         s \in X /\ s.request = v /\ s.message = x.message
    /\ \A v \in B : LET s == [x EXCEPT !.message = v] IN
         s \in X /\ s.request = x.request /\ s.message = v
BY SMT

RecorderPcs == {"idle", "open", "opening", "check", "checking", "submit", "request", "sent"}

LEMMA RecorderMoves ==
  ASSUME NEW r \in Recorders, NEW v \in RecorderPcs
  PROVE  LET s == [r EXCEPT !.pc = v] IN
         /\ s \in Recorders /\ s.pc = v /\ s.call = r.call /\ s.calls = r.calls
         /\ s.open = r.open /\ s.result = r.result
BY RecordersFields, Zenon DEF Recorders, RecorderPcs

LEMMA RecorderRaises ==
  ASSUME NEW r \in Recorders
  PROVE  LET s == Raise(r) IN
         /\ s \in Recorders /\ s.pc = "idle" /\ s.call = r.call /\ s.calls = r.calls
         /\ s.open = r.open /\ s.result = None
<1> DEFINE a == [r EXCEPT !.pc = "idle"]
           b == [a EXCEPT !.result = None]
<1>1. "idle" \in RecorderPcs /\ None \in Contents \cup {None}
  BY DEF RecorderPcs
<1>2. /\ a \in Recorders /\ a.pc = "idle" /\ a.call = r.call /\ a.calls = r.calls
      /\ a.open = r.open
  BY <1>1, RecorderMoves, Zenon
<1> HIDE DEF a
<1>3. /\ b \in Recorders /\ b.pc = "idle" /\ b.call = r.call /\ b.calls = r.calls
      /\ b.open = r.open /\ b.result = None
  BY <1>1, <1>2, RecordersFields, Zenon DEF Recorders
<1>4. b = Raise(r)
  BY DEF a, Raise
<1> HIDE DEF b
<1> QED
  BY <1>3, <1>4

\* A call begins.
LEMMA RecorderCalled ==
  ASSUME NEW r \in Recorders, NEW kind \in Kinds
  PROVE  LET s == [r EXCEPT !.call = kind, !.calls = @ + 1, !.result = None] IN
         /\ s \in Recorders /\ s.pc = r.pc /\ s.call = kind /\ s.open = r.open /\ s.result = None
<1> DEFINE a == [r EXCEPT !.call = kind]
           n == r.calls + 1
           b == [a EXCEPT !.calls = n]
           d == [b EXCEPT !.result = None]
<1>1. kind \in Kinds \cup {None} /\ None \in Contents \cup {None} /\ n \in Nat
  BY SMT DEF Recorders
<1>5. d = [r EXCEPT !.call = kind, !.calls = @ + 1, !.result = None]
  OBVIOUS
<1> HIDE DEF n
<1>2. a \in Recorders /\ a.pc = r.pc /\ a.call = kind /\ a.open = r.open
  BY <1>1, RecordersFields, Zenon DEF Recorders
<1> HIDE DEF a
<1>3. b \in Recorders /\ b.pc = r.pc /\ b.call = kind /\ b.open = r.open
  BY <1>1, <1>2, RecordersFields, Zenon DEF Recorders
<1> HIDE DEF b
<1>4. d \in Recorders /\ d.pc = r.pc /\ d.call = kind /\ d.open = r.open /\ d.result = None
  BY <1>1, <1>3, RecordersFields, Zenon DEF Recorders
<1> HIDE DEF d
<1> QED
  BY <1>4, <1>5

---------------------------------------------------------------------------
(* The steps of Python.                                                    *)

LEMMA CallInv ==
  ASSUME RecorderInv, NEW kind \in Kinds, Call(kind)
  PROVE  RecorderInv'
<1> DEFINE r == recorder
           called == [r EXCEPT !.call = kind, !.calls = @ + 1, !.result = None]
<1>1. RecorderInvOf(r, shm, child) /\ RecorderTypes(r, shm, child) /\ r \in Recorders
  BY Zenon DEF RecorderInv, RecorderInvOf, RecorderTypes
<1>2. r.pc = "idle" /\ shm' = shm /\ child' = child
  BY Zenon DEF Call
<1>3. /\ called \in Recorders /\ called.pc = "idle" /\ called.call = kind /\ called.open = r.open
      /\ called.result = None
  BY <1>1, <1>2, RecorderCalled
<1>4. \/ recorder' = Raise(called)
      \/ \E v \in {"submit", "open", "check"} :
           /\ recorder' = [called EXCEPT !.pc = v]
           /\ v = "open" => ~r.open
           /\ v = "check" => r.open
  <2> HIDE DEF called
  <2>1. \/ recorder' = Raise(called)
        \/ recorder' = [called EXCEPT !.pc = "submit"]
        \/ ~r.open /\ recorder' = [called EXCEPT !.pc = "open"]
        \/ r.open /\ recorder' = [called EXCEPT !.pc = "check"]
    BY Zenon DEF Call, called
  <2> QED
    BY <2>1, Zenon
<1> HIDE DEF called
<1>5. CASE recorder' = Raise(called)
  <2> DEFINE r1 == Raise(called)
  <2>1. r1 \in Recorders /\ r1.pc = "idle" /\ r1.open = r.open /\ r1.result = None
    BY <1>3, RecorderRaises, Zenon
  <2> HIDE DEF r1
  <2>2. RecorderInvOf(r1, shm, child)
    BY <1>1, <1>2, <2>1, Zenon DEF RecorderInvOf, RecorderTypes
  <2> QED
    BY <1>2, <1>5, <2>2, SMT DEF RecorderInv, r1
<1>6. ASSUME NEW v \in {"submit", "open", "check"}, recorder' = [called EXCEPT !.pc = v],
             v = "open" => ~r.open, v = "check" => r.open
      PROVE  RecorderInv'
  <2> DEFINE r1 == [called EXCEPT !.pc = v]
  <2>1. /\ r1 \in Recorders /\ r1.pc = v /\ r1.open = r.open /\ r1.result = None
        /\ r1.call \in Kinds
    <3>1. v \in RecorderPcs
      BY DEF RecorderPcs
    <3> QED
      BY <1>3, <3>1, RecorderMoves
  <2> HIDE DEF r1
  <2>2. RecorderInvOf(r1, shm, child)
    BY <1>1, <1>2, <1>6, <2>1, Zenon DEF RecorderInvOf, RecorderTypes
  <2> QED
    BY <1>2, <1>6, <2>2, SMT DEF RecorderInv, r1
<1> QED
  BY <1>4, <1>5, <1>6, Zenon

\* The values are new, and the process has not begun.
LEMMA OpenInv == ASSUME RecorderInv, Open PROVE RecorderInv'
<1> DEFINE r == recorder
           r1 == [r EXCEPT !.pc = "opening"]
           x1 == [request |-> "", message |-> Nothing]
           w == CHOOSE w \in Unused : TRUE
           k0 == [NoChild EXCEPT !.pc = "starting"]
           k1 == [k0 EXCEPT !.page = w]
<1>1. RecorderInvOf(r, shm, child) /\ RecorderTypes(r, shm, child) /\ r \in Recorders
  BY Zenon DEF RecorderInv, RecorderInvOf, RecorderTypes
<1>2. r.pc = "open" /\ recorder' = r1 /\ shm' = x1
  BY Zenon DEF Open
<1>3. child' = k1
  BY DEF Open
<1>4. w \in Webs
  BY Zenon DEF Open, Unused
<1> HIDE DEF w
<1>5. k1 \in Children /\ k1.pc = "starting" /\ k1.page = w
  <2>1. NoChild \in Children
    BY DEF NoChild, Children
  <2>2. k0 \in Children /\ k0.pc = "starting"
    BY <2>1 DEF Children
  <2> HIDE DEF k0
  <2>3. w \in Webs \cup {None}
    BY <1>4
  <2> QED
    BY <2>2, <2>3, ChildrenFields, Zenon DEF Children
<1> HIDE DEF k1
<1>6. /\ r1 \in Recorders /\ r1.pc = "opening" /\ r1.call = r.call /\ r1.calls = r.calls
      /\ r1.open = r.open /\ r1.result = r.result
  <2>1. "opening" \in RecorderPcs
    BY DEF RecorderPcs
  <2> QED
    BY <1>1, <2>1, RecorderMoves, Zenon
<1> HIDE DEF r1
<1>7. /\ x1 \in [request : Kinds \cup {"", "quit"}, message : Contents]
      /\ x1.request = "" /\ x1.message = Nothing
  BY SMT DEF Nothing, Contents, Words
<1> HIDE DEF x1
<1>8. RecorderTypes(r1, x1, k1)
  BY <1>1, <1>2, <1>4, <1>5, <1>6, <1>7, Zenon DEF RecorderTypes
<1>9. OpeningInv(x1, k1)
  BY <1>5, <1>7, Zenon DEF OpeningInv
<1>10. RecorderInvOf(r1, x1, k1)
  BY <1>1, <1>2, <1>6, <1>8, <1>9, Zenon DEF RecorderInvOf
<1> QED
  BY <1>2, <1>3, <1>10, SMT DEF RecorderInv

LEMMA OpenedInv == ASSUME RecorderInv, Opened PROVE RecorderInv'
<1> DEFINE r == recorder  x == shm  k == child
<1>1. RecorderInvOf(r, x, k) /\ RecorderTypes(r, x, k) /\ r \in Recorders
  BY Zenon DEF RecorderInv, RecorderInvOf, RecorderTypes
<1>2. r.pc = "opening" /\ x.message # Nothing /\ child' = k
  BY Zenon DEF Opened
<1>3. OpeningInv(x, k) /\ ~r.open /\ r.call \in Kinds
  BY <1>1, <1>2, Zenon DEF RecorderInvOf, RecorderTypes
<1>4. CASE x.request = "quit"
  <2> DEFINE r1 == Raise(r)
  <2>1. recorder' = r1 /\ shm' = x
    BY <1>4, Zenon DEF Opened
  <2>2. r1 \in Recorders /\ r1.pc = "idle" /\ r1.open = r.open /\ r1.result = None
    BY <1>1, RecorderRaises, Zenon
  <2> HIDE DEF r1
  <2>3. RecorderInvOf(r1, x, k)
    BY <1>1, <1>3, <2>2, Zenon DEF RecorderInvOf, RecorderTypes
  <2> QED
    BY <1>2, <2>1, <2>3, SMT DEF RecorderInv
<1>5. CASE x.request # "quit"
  <2> DEFINE r0 == [r EXCEPT !.open = TRUE]
             r1 == [r0 EXCEPT !.pc = "check"]
             x1 == [x EXCEPT !.message = Nothing]
  <2>1. shm' = x1
    BY <1>5, Zenon DEF Opened
  <2>2. recorder' = r1
    <3>1. recorder' = [r EXCEPT !.open = TRUE, !.pc = "check"]
      BY <1>5, Zenon DEF Opened
    <3> QED
      BY <3>1
  <2>3. /\ r0 \in Recorders /\ r0.open = TRUE /\ r0.call = r.call /\ r0.calls = r.calls
        /\ r0.result = r.result
    <3>1. TRUE \in BOOLEAN
      OBVIOUS
    <3> QED
      BY <1>1, <3>1, RecordersFields, Zenon DEF Recorders
  <2> HIDE DEF r0
  <2>4. /\ r1 \in Recorders /\ r1.pc = "check" /\ r1.open = TRUE /\ r1.call = r.call
        /\ r1.calls = r.calls /\ r1.result = r.result
    <3>1. "check" \in RecorderPcs
      BY DEF RecorderPcs
    <3> QED
      BY <2>3, <3>1, RecorderMoves
  <2> HIDE DEF r1
  <2>5. /\ x1 \in [request : Kinds \cup {"", "quit"}, message : Contents]
        /\ x1.request = x.request /\ x1.message = Nothing
    <3>1. Nothing \in Contents
      BY DEF Nothing, Contents, Words
    <3>2. x \in [request : Kinds \cup {"", "quit"}, message : Contents]
      BY <1>1, Zenon DEF RecorderTypes
    <3> QED
      BY <3>1, <3>2, SharedFields, Zenon
  <2> HIDE DEF x1
  <2>6. x.request = "" /\ Waits(k)
    BY <1>2, <1>3, <1>5, Zenon DEF OpeningInv
  <2>7. RecorderTypes(r1, x1, k)
    BY <1>1, <1>3, <2>4, <2>5, Zenon DEF RecorderTypes
  <2>8. RecorderInvOf(r1, x1, k)
    BY <1>1, <2>4, <2>5, <2>6, <2>7, Zenon DEF RecorderInvOf
  <2> QED
    BY <1>2, <2>1, <2>2, <2>8, SMT DEF RecorderInv
<1> QED
  BY <1>4, <1>5, Zenon

\* Steps that only move Python, out of the window in which the process opens.
LEMMA MovesInv ==
  ASSUME RecorderInv, NEW v \in {"checking", "submit"}, recorder.pc \in {"check", "checking"},
         recorder' = [recorder EXCEPT !.pc = v], shm' = shm, child' = child
  PROVE  RecorderInv'
<1> DEFINE r1 == [recorder EXCEPT !.pc = v]
<1>1. RecorderInvOf(recorder, shm, child) /\ recorder \in Recorders
  BY Zenon DEF RecorderInv, RecorderInvOf, RecorderTypes
<1>2. /\ r1 \in Recorders /\ r1.pc = v /\ r1.call = recorder.call /\ r1.calls = recorder.calls
      /\ r1.open = recorder.open /\ r1.result = recorder.result
  <2>1. v \in RecorderPcs
    BY DEF RecorderPcs
  <2> QED
    BY <1>1, <2>1, RecorderMoves, Zenon
<1> HIDE DEF r1
<1>3. RecorderInvOf(r1, shm, child)
  BY <1>1, <1>2, Zenon DEF RecorderInvOf, RecorderTypes
<1> QED
  BY <1>3, SMT DEF RecorderInv, r1

LEMMA RaisesInv ==
  ASSUME RecorderInv, recorder' = Raise(recorder), shm' = shm, child' = child,
         recorder.pc \in {"opening", "submit"}
  PROVE  RecorderInv'
<1> DEFINE r1 == Raise(recorder)
<1>1. RecorderInvOf(recorder, shm, child) /\ recorder \in Recorders
  BY Zenon DEF RecorderInv, RecorderInvOf, RecorderTypes
<1>2. /\ r1 \in Recorders /\ r1.pc = "idle" /\ r1.open = recorder.open /\ r1.result = None
  BY <1>1, RecorderRaises, Zenon
<1> HIDE DEF r1
<1>3. RecorderInvOf(r1, shm, child)
  BY <1>1, <1>2, Zenon DEF RecorderInvOf, RecorderTypes
<1> QED
  BY <1>3, SMT DEF RecorderInv, r1

LEMMA SubmitInv == ASSUME RecorderInv, Submit PROVE RecorderInv'
<1> DEFINE r == recorder  x == shm  k == child
<1>1. RecorderInvOf(r, x, k) /\ RecorderTypes(r, x, k) /\ r \in Recorders
  BY Zenon DEF RecorderInv, RecorderInvOf, RecorderTypes
<1>2. r.pc = "submit" /\ child' = k
  BY Zenon DEF Submit
<1>3. CASE ~r.open
  BY <1>2, <1>3, RaisesInv, Zenon DEF Submit
<1>4. CASE r.open
  <2> DEFINE r1 == [r EXCEPT !.pc = "request"]
             m == Content("arguments", r.calls)
             x1 == [x EXCEPT !.message = m]
  <2>1. recorder' = r1 /\ shm' = x1
    BY <1>4, Zenon DEF Submit, Write, Content
  <2>2. /\ r1 \in Recorders /\ r1.pc = "request" /\ r1.call = r.call /\ r1.calls = r.calls
        /\ r1.open = r.open /\ r1.result = r.result
    <3>1. "request" \in RecorderPcs
      BY DEF RecorderPcs
    <3> QED
      BY <1>1, <3>1, RecorderMoves, Zenon
  <2> HIDE DEF r1
  <2>3. m \in Contents
    <3>1. r.calls \in Nat
      BY <1>1, Zenon DEF Recorders
    <3> QED
      BY <3>1 DEF Contents, Content, Words
  <2>4. /\ x1 \in [request : Kinds \cup {"", "quit"}, message : Contents]
        /\ x1.request = x.request /\ x1.message = Content("arguments", r1.calls)
    <3>1. x \in [request : Kinds \cup {"", "quit"}, message : Contents]
      BY <1>1, Zenon DEF RecorderTypes
    <3>2. /\ x1 \in [request : Kinds \cup {"", "quit"}, message : Contents]
          /\ x1.request = x.request /\ x1.message = m
      BY <2>3, <3>1, SharedFields, Zenon
    <3> QED
      BY <2>2, <3>2
  <2> HIDE DEF x1
  <2>5. RecorderInvOf(r1, x1, k)
    BY <1>1, <1>2, <1>4, <2>2, <2>4, Zenon DEF RecorderInvOf, RecorderTypes
  <2> QED
    BY <1>2, <2>1, <2>5, SMT DEF RecorderInv
<1> QED
  BY <1>3, <1>4, Zenon

LEMMA SendRequestInv == ASSUME RecorderInv, SendRequest PROVE RecorderInv'
<1> DEFINE r == recorder  x == shm  k == child
           r1 == [r EXCEPT !.pc = "sent"]
           x1 == [x EXCEPT !.request = r.call]
<1>1. RecorderInvOf(r, x, k) /\ RecorderTypes(r, x, k) /\ r \in Recorders
  BY Zenon DEF RecorderInv, RecorderInvOf, RecorderTypes
<1>2. r.pc = "request" /\ child' = k /\ recorder' = r1 /\ shm' = x1
  BY Zenon DEF SendRequest
<1>3. /\ r1 \in Recorders /\ r1.pc = "sent" /\ r1.call = r.call /\ r1.calls = r.calls
      /\ r1.open = r.open /\ r1.result = r.result
  <2>1. "sent" \in RecorderPcs
    BY DEF RecorderPcs
  <2> QED
    BY <1>1, <2>1, RecorderMoves, Zenon
<1> HIDE DEF r1
<1>4. r.call \in Kinds
  BY <1>1, <1>2, Zenon DEF RecorderTypes
<1>5. /\ x1 \in [request : Kinds \cup {"", "quit"}, message : Contents]
      /\ x1.request = r.call /\ x1.message = x.message
  <2>1. x \in [request : Kinds \cup {"", "quit"}, message : Contents]
    BY <1>1, Zenon DEF RecorderTypes
  <2>2. r.call \in Kinds \cup {"", "quit"}
    BY <1>4
  <2> QED
    BY <2>1, <2>2, SharedFields, Zenon
<1> HIDE DEF x1
<1>6. RecorderTypes(r1, x1, k)
  BY <1>1, <1>3, <1>4, <1>5, Zenon DEF RecorderTypes
<1>7. r.open /\ x.message = Content("arguments", r.calls) /\ Waits(k)
  BY <1>1, <1>2, Zenon DEF RecorderInvOf
<1>8. OnItsWay(r1, x1, k)
  BY <1>3, <1>5, <1>7, Zenon DEF OnItsWay, Waits
<1>9. RecorderInvOf(r1, x1, k)
  BY <1>1, <1>3, <1>6, <1>7, <1>8, Zenon DEF RecorderInvOf
<1> QED
  BY <1>2, <1>9, SMT DEF RecorderInv

\* The request is cleared once its result is there, and not before.
LEMMA ReceiveInv == ASSUME RecorderInv, Receive PROVE RecorderInv'
<1> DEFINE r == recorder  x == shm  k == child
           v == CASE r.call = "start" -> TRUE [] r.call = "stop" -> FALSE [] OTHER -> r.recording
           r0 == [r EXCEPT !.pc = "idle"]
           r2 == [r0 EXCEPT !.result = x.message]
           r1 == [r2 EXCEPT !.recording = v]
<1>1. RecorderInvOf(r, x, k) /\ RecorderTypes(r, x, k) /\ r \in Recorders
  BY Zenon DEF RecorderInv, RecorderInvOf, RecorderTypes
<1>2. r.pc = "sent" /\ x.request = "" /\ child' = k /\ shm' = x
  BY Zenon DEF Receive
<1>3. recorder' = r1
  <2>1. recorder' = [r EXCEPT !.pc = "idle", !.result = x.message, !.recording = v]
    BY DEF Receive
  <2> QED
    BY <2>1
<1>4. v \in BOOLEAN
  <2>1. r.recording \in BOOLEAN
    BY <1>1, Zenon DEF Recorders
  <2>2. CASE r.call = "start"
    BY <2>2
  <2>3. CASE r.call = "stop"
    BY <2>3
  <2>4. CASE r.call \notin {"start", "stop"}
    <3>1. v = r.recording
      BY <2>4
    <3> QED
      BY <2>1, <3>1, Zenon
  <2> QED
    BY <2>2, <2>3, <2>4
<1> HIDE DEF v
<1>5. /\ OnItsWay(r, x, k) /\ r.open /\ r.call \in Kinds
      /\ x \in [request : Kinds \cup {"", "quit"}, message : Contents]
  BY <1>1, <1>2, Zenon DEF RecorderInvOf, RecorderTypes
<1>6. x.message = Content("output", r.calls) /\ Waits(k)
  BY <1>2, <1>5, Zenon DEF OnItsWay, Kinds
<1>7. x.message \in Contents \cup {None}
  BY <1>5, Zenon
<1>8. r0 \in Recorders /\ r0.pc = "idle" /\ r0.calls = r.calls /\ r0.open = r.open
  <2>1. "idle" \in RecorderPcs
    BY DEF RecorderPcs
  <2> QED
    BY <1>1, <2>1, RecorderMoves, Zenon
<1> HIDE DEF r0
<1>9. /\ r2 \in Recorders /\ r2.pc = "idle" /\ r2.calls = r.calls /\ r2.open = r.open
      /\ r2.result = x.message
  BY <1>7, <1>8, RecordersFields, Zenon DEF Recorders
<1> HIDE DEF r2
<1>10. /\ r1 \in Recorders /\ r1.pc = "idle" /\ r1.calls = r.calls /\ r1.open = r.open
       /\ r1.result = x.message
  BY <1>4, <1>9, RecordersFields, Zenon DEF Recorders
<1> HIDE DEF r1
<1>11. RecorderInvOf(r1, x, k)
  BY <1>1, <1>2, <1>6, <1>10, Zenon DEF RecorderInvOf, RecorderTypes
<1> QED
  BY <1>2, <1>3, <1>11, Zenon DEF RecorderInv

\* Whatever the process had begun, no process is left to write.
LEMMA GiveUpInv == ASSUME RecorderInv, GiveUp PROVE RecorderInv'
<1> DEFINE r == recorder  x == shm  r0 == Raise(r)  r1 == [r0 EXCEPT !.open = FALSE]
<1>1. RecorderInvOf(r, x, child) /\ RecorderTypes(r, x, child) /\ r \in Recorders
  BY Zenon DEF RecorderInv, RecorderInvOf, RecorderTypes
<1>2. recorder' = r1 /\ child' = NoChild /\ shm' = x
  BY Zenon DEF GiveUp, Release
<1>3. r0 \in Recorders /\ r0.pc = "idle" /\ r0.result = None
  BY <1>1, RecorderRaises, Zenon
<1> HIDE DEF r0
<1>4. r1 \in Recorders /\ r1.pc = "idle" /\ r1.result = None /\ ~r1.open
  <2>1. FALSE \in BOOLEAN
    OBVIOUS
  <2> QED
    BY <1>3, <2>1, RecordersFields, Zenon DEF Recorders
<1> HIDE DEF r1
<1>5. NoChild \in Children /\ NoChild.pc = "none"
  BY DEF NoChild, Children
<1>6. RecorderInvOf(r1, x, NoChild)
  BY <1>1, <1>4, <1>5, Zenon DEF RecorderInvOf, RecorderTypes
<1> QED
  BY <1>2, <1>6, SMT DEF RecorderInv

---------------------------------------------------------------------------
(* The steps of the process.                                               *)

\* What a step of the process owes to Python, that does not move.
LEMMA ChildStep ==
  ASSUME NEW r, NEW x, NEW k, RecorderInvOf(r, x, k),
         NEW x1 \in [request : Kinds \cup {"", "quit"}, message : Contents],
         NEW k1 \in Children, k1.pc = "starting" => k.pc = "starting" /\ k1.page = k.page,
         r.pc = "opening" => OpeningInv(x1, k1),
         r.open /\ r.pc # "sent" => x1 = x /\ Waits(k1),
         r.pc = "sent" => OnItsWay(r, x1, k1)
  PROVE  RecorderInvOf(r, x1, k1)
<1>1. RecorderTypes(r, x1, k1)
  BY Zenon DEF RecorderInvOf, RecorderTypes
<1>2. r.pc = "request" => r.open /\ x1 = x
  BY Zenon DEF RecorderInvOf
<1>3. r.pc = "request" => x1.message = Content("arguments", r.calls)
  BY <1>2, Zenon DEF RecorderInvOf
<1>4. r.open /\ r.pc # "sent" => x1.request = "" /\ Waits(k1)
  BY Zenon DEF RecorderInvOf
<1> QED
  BY <1>1, <1>3, <1>4, Zenon DEF RecorderInvOf

ChildPcs == {"none", "starting", "loaded", "loop", "serving", "served", "gone", "hung"}

\* The parts of the invariant, and the process once it has moved.
LEMMA ChildMoves ==
  ASSUME RecorderInv, NEW v \in ChildPcs
  PROVE  /\ RecorderInvOf(recorder, shm, child)
         /\ shm \in [request : Kinds \cup {"", "quit"}, message : Contents]
         /\ child \in Children
         /\ recorder.pc = "opening" => OpeningInv(shm, child)
         /\ recorder.open /\ recorder.pc # "sent" => shm.request = "" /\ Waits(child)
         /\ recorder.pc = "sent" => OnItsWay(recorder, shm, child)
         /\ recorder.pc = "sent" => recorder.call \in Kinds
         /\ LET k1 == [child EXCEPT !.pc = v]
            IN k1 \in Children /\ k1.pc = v /\ k1.serves = child.serves /\ k1.page = child.page
<1>1. RecorderInvOf(recorder, shm, child) /\ RecorderTypes(recorder, shm, child)
  BY Zenon DEF RecorderInv, RecorderInvOf
<1>2. child \in Children
  BY <1>1, Zenon DEF RecorderTypes
<1>3. LET k1 == [child EXCEPT !.pc = v]
      IN k1 \in Children /\ k1.pc = v /\ k1.serves = child.serves /\ k1.page = child.page
  BY <1>2, ChildrenFields, Zenon DEF Children, ChildPcs
<1>4. recorder.pc = "sent" => recorder.call \in Kinds
  BY <1>1, Zenon DEF RecorderTypes
<1> QED
  BY <1>1, <1>2, <1>3, <1>4, Zenon DEF RecorderInvOf, RecorderTypes

LEMMA WritesMessage ==
  ASSUME NEW x \in [request : Kinds \cup {"", "quit"}, message : Contents],
         NEW kind \in Words, NEW id \in Nat
  PROVE  LET x1 == [x EXCEPT !.message = Content(kind, id)]
         IN /\ x1 \in [request : Kinds \cup {"", "quit"}, message : Contents]
            /\ x1.request = x.request /\ x1.message = Content(kind, id)
<1>1. Content(kind, id) \in Contents
  BY Zenon DEF Content, Contents
<1> QED
  BY <1>1, SharedFields, Zenon

LEMMA WritesRequest ==
  ASSUME NEW x \in [request : Kinds \cup {"", "quit"}, message : Contents],
         NEW q \in Kinds \cup {"", "quit"}
  PROVE  LET x1 == [x EXCEPT !.request = q]
         IN /\ x1 \in [request : Kinds \cup {"", "quit"}, message : Contents]
            /\ x1.request = q /\ x1.message = x.message
BY SharedFields, Zenon

\* The process loads the page, and then it says so.
LEMMA StartInv ==
  ASSUME RecorderInv, ChildStarts \/ ChildDies \/ ChildHangs
  PROVE  RecorderInv'
<1> DEFINE r == recorder  x == shm  k == child
<1>1. PICK v \in {"loaded", "gone", "hung"} :
        /\ shm' = x /\ recorder' = r /\ child' = [k EXCEPT !.pc = v]
        /\ \/ v = "loaded" /\ k.pc = "starting" /\ x.request # "quit"
           \/ v = "gone" /\ k.pc \in {"starting", "loop", "serving", "served"}
           \/ v = "hung" /\ k.pc \in {"starting", "serving"}
  BY Zenon DEF ChildStarts, ChildDies, ChildHangs
<1> DEFINE k1 == [k EXCEPT !.pc = v]
<1>2. v \in ChildPcs
  BY DEF ChildPcs
<1>3. /\ RecorderInvOf(r, x, k)
      /\ x \in [request : Kinds \cup {"", "quit"}, message : Contents]
      /\ r.pc = "opening" => OpeningInv(x, k)
      /\ r.open /\ r.pc # "sent" => x.request = "" /\ Waits(k)
      /\ r.pc = "sent" => OnItsWay(r, x, k)
      /\ r.pc = "sent" => r.call \in Kinds
      /\ k1 \in Children /\ k1.pc = v /\ k1.serves = k.serves /\ k1.page = k.page
  BY <1>2, ChildMoves, Zenon
<1> HIDE DEF k1
<1>4. r.pc = "opening" => OpeningInv(x, k1)
  BY <1>1, <1>3, Zenon DEF OpeningInv, Waits
<1>5. r.open /\ r.pc # "sent" => x = x /\ Waits(k1)
  BY <1>1, <1>3, Zenon DEF Waits
<1>6. r.pc = "sent" => OnItsWay(r, x, k1)
  BY <1>1, <1>3, Zenon DEF OnItsWay, Waits
<1>7. k1.pc = "starting" => k.pc = "starting" /\ k1.page = k.page
  BY <1>1, <1>3, Zenon
<1>8. RecorderInvOf(r, x, k1)
  BY <1>3, <1>4, <1>5, <1>6, <1>7, ChildStep, Zenon
<1> QED
  BY <1>1, <1>8, Zenon DEF RecorderInv, k1

LEMMA TellsInv ==
  ASSUME RecorderInv, ChildTells \/ ChildTellsWhy \/ WriteOutput \/ ChildRaises
  PROVE  RecorderInv'
<1> DEFINE r == recorder  x == shm  k == child
<1>1. PICK v \in {"loop", "gone", "served"}, kind \in {"pid", "error", "output"},
           id \in {0, k.serves} :
        /\ recorder' = r /\ child' = [k EXCEPT !.pc = v]
        /\ shm' = [x EXCEPT !.message = Content(kind, id)]
        /\ \/ k.pc = "loaded" /\ v = "loop"
           \/ k.pc = "starting" /\ x.request = "quit" /\ v = "gone"
           \/ k.pc = "serving" /\ v = "served" /\ kind = "output" /\ id = k.serves
           \/ k.pc = "serving" /\ v = "gone"
  BY Zenon DEF ChildTells, ChildTellsWhy, WriteOutput, ChildRaises, Write, Content
<1> DEFINE k1 == [k EXCEPT !.pc = v]
           x1 == [x EXCEPT !.message = Content(kind, id)]
<1>2. v \in ChildPcs /\ kind \in Words
  BY DEF ChildPcs, Words
<1>3. /\ RecorderInvOf(r, x, k)
      /\ x \in [request : Kinds \cup {"", "quit"}, message : Contents]
      /\ k \in Children
      /\ r.pc = "opening" => OpeningInv(x, k)
      /\ r.open /\ r.pc # "sent" => x.request = "" /\ Waits(k)
      /\ r.pc = "sent" => OnItsWay(r, x, k)
      /\ r.pc = "sent" => r.call \in Kinds
      /\ k1 \in Children /\ k1.pc = v /\ k1.serves = k.serves /\ k1.page = k.page
  BY <1>2, ChildMoves, Zenon
<1> HIDE DEF k1
<1>4. id \in Nat
  <2>1. k.serves \in Nat
    BY <1>3, Zenon DEF Children
  <2> QED
    BY <2>1
<1>5. /\ x1 \in [request : Kinds \cup {"", "quit"}, message : Contents]
      /\ x1.request = x.request /\ x1.message = Content(kind, id)
  BY <1>2, <1>3, <1>4, WritesMessage, Zenon
<1> HIDE DEF x1
<1>6. r.pc = "opening" => OpeningInv(x1, k1)
  BY <1>1, <1>3, <1>5, Zenon DEF OpeningInv, Waits
<1>7. r.open /\ r.pc # "sent" => x1 = x /\ Waits(k1)
  BY <1>1, <1>3, Zenon DEF Waits
<1>8. r.pc = "sent" => OnItsWay(r, x1, k1)
  BY <1>1, <1>3, <1>5, Zenon DEF OnItsWay, Waits
<1>9. k1.pc = "starting" => k.pc = "starting" /\ k1.page = k.page
  BY <1>1, <1>3, Zenon
<1>10. RecorderInvOf(r, x1, k1)
  BY <1>3, <1>5, <1>6, <1>7, <1>8, <1>9, ChildStep, Zenon
<1> QED
  BY <1>1, <1>10, Zenon DEF RecorderInv, k1, x1

LEMMA ChildRefusesInv == ASSUME RecorderInv, ChildRefuses PROVE RecorderInv'
<1> DEFINE r == recorder  x == shm  k == child  x1 == [x EXCEPT !.request = "quit"]
<1>1. recorder' = r /\ child' = k /\ shm' = x1 /\ k.pc = "starting" /\ x.request # "quit"
  BY Zenon DEF ChildRefuses
<1>2. "gone" \in ChildPcs
  BY DEF ChildPcs
<1>3. /\ RecorderInvOf(r, x, k)
      /\ x \in [request : Kinds \cup {"", "quit"}, message : Contents]
      /\ k \in Children
      /\ r.pc = "opening" => OpeningInv(x, k)
      /\ r.open /\ r.pc # "sent" => x.request = "" /\ Waits(k)
      /\ r.pc = "sent" => OnItsWay(r, x, k)
  BY <1>2, ChildMoves, Zenon
<1>4. /\ x1 \in [request : Kinds \cup {"", "quit"}, message : Contents]
      /\ x1.request = "quit" /\ x1.message = x.message
  <2>1. "quit" \in Kinds \cup {"", "quit"}
    OBVIOUS
  <2> QED
    BY <1>3, <2>1, WritesRequest, Zenon
<1> HIDE DEF x1
<1>5. r.pc = "opening" => OpeningInv(x1, k)
  BY <1>1, <1>3, <1>4, Zenon DEF OpeningInv
<1>6. r.open /\ r.pc # "sent" => FALSE
  BY <1>1, <1>3, Zenon DEF Waits
<1>7. r.pc = "sent" => FALSE
  BY <1>1, <1>3, Zenon DEF OnItsWay, Waits
<1>8. RecorderInvOf(r, x1, k)
  BY <1>1, <1>3, <1>4, <1>5, <1>6, <1>7, ChildStep, Zenon
<1> QED
  BY <1>1, <1>8, Zenon DEF RecorderInv

\* The process takes the request that Python has just written, with its arguments.
LEMMA ServeInv == ASSUME RecorderInv, Serve PROVE RecorderInv'
<1> DEFINE r == recorder  x == shm  k == child
           k0 == [k EXCEPT !.pc = "serving"]
           k1 == [k0 EXCEPT !.serves = x.message.id]
<1>1. recorder' = r /\ shm' = x /\ k.pc = "loop" /\ x.request \notin {"", "quit"}
  BY Zenon DEF Serve
<1>10. child' = k1
  BY DEF Serve
<1>2. "serving" \in ChildPcs
  BY DEF ChildPcs
<1>3. /\ RecorderInvOf(r, x, k)
      /\ x \in [request : Kinds \cup {"", "quit"}, message : Contents]
      /\ r.pc = "opening" => OpeningInv(x, k)
      /\ r.open /\ r.pc # "sent" => x.request = "" /\ Waits(k)
      /\ r.pc = "sent" => OnItsWay(r, x, k)
      /\ r.pc = "sent" => r.call \in Kinds
      /\ k0 \in Children /\ k0.pc = "serving" /\ k0.page = k.page
  BY <1>2, ChildMoves, Zenon
<1> HIDE DEF k0
<1>4. x.message.id \in Nat
  <2>1. x.message \in Contents
    BY <1>3, Zenon
  <2> QED
    BY <2>1, Zenon DEF Contents
<1>5. k1 \in Children /\ k1.pc = "serving" /\ k1.serves = x.message.id
  BY <1>3, <1>4, ChildrenFields, Zenon DEF Children
<1> HIDE DEF k1
<1>6. r.pc # "opening" /\ (r.open => r.pc = "sent")
  BY <1>1, <1>3, Zenon DEF OpeningInv
<1>7. r.pc = "sent" => OnItsWay(r, x, k1)
  <2>1. Content("arguments", r.calls).id = r.calls
    BY DEF Content
  <2>2. r.pc = "sent" => x.request = r.call /\ x.message = Content("arguments", r.calls)
    BY <1>1, <1>3, Zenon DEF OnItsWay, Waits
  <2> QED
    BY <1>5, <2>1, <2>2, Zenon DEF OnItsWay
<1>8. k1.pc = "starting" => k.pc = "starting" /\ k1.page = k.page
  BY <1>5
<1>11. r.open /\ r.pc # "sent" => x = x /\ Waits(k1)
  BY <1>6, Zenon
<1>12. r.pc = "opening" => OpeningInv(x, k1)
  BY <1>6, Zenon
<1>9. RecorderInvOf(r, x, k1)
  BY <1>3, <1>5, <1>7, <1>8, <1>11, <1>12, ChildStep, Zenon
<1> QED
  BY <1>1, <1>9, <1>10, Zenon DEF RecorderInv

LEMMA ClearRequestInv == ASSUME RecorderInv, ClearRequest PROVE RecorderInv'
<1> DEFINE r == recorder  x == shm  k == child
           x1 == [x EXCEPT !.request = ""]
           k1 == [k EXCEPT !.pc = "loop"]
<1>1. recorder' = r /\ shm' = x1 /\ child' = k1 /\ k.pc = "served"
  BY Zenon DEF ClearRequest
<1>2. "loop" \in ChildPcs
  BY DEF ChildPcs
<1>3. /\ RecorderInvOf(r, x, k)
      /\ x \in [request : Kinds \cup {"", "quit"}, message : Contents]
      /\ r.pc = "opening" => OpeningInv(x, k)
      /\ r.open /\ r.pc # "sent" => x.request = "" /\ Waits(k)
      /\ r.pc = "sent" => OnItsWay(r, x, k)
      /\ k1 \in Children /\ k1.pc = "loop"
  BY <1>2, ChildMoves, Zenon
<1> HIDE DEF k1
<1>4. /\ x1 \in [request : Kinds \cup {"", "quit"}, message : Contents]
      /\ x1.request = "" /\ x1.message = x.message
  <2>1. "" \in Kinds \cup {"", "quit"}
    OBVIOUS
  <2> QED
    BY <1>3, <2>1, WritesRequest, Zenon
<1> HIDE DEF x1
<1>5. r.pc # "opening" /\ (r.open => r.pc = "sent")
  BY <1>1, <1>3, Zenon DEF OpeningInv, Waits
<1>6. r.pc = "sent" => OnItsWay(r, x1, k1)
  BY <1>1, <1>3, <1>4, Zenon DEF OnItsWay, Waits
<1>7. k1.pc = "starting" => k.pc = "starting" /\ k1.page = k.page
  BY <1>3
<1>9. r.open /\ r.pc # "sent" => x1 = x /\ Waits(k1)
  BY <1>5, Zenon
<1>10. r.pc = "opening" => OpeningInv(x1, k1)
  BY <1>5, Zenon
<1>8. RecorderInvOf(r, x1, k1)
  BY <1>3, <1>4, <1>6, <1>7, <1>9, <1>10, ChildStep, Zenon
<1> QED
  BY <1>1, <1>8, Zenon DEF RecorderInv

---------------------------------------------------------------------------
(* The theorems.                                                           *)

LEMMA RecorderInitInv == RecorderInit => RecorderInv
<1> SUFFICES ASSUME RecorderInit PROVE RecorderInv
  OBVIOUS
<1>1. /\ recorder \in Recorders /\ recorder.pc = "idle" /\ ~recorder.open /\ recorder.result = None
  BY DEF RecorderInit, Recorders
<1>2. shm \in [request : Kinds \cup {"", "quit"}, message : Contents]
  BY DEF RecorderInit, Nothing, Contents, Words
<1>3. child \in Children /\ child.pc = "none"
  BY DEF RecorderInit, NoChild, Children
<1> QED
  BY <1>1, <1>2, <1>3, Zenon DEF RecorderInv, RecorderInvOf, RecorderTypes

LEMMA RecorderNextInv == RecorderInv /\ [RecorderNext]_recorderVars => RecorderInv'
<1> SUFFICES ASSUME RecorderInv, [RecorderNext]_recorderVars PROVE RecorderInv'
  OBVIOUS
<1>1. CASE Python
  <2>1. CASE OpenTimeout
    BY <2>1, RaisesInv, Zenon DEF OpenTimeout
  <2>2. CASE Check
    <3>1. /\ recorder.pc \in {"check", "checking"} /\ "checking" \in {"checking", "submit"}
          /\ recorder' = [recorder EXCEPT !.pc = "checking"] /\ shm' = shm /\ child' = child
      BY <2>2, Zenon DEF Check
    <3> QED
      BY <3>1, MovesInv, Zenon
  <2>3. CASE GoOnChecking
    BY <2>3, Zenon DEF GoOnChecking, RecorderInv
  <2>4. CASE Checked
    <3>1. /\ recorder.pc \in {"check", "checking"} /\ "submit" \in {"checking", "submit"}
          /\ recorder' = [recorder EXCEPT !.pc = "submit"] /\ shm' = shm /\ child' = child
      BY <2>4, Zenon DEF Checked
    <3> QED
      BY <3>1, MovesInv, Zenon
  <2> QED
    BY <1>1, <2>1, <2>2, <2>3, <2>4, OpenInv, OpenedInv, SubmitInv, SendRequestInv, ReceiveInv,
       GiveUpInv, Zenon DEF Python
<1>2. CASE Child
  BY <1>2, StartInv, TellsInv, ChildRefusesInv, ServeInv, ClearRequestInv, Zenon DEF Child
<1>3. CASE Around
  BY <1>3, Zenon DEF Around, RecorderInv
<1>4. CASE \E kind \in Kinds : Call(kind)
  BY <1>4, CallInv, Zenon
<1>5. CASE UNCHANGED recorderVars
  BY <1>5, Zenon DEF recorderVars, RecorderInv
<1> QED
  BY <1>1, <1>2, <1>3, <1>4, <1>5, Zenon DEF RecorderNext, Kinds

\* Every step with the recorder is a step of the protocol, or of the recorder alone: its
\* process is one more page, and what Python checks is one more request.
LEMMA RecorderStepOfMesh ==
  RecorderInv /\ [RecorderNext]_recorderVars => [MeshNext]_meshVars
<1> SUFFICES ASSUME RecorderInv, [RecorderNext]_recorderVars PROVE [MeshNext]_meshVars
  OBVIOUS
<1>1. CASE Python
  <2>1. CASE Check \/ GoOnChecking
    BY <2>1, Zenon DEF Check, GoOnChecking, MeshNext
  <2>2. CASE Open \/ Opened \/ OpenTimeout \/ Checked \/ Submit \/ SendRequest \/ Receive \/ GiveUp
    BY <2>2, Zenon DEF Open, Opened, OpenTimeout, Checked, Submit, SendRequest, Receive, GiveUp,
       Release
  <2> QED
    BY <1>1, <2>1, <2>2, Zenon DEF Python
<1>2. CASE Child
  <2>1. CASE ChildStarts
    <3>1. child.page \in Pages
      BY <2>1, Zenon DEF ChildStarts, RecorderInv, RecorderInvOf, RecorderTypes, Pages
    <3> QED
      BY <2>1, <3>1, Zenon DEF ChildStarts, MeshNext
  <2>2. CASE \/ ChildTells \/ ChildRefuses \/ ChildTellsWhy \/ Serve \/ WriteOutput \/ ClearRequest
             \/ ChildRaises \/ ChildDies \/ ChildHangs
    BY <2>2, Zenon DEF ChildTells, ChildRefuses, ChildTellsWhy, Serve, WriteOutput, ClearRequest,
       ChildRaises, ChildDies, ChildHangs
  <2> QED
    BY <1>2, <2>1, <2>2, Zenon DEF Child
<1>3. CASE Around
  BY <1>3, Zenon DEF Around, MeshNext
<1>4. CASE \E kind \in {"capture", "start", "add", "stop"} : Call(kind)
  BY <1>4, Zenon DEF Call
<1>5. CASE UNCHANGED recorderVars
  BY <1>5, Zenon DEF recorderVars, meshVars
<1> QED
  BY <1>1, <1>2, <1>3, <1>4, <1>5, Zenon DEF RecorderNext

\* The invariant of the recorder holds in every state: what is in the shared values follows
\* from where Python and the process are.
THEOREM RecorderInvariant == RecorderSpec => []RecorderInv
<1>1. RecorderInit => RecorderInv
  BY RecorderInitInv
<1>2. RecorderInv /\ [RecorderNext]_recorderVars => RecorderInv'
  BY RecorderNextInv
<1> QED
  BY <1>1, <1>2, PTL DEF RecorderSpec

\* The server, the pages and Python behave as in the protocol without recorder, whatever the
\* recorder does: with it, the protocol is refined.
THEOREM RecorderRefinesMesh == RecorderSpec => MeshInit /\ [][MeshNext]_meshVars
<1>1. RecorderInit => MeshInit
  BY DEF RecorderInit
<1>2. RecorderInv /\ [RecorderNext]_recorderVars => [MeshNext]_meshVars
  BY RecorderStepOfMesh
<1> QED
  BY <1>1, <1>2, RecorderInvariant, PTL DEF RecorderSpec

\* The invariant of the protocol.
THEOREM MeshInvariant == MeshInit /\ [][MeshNext]_meshVars => []MeshInv
<1>1. MeshInit => MeshInv
  BY MeshInitInv
<1>2. MeshInv /\ [MeshNext]_meshVars => MeshInv'
  BY MeshNextInv
<1> QED
  BY <1>1, <1>2, PTL

\* The server never replies to a request that was not made, even if websockets come and go
\* while a request is served.
THEOREM MeshOneReply == MeshSpec => []OneReplyPerRequest
<1>1. MeshInv => OneReplyPerRequest
  BY Zenon DEF MeshInv, MeshInvOf, Turns, OneReplyPerRequest
<1> QED
  BY <1>1, MeshInvariant, PTL DEF MeshSpec

\* If the websockets open and close between requests, the acknowledgements of a reply
\* answer this very request, one from each of the pages there were; and so it is with the
\* recorder.
THEOREM RecorderReplies ==
  ASSUME WebsStay
  PROVE  RecorderSpec => []RepliesToRequests
<1>1. MeshInv => RepliesToRequests
  BY Zenon DEF MeshInv, MeshInvOf, Turns, ReplyInv, RepliesToRequests, OneReplyPerRequest,
               RepliesAreFresh
<1> QED
  BY <1>1, MeshInvariant, RecorderRefinesMesh, PTL

\* What a request to the recorder returns was computed for it: not for a request that timed
\* out before, whose process could still write its result.
THEOREM RecorderResults == RecorderSpec => []ResultOfItsRequest
<1>1. RecorderInv => ResultOfItsRequest
  BY Zenon DEF RecorderInv, RecorderInvOf, ResultOfItsRequest, Content
<1> QED
  BY <1>1, RecorderInvariant, PTL
=============================================================================
