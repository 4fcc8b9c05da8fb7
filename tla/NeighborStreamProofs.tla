------------------------ MODULE NeighborStreamProofs ------------------------
(***************************************************************************)
(* The safety of the exchange of NeighborStream, for any number of workers, *)
(* segments and gates, and for every sequence of distances.                 *)
(***************************************************************************)
EXTENDS NeighborStream, SequenceTheorems, TLAPS

Seg == 0 .. Segments - 1
Handle == [seg : Seg, at : SlotIds]
Message == [from : Workers, seg : Seg, version : 0 .. Gates]
Request == {"none", "posted", "done"}
SlotState ==
  [used : BOOLEAN, recv : Request, send : Request, buf : Message \cup {<< >>}]

\* The types of all variables; no prefetch has failed.
Shape ==
  /\ deltas \in [1 .. Gates -> Workers]
  /\ round \in [Workers -> 1 .. Gates + 1]
  /\ pc \in [Workers -> {"between", "acquire", "kernel", "release"}]
  /\ nextSeg \in [Workers -> 0 .. Segments]
  /\ prefetched \in [Workers -> Handle \cup {Nothing}]
  /\ acquired \in [Workers -> Handle \cup {Nothing}]
  /\ slot \in [Workers -> [SlotIds -> SlotState]]
  /\ version \in [Workers -> [Seg -> 0 .. Gates]]
  /\ recvs \in [Workers -> [Workers -> Seq(SlotIds)]]
  /\ sends \in [Workers -> [Workers -> Seq(Handle)]]
  /\ channel \in [Workers -> [Workers -> Seq(Message)]]
  /\ failed = FALSE

\* What worker w must find in the buffer of its exchange of segment s.
Expected(w, s) == [from |-> Peer(w), seg |-> s, version |-> round[w] - 1]

\* Where worker w is in its block.
Place(w) ==
  /\ pc[w] = "between" => prefetched[w] = Nothing /\ acquired[w] = Nothing
  /\ pc[w] # "between" => round[w] <= Gates /\ Peer(w) # w
  /\ pc[w] = "acquire" => acquired[w] = Nothing
  /\ pc[w] \in {"kernel", "release"} =>
       /\ acquired[w] # Nothing
       /\ prefetched[w] = Nothing => acquired[w].seg = Segments - 1
       /\ prefetched[w] # Nothing =>
            acquired[w].seg = prefetched[w].seg - 1 /\ prefetched[w].at # acquired[w].at
  /\ pc[w] # "between" /\ prefetched[w] = Nothing => nextSeg[w] = Segments
  /\ prefetched[w] # Nothing => nextSeg[w] = prefetched[w].seg + 1

\* The slots of worker w hold its two exchanges and nothing else.
SlotFits(w, i) ==
  /\ i # prefetched[w].at /\ i # acquired[w].at => slot[w][i] = FreeSlot
  /\ i = prefetched[w].at =>
       /\ slot[w][i].used /\ slot[w][i].recv # "none" /\ slot[w][i].send # "none"
       /\ slot[w][i].recv = "done" => slot[w][i].buf = Expected(w, prefetched[w].seg)
  /\ i = acquired[w].at =>
       /\ slot[w][i].used /\ slot[w][i].recv = "done" /\ slot[w][i].send = "done"
       /\ slot[w][i].buf = Expected(w, acquired[w].seg)

\* The segments of worker w that the gate it is at has updated are the first ones.
Updated(w) ==
  IF pc[w] = "between" THEN 0
  ELSE IF pc[w] = "kernel" THEN acquired[w].seg
  ELSE IF pc[w] = "release" THEN acquired[w].seg + 1
  ELSE IF prefetched[w] = Nothing THEN Segments ELSE prefetched[w].seg

Versions(w) ==
  \A s \in Seg : version[w][s] = IF s < Updated(w) THEN round[w] ELSE round[w] - 1

\* The requests of worker w that are in flight belong to its prefetch.
Receiving(w) == prefetched[w] # Nothing /\ slot[w][prefetched[w].at].recv = "posted"
Sending(w) == prefetched[w] # Nothing /\ slot[w][prefetched[w].at].send = "posted"

Requests(w) ==
  /\ \A p \in Workers :
       recvs[w][p] = IF Receiving(w) /\ p = Peer(w) THEN <<prefetched[w].at>> ELSE << >>
  /\ \A p \in Workers :
       sends[w][p] = IF Sending(w) /\ p = Peer(w) THEN <<prefetched[w]>> ELSE << >>

Local(w) == Place(w) /\ (\A i \in SlotIds : SlotFits(w, i)) /\ Versions(w) /\ Requests(w)

\* Segment s of gate g has reached worker w; it has been read from its memory.
Upto(w, busy) ==
  IF pc[w] = "between" THEN 0 ELSE IF busy THEN prefetched[w].seg ELSE nextSeg[w]
Received(w, g, s) == g < round[w] \/ (g = round[w] /\ s < Upto(w, Receiving(w)))
Sent(w, g, s) == g < round[w] \/ (g = round[w] /\ s < Upto(w, Sending(w)))

\* What is on the way from p to w was sent by p and not received by w ...
Travelling(p, w) ==
  \A i \in DOMAIN channel[p][w] :
    LET c == channel[p][w][i] IN
    /\ c.from = p /\ c.version < Gates /\ deltas[c.version + 1] = p \oplus w
    /\ Sent(p, c.version + 1, c.seg) /\ ~Received(w, c.version + 1, c.seg)

\* ... in the order of gates and segments ...
Before(c, e) == c.version < e.version \/ (c.version = e.version /\ c.seg < e.seg)

Ordered(p, w) ==
  \A i, j \in DOMAIN channel[p][w] : i < j => Before(channel[p][w][i], channel[p][w][j])

\* ... and nothing of that is missing.
Complete(p, w) ==
  \A g \in 1 .. Gates, s \in Seg :
    deltas[g] = p \oplus w /\ Sent(p, g, s) /\ ~Received(w, g, s) =>
      \E i \in DOMAIN channel[p][w] :
        channel[p][w][i].version = g - 1 /\ channel[p][w][i].seg = s

\* Nothing is received that was not sent.
Causal(p, w) ==
  \A g \in 1 .. Gates, s \in Seg :
    deltas[g] = p \oplus w /\ Received(w, g, s) => Sent(p, g, s)

Link(p, w) == Travelling(p, w) /\ Ordered(p, w) /\ Complete(p, w) /\ Causal(p, w)

Inv ==
  /\ Shape
  /\ \A w \in Workers : Local(w)
  /\ \A p, w \in Workers : p # w => Link(p, w)
-----------------------------------------------------------------------------
LEMMA Sums ==
  \A x, y \in Workers :
    /\ x \oplus y \in Workers /\ x \oplus y = y \oplus x
    /\ x \oplus (x \oplus y) = y
    /\ x \oplus y = x <=> y = {}
<1>1. \A x, y \in Workers : x \oplus y \in Workers /\ x \oplus y = y \oplus x
  BY DEF \oplus, Workers, Real
<1>2. \A x, y \in Workers : x \oplus (x \oplus y) = y
  BY DEF \oplus, Workers, Real
<1>3. \A x, y \in Workers : x \oplus y = x <=> y = {}
  BY DEF \oplus, Workers, Real
<1>4. QED
  BY <1>1, <1>2, <1>3

\* Two workers that differ see one another through the same distance.
LEMMA Pairs ==
  ASSUME NEW p \in Workers, NEW w \in Workers, NEW d \in Workers
  PROVE  /\ p \oplus d = w <=> d = p \oplus w
         /\ w \oplus d = p <=> d = p \oplus w
         /\ p # w => p \oplus w # {}
<1>1. p \oplus w = w \oplus p
  BY Sums
<1>2. p \oplus d = w => d = p \oplus w
  BY Sums
<1>3. p \oplus (p \oplus w) = w
  BY Sums
<1>4. w \oplus d = p => d = w \oplus p
  BY Sums
<1>5. w \oplus (w \oplus p) = p
  BY Sums
<1>6. p \oplus w = {} => p \oplus {} = w
  BY Sums
<1>7. p \oplus {} = p
  BY DEF \oplus
<1>8. QED
  BY <1>1, <1>2, <1>3, <1>4, <1>5, <1>6, <1>7

LEMMA Numbers ==
  /\ LogProcs \in Nat /\ Segments \in Nat \ {0} /\ Gates \in Nat
  /\ Nothing.seg = -1 /\ Nothing.at = -1 /\ -1 \notin SlotIds
  /\ \A h \in Handle : h.seg \in Seg /\ h.at \in SlotIds /\ h # Nothing
  /\ \A s \in Seg, i \in SlotIds :
       LET h == [seg |-> s, at |-> i] IN h \in Handle /\ h.seg = s /\ h.at = i
<1>1. Nothing.seg = -1 /\ Nothing.at = -1 /\ -1 \notin SlotIds
  BY DEF Nothing, None, SlotIds
<1>2. \A h \in Handle : h.seg \in Seg /\ h.at \in SlotIds /\ h # Nothing
  BY <1>1 DEF Handle
<1>3. \A s \in Seg, i \in SlotIds :
        LET h == [seg |-> s, at |-> i] IN h \in Handle /\ h.seg = s /\ h.at = i
  BY DEF Handle
<1>4. QED
  BY <1>1, <1>2, <1>3, ExchangeAssumption

LEMMA Slots ==
  /\ FreeSlot \in SlotState /\ Pool \in [SlotIds -> SlotState] /\ Posted \in SlotState
  /\ FreeSlot.used = FALSE /\ FreeSlot.recv = "none" /\ FreeSlot.send = "none"
  /\ Posted.used = TRUE /\ Posted.recv = "posted" /\ Posted.send = "posted"
  /\ \A i \in SlotIds : Pool[i] = FreeSlot
<1>1. FreeSlot \in SlotState
  BY DEF FreeSlot, SlotState, Request
<1>2. Posted \in SlotState
  BY <1>1 DEF Posted, SlotState, Request
<1>3. FreeSlot.used = FALSE /\ FreeSlot.recv = "none" /\ FreeSlot.send = "none"
  BY DEF FreeSlot
<1>4. Posted.used = TRUE /\ Posted.recv = "posted" /\ Posted.send = "posted"
  BY DEF Posted, FreeSlot
<1>5. QED
  BY <1>1, <1>2, <1>3, <1>4 DEF Pool

\* The first free slot.
LEMMA FirstFree ==
  ASSUME NEW F \in SUBSET SlotIds, NEW k \in F
  PROVE  (CHOOSE i \in F : \A l \in F : i <= l) \in F
<1>1. \E i \in F : \A l \in F : i <= l
  <2>1. CASE 0 \in F
    BY <2>1 DEF SlotIds
  <2>2. CASE 0 \notin F
    BY <2>2 DEF SlotIds
  <2>3. QED
    BY <2>1, <2>2
<1>2. QED
  BY <1>1

\* The state of a worker but for what is on its way to it.
Same(u) ==
  /\ round'[u] = round[u] /\ pc'[u] = pc[u] /\ nextSeg'[u] = nextSeg[u]
  /\ prefetched'[u] = prefetched[u] /\ acquired'[u] = acquired[u]
  /\ slot'[u] = slot[u] /\ version'[u] = version[u]
  /\ recvs'[u] = recvs[u] /\ sends'[u] = sends[u]

LEMMA SameKeeps ==
  ASSUME deltas' = deltas, NEW u \in Workers, Same(u)
  PROVE  /\ Local(u) => Local(u)'
         /\ \A g, s : Received(u, g, s)' <=> Received(u, g, s)
         /\ \A g, s : Sent(u, g, s)' <=> Sent(u, g, s)
<1>1. Peer(u)' = Peer(u)
  BY DEF Same, Peer
<1>2. /\ Place(u) => Place(u)'
      /\ \A i \in SlotIds : SlotFits(u, i) => SlotFits(u, i)'
  BY <1>1 DEF Same, Place, SlotFits, Expected
<1>3. Versions(u) => Versions(u)'
  BY DEF Same, Versions, Updated
<1>4. (Receiving(u)' <=> Receiving(u)) /\ (Sending(u)' <=> Sending(u))
  BY DEF Same, Receiving, Sending
<1>5. Requests(u) => Requests(u)'
  BY <1>1, <1>4 DEF Same, Requests
<1>6. \A g, s : (Received(u, g, s)' <=> Received(u, g, s)) /\ (Sent(u, g, s)' <=> Sent(u, g, s))
  BY <1>4 DEF Same, Received, Sent, Upto
<1>7. QED
  BY <1>2, <1>3, <1>5, <1>6 DEF Local

LEMMA Messages ==
  ASSUME Shape, NEW p \in Workers, NEW u \in Workers
  PROVE  /\ channel[p][u] \in Seq(Message)
         /\ \A i \in DOMAIN channel[p][u] : channel[p][u][i] \in Message
<1>1. channel[p][u] \in Seq(Message)
  BY DEF Shape
<1>2. \A S, c : c \in Seq(S) => \A i \in DOMAIN c : c[i] \in S
  OBVIOUS
<1>3. QED
  BY <1>1, <1>2

\* A step that changes nothing of what p sends to u keeps their link.
Untouched(p, u) ==
  /\ channel'[p][u] = channel[p][u]
  /\ \A g \in 1 .. Gates, s \in Seg : deltas[g] = p \oplus u =>
       (Received(u, g, s)' <=> Received(u, g, s)) /\ (Sent(p, g, s)' <=> Sent(p, g, s))

LEMMA LinkKeeps ==
  ASSUME Inv, deltas' = deltas,
         NEW p \in Workers, NEW u \in Workers, p # u, Untouched(p, u)
  PROVE  Link(p, u)'
<1>1. Link(p, u)
  BY DEF Inv
<1>2. \A i \in DOMAIN channel[p][u] : channel[p][u][i] \in Message
  BY Messages DEF Inv
<1>3. \A c \in Message : c.seg \in Seg /\ c.version + 1 \in 1 .. Gates + 1 /\ c.version \in Nat
  BY Numbers DEF Message
<1>4. Travelling(p, u)'
  <2> SUFFICES ASSUME NEW i \in DOMAIN channel[p][u]
               PROVE  LET c == channel[p][u][i] IN
                      /\ c.from = p /\ c.version < Gates /\ deltas[c.version + 1] = p \oplus u
                      /\ Sent(p, c.version + 1, c.seg)' /\ ~Received(u, c.version + 1, c.seg)'
    BY DEF Travelling, Untouched
  <2> DEFINE c == channel[p][u][i]
             g == c.version + 1
  <2>1. /\ c.from = p /\ c.version < Gates /\ deltas[g] = p \oplus u
        /\ Sent(p, g, c.seg) /\ ~Received(u, g, c.seg)
    BY <1>1 DEF Link, Travelling
  <2>2. g \in 1 .. Gates /\ c.seg \in Seg
    BY <1>2, <1>3, <2>1, Numbers
  <2>3. g' = g /\ c' = c
    BY DEF Untouched
  <2> HIDE DEF g
  <2>4. Sent(p, g, c.seg)' /\ ~Received(u, g, c.seg)'
    BY <2>1, <2>2, <2>3 DEF Untouched
  <2>5. QED
    BY <2>1, <2>3, <2>4 DEF g
<1>5. Ordered(p, u)'
  BY <1>1 DEF Link, Ordered, Untouched
<1>6. Complete(p, u)' /\ Causal(p, u)'
  BY <1>1 DEF Link, Complete, Causal, Untouched
<1>7. QED
  BY <1>4, <1>5, <1>6 DEF Link

\* What a step of worker w must do to keep the invariant.
Harmless(w) ==
  /\ Shape' /\ deltas' = deltas /\ channel' = channel
  /\ \A u \in Workers \ {w} : Same(u)
  /\ Local(w)'
  /\ \A g \in 1 .. Gates, s \in Seg : deltas[g] # {} =>
       (Received(w, g, s)' <=> Received(w, g, s)) /\ (Sent(w, g, s)' <=> Sent(w, g, s))

LEMMA HarmlessKeeps ==
  ASSUME Inv, NEW w \in Workers, Harmless(w)
  PROVE  Inv'
<1>1. \A u \in Workers : Local(u)'
  BY SameKeeps DEF Inv, Harmless
<1>2. \A u \in Workers : \A g \in 1 .. Gates, s \in Seg : deltas[g] # {} =>
        (Received(u, g, s)' <=> Received(u, g, s)) /\ (Sent(u, g, s)' <=> Sent(u, g, s))
  BY SameKeeps DEF Harmless
<1>3. ASSUME NEW p \in Workers, NEW u \in Workers, p # u
      PROVE  Link(p, u)'
  <2>1. p \oplus u # {}
    BY <1>3, Pairs, Sums
  <2>2. Untouched(p, u)
    BY <1>2, <2>1 DEF Untouched, Harmless
  <2>3. QED
    BY <1>3, <2>2, LinkKeeps DEF Harmless
<1>4. QED
  BY <1>1, <1>3 DEF Inv, Harmless
-----------------------------------------------------------------------------
(* The steps of a worker. *)

LEMMA Types ==
  ASSUME Shape, NEW w \in Workers
  PROVE  /\ round[w] \in Int /\ round[w] >= 1 /\ round[w] <= Gates + 1
         /\ nextSeg[w] \in Int /\ nextSeg[w] >= 0 /\ nextSeg[w] <= Segments
         /\ prefetched[w] \in Handle \cup {Nothing} /\ acquired[w] \in Handle \cup {Nothing}
         /\ \A i \in SlotIds : slot[w][i] \in SlotState
         /\ Gates \in Int /\ Segments \in Int /\ Segments >= 1
         /\ \A s \in Seg : s \in Int /\ s >= 0 /\ s < Segments
         /\ \A s \in Int : s >= 0 /\ s < Segments => s \in Seg
         /\ \A g \in Int : g >= 0 /\ g <= Gates => g \in 0 .. Gates
         /\ \A g \in Int : g >= 1 /\ g <= Gates + 1 => g \in 1 .. Gates + 1
<1>1. Gates \in Int /\ Gates >= 0 /\ Segments \in Int /\ Segments >= 1
  BY Numbers
<1>2. round[w] \in 1 .. Gates + 1 /\ nextSeg[w] \in 0 .. Segments
  BY DEF Shape
<1>3. prefetched[w] \in Handle \cup {Nothing} /\ acquired[w] \in Handle \cup {Nothing}
        /\ \A i \in SlotIds : slot[w][i] \in SlotState
  BY DEF Shape
<1>4. QED
  BY <1>1, <1>2, <1>3 DEF Seg

\* The gate a stream is open for.
LEMMA Gate ==
  ASSUME Shape, NEW w \in Workers, round[w] <= Gates
  PROVE  /\ round[w] \in 1 .. Gates /\ deltas[round[w]] \in Workers /\ Peer(w) \in Workers
         /\ Peer(w) = w <=> deltas[round[w]] = {}
         /\ \A p \in Workers : p = Peer(w) <=> deltas[round[w]] = p \oplus w
<1>1. round[w] \in 1 .. Gates
  BY Types
<1>2. deltas[round[w]] \in Workers
  BY <1>1 DEF Shape
<1>3. Peer(w) = w \oplus deltas[round[w]]
  BY DEF Peer
<1>4. Peer(w) \in Workers /\ (Peer(w) = w <=> deltas[round[w]] = {})
  BY <1>2, <1>3, Sums
<1>5. \A p \in Workers : p = Peer(w) <=> deltas[round[w]] = p \oplus w
  BY <1>2, <1>3, Pairs
<1>6. QED
  BY <1>1, <1>2, <1>4, <1>5


LEMMA LocalGateSafe ==
  ASSUME Inv, NEW w \in Workers, LocalGate(w)
  PROVE  Harmless(w)
<1>1. /\ Shape /\ Local(w) /\ pc[w] = "between" /\ round[w] <= Gates
      /\ prefetched[w] = Nothing /\ acquired[w] = Nothing
  BY DEF Inv, Local, Place, LocalGate
<1>2. \A s \in Seg : version[w][s] = round[w] - 1
  BY <1>1, Numbers DEF Local, Versions, Updated, Seg
<1>3. DOMAIN version[w] = Seg
  BY <1>1 DEF Shape
<1>4. version' = [version EXCEPT ![w] = [s \in Seg |-> version[w][s] + 1]]
  BY <1>3 DEF LocalGate
<1>5. round' = [round EXCEPT ![w] = round[w] + 1]
  BY DEF LocalGate
<1>6. UNCHANGED <<deltas, pc, nextSeg, prefetched, acquired, slot, recvs, sends, channel, failed>>
  BY DEF LocalGate, stream, network
<1>7. round'[w] = round[w] + 1 /\ \A s \in Seg : version'[w][s] = round[w]
  BY <1>1, <1>2, <1>4, <1>5, Numbers DEF Shape
<1>8. Shape'
  <2>1. version' \in [Workers -> [Seg -> 0 .. Gates]]
    <3>1. \A s \in Seg : version[w][s] + 1 \in 0 .. Gates
      BY <1>1, <1>2, Types
    <3>2. [s \in Seg |-> version[w][s] + 1] \in [Seg -> 0 .. Gates]
      BY <3>1
    <3>3. QED
      BY <1>1, <1>4, <3>2 DEF Shape
  <2>2. round' \in [Workers -> 1 .. Gates + 1]
    <3>1. round[w] + 1 \in 1 .. Gates + 1
      BY <1>1, Types
    <3>2. QED
      BY <1>1, <1>5, <3>1 DEF Shape
  <2>3. QED
    BY <1>1, <1>6, <2>1, <2>2 DEF Shape
<1>9. \A u \in Workers \ {w} : Same(u)
  BY <1>1, <1>4, <1>5, <1>6 DEF Same, Shape
<1>10. Local(w)'
  <2>1. Place(w)'
    BY <1>1, <1>6, Numbers DEF Local, Place
  <2>2. \A i \in SlotIds : SlotFits(w, i)'
    BY <1>1, <1>6, Numbers DEF Local, SlotFits
  <2>3. Versions(w)'
    <3>1. Updated(w)' = 0 /\ round'[w] - 1 = round[w] /\ \A s \in Seg : ~(s < 0)
      BY <1>1, <1>6, <1>7, Types DEF Updated
    <3>2. QED
      BY <1>7, <3>1 DEF Versions
  <2>4. ~Receiving(w) /\ ~Sending(w) /\ ~Receiving(w)' /\ ~Sending(w)'
    BY <1>1, <1>6 DEF Receiving, Sending
  <2>5. Requests(w)'
    BY <1>1, <1>6, <2>4 DEF Local, Requests
  <2>6. QED
    BY <2>1, <2>2, <2>3, <2>5 DEF Local
<1>11. ASSUME NEW g \in 1 .. Gates, NEW s \in Seg, deltas[g] # {}
       PROVE  (Received(w, g, s)' <=> Received(w, g, s)) /\ (Sent(w, g, s)' <=> Sent(w, g, s))
  <2>1. g # round[w]
    BY <1>1, <1>11, Gate DEF LocalGate
  <2>2. s >= 0 /\ s \in Int /\ g \in Int /\ round[w] \in Int
    BY <1>1, Types
  <2>3. Upto(w, Receiving(w)) = 0 /\ Upto(w, Sending(w)) = 0
          /\ Upto(w, Receiving(w))' = 0 /\ Upto(w, Sending(w))' = 0
    BY <1>1, <1>6 DEF Upto
  <2>4. QED
    BY <1>7, <2>1, <2>2, <2>3 DEF Received, Sent
<1>12. QED
  BY <1>6, <1>8, <1>9, <1>10, <1>11 DEF Harmless

LEMMA KernelSafe ==
  ASSUME Inv, NEW w \in Workers, Kernel(w)
  PROVE  Harmless(w)
<1>1. /\ Shape /\ Local(w) /\ pc[w] = "kernel" /\ round[w] <= Gates
      /\ acquired[w] \in Handle
  <2>1. Shape /\ Local(w) /\ pc[w] = "kernel"
    BY DEF Inv, Kernel
  <2>2. QED
    BY <2>1, Types DEF Local, Place
<1> DEFINE k == acquired[w].seg
<1>2. k \in Seg /\ version[w][k] = round[w] - 1
  BY <1>1, Numbers DEF Local, Versions, Updated, Seg
<1>3. version' = [version EXCEPT ![w] = [version[w] EXCEPT ![k] = round[w]]]
  <2>1. version' = [version EXCEPT ![w][k] = version[w][k] + 1]
    BY DEF Kernel
  <2>2. version[w][k] + 1 = round[w]
    BY <1>1, <1>2, Types
  <2>3. QED
    BY <2>1, <2>2
<1>4. pc' = [pc EXCEPT ![w] = "release"]
  BY DEF Kernel
<1>5. UNCHANGED <<deltas, round, nextSeg, prefetched, acquired, slot, recvs, sends, channel, failed>>
  BY DEF Kernel, stream, network
<1>6. pc'[w] = "release"
        /\ \A s \in Seg : version'[w][s] = IF s = k THEN round[w] ELSE version[w][s]
  BY <1>1, <1>2, <1>3, <1>4 DEF Shape
<1> HIDE DEF k
<1>7. Shape'
  <2>1. version' \in [Workers -> [Seg -> 0 .. Gates]]
    <3>1. round[w] \in 0 .. Gates
      BY <1>1, Types
    <3>2. QED
      BY <1>1, <1>2, <1>3, <3>1 DEF Shape
  <2>2. pc' \in [Workers -> {"between", "acquire", "kernel", "release"}]
    BY <1>1, <1>4 DEF Shape
  <2>3. QED
    BY <1>1, <1>5, <2>1, <2>2 DEF Shape
<1>8. \A u \in Workers \ {w} : Same(u)
  BY <1>1, <1>3, <1>4, <1>5 DEF Same, Shape
<1>9. Peer(w)' = Peer(w) /\ (Receiving(w)' <=> Receiving(w)) /\ (Sending(w)' <=> Sending(w))
  BY <1>5 DEF Peer, Receiving, Sending
<1>10. Local(w)'
  <2>1. Place(w)'
    BY <1>1, <1>5, <1>6, <1>9 DEF Local, Place
  <2>2. \A i \in SlotIds : SlotFits(w, i)'
    BY <1>1, <1>5, <1>9 DEF Local, SlotFits, Expected
  <2>3. Versions(w)'
    <3>1. Updated(w) = k /\ Updated(w)' = k + 1
      BY <1>1, <1>5, <1>6 DEF Updated, k
    <3>2. \A s \in Seg : version[w][s] = IF s < k THEN round[w] ELSE round[w] - 1
      BY <1>1, <3>1 DEF Local, Versions
    <3>3. k \in Int /\ \A s \in Seg : s \in Int
      BY <1>2, Numbers DEF Seg
    <3>4. QED
      BY <1>5, <1>6, <3>1, <3>2, <3>3 DEF Versions
  <2>4. Requests(w)'
    BY <1>1, <1>5, <1>9 DEF Local, Requests
  <2>5. QED
    BY <2>1, <2>2, <2>3, <2>4 DEF Local
<1>11. \A g, s : (Received(w, g, s)' <=> Received(w, g, s)) /\ (Sent(w, g, s)' <=> Sent(w, g, s))
  BY <1>1, <1>5, <1>6, <1>9 DEF Received, Sent, Upto
<1>12. QED
  BY <1>5, <1>7, <1>8, <1>10, <1>11 DEF Harmless

LEMMA ReleaseSafe ==
  ASSUME Inv, NEW w \in Workers, Release(w)
  PROVE  Harmless(w)
<1>1. /\ Shape /\ Local(w) /\ pc[w] = "release" /\ round[w] <= Gates
      /\ acquired[w] \in Handle
  <2>1. Shape /\ Local(w) /\ pc[w] = "release"
    BY DEF Inv, Release
  <2>2. QED
    BY <2>1, Types DEF Local, Place
<1> DEFINE a == acquired[w].at
<1>2. a \in SlotIds /\ prefetched[w].at # a
  BY <1>1, Numbers DEF Local, Place
<1>3. /\ slot' = [slot EXCEPT ![w] = [slot[w] EXCEPT ![a] = FreeSlot]]
      /\ acquired' = [acquired EXCEPT ![w] = Nothing] /\ pc' = [pc EXCEPT ![w] = "acquire"]
  BY DEF Release
<1>4. UNCHANGED <<deltas, round, nextSeg, prefetched, version, recvs, sends, channel, failed>>
  BY DEF Release, network
<1>5. /\ pc'[w] = "acquire" /\ acquired'[w] = Nothing
      /\ \A i \in SlotIds : slot'[w][i] = IF i = a THEN FreeSlot ELSE slot[w][i]
  BY <1>1, <1>2, <1>3 DEF Shape
<1>6. Shape'
  <2>1. slot' \in [Workers -> [SlotIds -> SlotState]]
    BY <1>1, <1>2, <1>3, Slots DEF Shape
  <2>2. pc' \in [Workers -> {"between", "acquire", "kernel", "release"}]
          /\ acquired' \in [Workers -> Handle \cup {Nothing}]
    BY <1>1, <1>3 DEF Shape
  <2>3. QED
    BY <1>1, <1>4, <2>1, <2>2 DEF Shape
<1>7. \A u \in Workers \ {w} : Same(u)
  BY <1>1, <1>3, <1>4 DEF Same, Shape
<1>8. prefetched[w] # Nothing => prefetched[w].at \in SlotIds \ {a}
  BY <1>1, <1>2, Types, Numbers
<1>9. Peer(w)' = Peer(w) /\ (Receiving(w)' <=> Receiving(w)) /\ (Sending(w)' <=> Sending(w))
  BY <1>4, <1>5, <1>8 DEF Peer, Receiving, Sending
<1>10. Local(w)'
  <2>1. Place(w)'
    BY <1>1, <1>4, <1>5, <1>9 DEF Local, Place
  <2>2. ASSUME NEW i \in SlotIds
        PROVE  SlotFits(w, i)'
    <3>1. SlotFits(w, i)
      BY <1>1 DEF Local
    <3>2. CASE i = a
      BY <1>2, <1>4, <1>5, <3>2, Numbers DEF SlotFits
    <3>3. CASE i # a
      BY <1>2, <1>4, <1>5, <1>9, <3>1, <3>3, Numbers DEF SlotFits, Expected
    <3>4. QED
      BY <3>2, <3>3
  <2>3. Versions(w)'
    <3>1. Updated(w)' = Updated(w)
      <4>1. Updated(w) = acquired[w].seg + 1
        BY <1>1 DEF Updated
      <4>2. Updated(w)' = IF prefetched[w] = Nothing THEN Segments ELSE prefetched[w].seg
        BY <1>4, <1>5 DEF Updated
      <4>3. IF prefetched[w] = Nothing THEN acquired[w].seg = Segments - 1
                                       ELSE acquired[w].seg = prefetched[w].seg - 1
        BY <1>1 DEF Local, Place
      <4>4. Segments \in Int /\ (prefetched[w] # Nothing => prefetched[w].seg \in Int)
        BY <1>1, Types, Numbers
      <4>5. QED
        BY <4>1, <4>2, <4>3, <4>4
    <3>2. QED
      BY <1>1, <1>4, <3>1 DEF Local, Versions
  <2>4. Requests(w)'
    BY <1>1, <1>4, <1>9 DEF Local, Requests
  <2>5. QED
    BY <2>1, <2>2, <2>3, <2>4 DEF Local
<1>11. \A g, s : (Received(w, g, s)' <=> Received(w, g, s)) /\ (Sent(w, g, s)' <=> Sent(w, g, s))
  BY <1>1, <1>4, <1>5, <1>9 DEF Received, Sent, Upto
<1>12. QED
  BY <1>4, <1>6, <1>7, <1>10, <1>11 DEF Harmless

LEMMA CloseStreamSafe ==
  ASSUME Inv, NEW w \in Workers, CloseStream(w)
  PROVE  Harmless(w)
<1>1. /\ Shape /\ Local(w) /\ pc[w] = "acquire" /\ round[w] <= Gates
      /\ prefetched[w] = Nothing /\ acquired[w] = Nothing /\ nextSeg[w] = Segments
  <2>1. Shape /\ Local(w) /\ pc[w] = "acquire" /\ prefetched[w] = Nothing
    BY DEF Inv, CloseStream
  <2>2. QED
    BY <2>1 DEF Local, Place
<1>2. /\ slot' = [slot EXCEPT ![w] = Pool]
      /\ round' = [round EXCEPT ![w] = round[w] + 1] /\ pc' = [pc EXCEPT ![w] = "between"]
  BY DEF CloseStream
<1>3. UNCHANGED <<deltas, nextSeg, prefetched, acquired, version, recvs, sends, channel, failed>>
  BY DEF CloseStream, stream, network
<1>4. pc'[w] = "between" /\ round'[w] = round[w] + 1 /\ slot'[w] = Pool
  BY <1>1, <1>2 DEF Shape
<1>5. Shape'
  <2>1. slot' \in [Workers -> [SlotIds -> SlotState]]
    BY <1>1, <1>2, Slots DEF Shape
  <2>2. pc' \in [Workers -> {"between", "acquire", "kernel", "release"}]
          /\ round' \in [Workers -> 1 .. Gates + 1]
    <3>1. round[w] + 1 \in 1 .. Gates + 1
      BY <1>1, Types
    <3>2. QED
      BY <1>1, <1>2, <3>1 DEF Shape
  <2>3. QED
    BY <1>1, <1>3, <2>1, <2>2 DEF Shape
<1>6. \A u \in Workers \ {w} : Same(u)
  BY <1>1, <1>2, <1>3 DEF Same, Shape
<1>7. ~Receiving(w) /\ ~Sending(w) /\ ~Receiving(w)' /\ ~Sending(w)'
  BY <1>1, <1>3 DEF Receiving, Sending
<1>8. Local(w)'
  <2>1. Place(w)'
    BY <1>1, <1>3, <1>4 DEF Place
  <2>2. \A i \in SlotIds : SlotFits(w, i)'
    BY <1>1, <1>3, <1>4, Slots, Numbers DEF SlotFits
  <2>3. Versions(w)'
    <3>1. Updated(w) = Segments /\ Updated(w)' = 0
      BY <1>1, <1>4 DEF Updated
    <3>2. \A s \in Seg : s < Segments /\ ~(s < 0)
      BY Numbers DEF Seg
    <3>3. \A s \in Seg : version[w][s] = round[w]
      BY <1>1, <3>1, <3>2 DEF Local, Versions
    <3>4. QED
      <4>1. round'[w] - 1 = round[w]
        BY <1>1, <1>4, Types
      <4>2. QED
        BY <1>3, <3>1, <3>2, <3>3, <4>1 DEF Versions
  <2>4. Requests(w)'
    BY <1>1, <1>3, <1>7 DEF Local, Requests
  <2>5. QED
    BY <2>1, <2>2, <2>3, <2>4 DEF Local
<1>9. ASSUME NEW g \in 1 .. Gates, NEW s \in Seg
      PROVE  (Received(w, g, s)' <=> Received(w, g, s)) /\ (Sent(w, g, s)' <=> Sent(w, g, s))
  <2>1. s < Segments /\ s >= 0 /\ s \in Int /\ g \in Int /\ round[w] \in Int /\ Segments \in Int
    BY <1>1, Types
  <2>2. /\ Upto(w, Receiving(w)) = Segments /\ Upto(w, Sending(w)) = Segments
        /\ Upto(w, Receiving(w))' = 0 /\ Upto(w, Sending(w))' = 0
    BY <1>1, <1>4, <1>7 DEF Upto
  <2>3. QED
    BY <1>4, <2>1, <2>2 DEF Received, Sent
<1>10. QED
  BY <1>3, <1>5, <1>6, <1>8, <1>9 DEF Harmless

\* What prefetch_next does for a worker that has no request in flight.
Posts(w, pool, seg, i) ==
  /\ seg \in Seg /\ ~pool[i].used
  /\ prefetched'[w] = [seg |-> seg, at |-> i] /\ nextSeg'[w] = seg + 1
  /\ slot'[w] = [pool EXCEPT ![i] = Posted]
  /\ \A q \in Workers : recvs'[w][q] = IF q = Peer(w) THEN <<i>> ELSE << >>
  /\ \A q \in Workers : sends'[w][q] = IF q = Peer(w) THEN <<prefetched'[w]>> ELSE << >>

PostsNothing(w, pool, seg) ==
  /\ seg = Segments
  /\ prefetched'[w] = Nothing /\ nextSeg'[w] = seg /\ slot'[w] = pool
  /\ \A q \in Workers : recvs'[w][q] = << >> /\ sends'[w][q] = << >>

LEMMA Queues ==
  ASSUME NEW S, NEW x \in S
  PROVE  << >> \in Seq(S) /\ <<x>> \in Seq(S) /\ Append(<< >>, x) = <<x>>
OBVIOUS

LEMMA PrefetchEffect ==
  ASSUME Shape, NEW w \in Workers, round[w] <= Gates,
         \A q \in Workers : recvs[w][q] = << >> /\ sends[w][q] = << >>,
         NEW pool \in [SlotIds -> SlotState], NEW free \in SlotIds, ~pool[free].used,
         NEW seg \in 0 .. Segments, Prefetch(w, pool, seg)
  PROVE  /\ prefetched' \in [Workers -> Handle \cup {Nothing}]
         /\ nextSeg' \in [Workers -> 0 .. Segments]
         /\ slot' \in [Workers -> [SlotIds -> SlotState]]
         /\ recvs' \in [Workers -> [Workers -> Seq(SlotIds)]]
         /\ sends' \in [Workers -> [Workers -> Seq(Handle)]]
         /\ channel' = channel /\ failed' = failed
         /\ \A u \in Workers \ {w} :
              /\ prefetched'[u] = prefetched[u] /\ nextSeg'[u] = nextSeg[u]
              /\ slot'[u] = slot[u] /\ recvs'[u] = recvs[u] /\ sends'[u] = sends[u]
         /\ \/ PostsNothing(w, pool, seg)
            \/ \E i \in SlotIds : Posts(w, pool, seg, i)
<1> DEFINE i == CHOOSE k \in Free(pool) : \A l \in Free(pool) : k <= l
<1>1. i \in Free(pool)
  BY FirstFree DEF Free
<1>2. i \in SlotIds /\ ~pool[i].used /\ Free(pool) # {}
  BY <1>1 DEF Free
<1>3. Peer(w) \in Workers
  BY Gate
<1>4. Gates \in Int /\ Segments \in Int /\ seg \in Int /\ 0 <= seg /\ seg <= Segments
  BY Numbers
<1>5. CASE seg >= Segments
  <2>1. /\ prefetched' = [prefetched EXCEPT ![w] = Nothing] /\ slot' = [slot EXCEPT ![w] = pool]
        /\ nextSeg' = [nextSeg EXCEPT ![w] = seg]
        /\ UNCHANGED <<recvs, sends, channel, failed>>
    BY <1>5 DEF Prefetch, network
  <2>2. seg = Segments
    BY <1>4, <1>5
  <2>3. PostsNothing(w, pool, seg)
    BY <2>1, <2>2 DEF PostsNothing, Shape
  <2>4. QED
    BY <2>1, <2>3 DEF Shape
<1>6. CASE ~(seg >= Segments)
  <2>1. seg \in Seg /\ seg + 1 \in 0 .. Segments
    BY <1>4, <1>6 DEF Seg
  <2> DEFINE h == [seg |-> seg, at |-> i]
  <2>2. h \in Handle
    BY <1>2, <2>1, Numbers
  <2>3. /\ prefetched' = [prefetched EXCEPT ![w] = h]
        /\ slot' = [slot EXCEPT ![w] = [pool EXCEPT ![i] = Posted]]
        /\ nextSeg' = [nextSeg EXCEPT ![w] = seg + 1]
        /\ recvs' = [recvs EXCEPT ![w][Peer(w)] = Append(recvs[w][Peer(w)], i)]
        /\ sends' = [sends EXCEPT ![w][Peer(w)] = Append(sends[w][Peer(w)], h)]
        /\ UNCHANGED <<channel, failed>>
    BY <1>2, <1>6 DEF Prefetch
  <2> HIDE DEF i, h
  <2>4. Append(recvs[w][Peer(w)], i) = <<i>> /\ Append(sends[w][Peer(w)], h) = <<h>>
          /\ <<i>> \in Seq(SlotIds) /\ <<h>> \in Seq(Handle)
    BY <1>2, <1>3, <2>2, Queues
  <2>5. /\ recvs' = [recvs EXCEPT ![w] = [recvs[w] EXCEPT ![Peer(w)] = <<i>>]]
        /\ sends' = [sends EXCEPT ![w] = [sends[w] EXCEPT ![Peer(w)] = <<h>>]]
    BY <2>3, <2>4
  <2>6. [pool EXCEPT ![i] = Posted] \in [SlotIds -> SlotState]
    BY <1>2, Slots
  <2>7. /\ prefetched' \in [Workers -> Handle \cup {Nothing}]
        /\ nextSeg' \in [Workers -> 0 .. Segments]
        /\ slot' \in [Workers -> [SlotIds -> SlotState]]
    BY <2>1, <2>2, <2>3, <2>6 DEF Shape
  <2>8. /\ recvs' \in [Workers -> [Workers -> Seq(SlotIds)]]
        /\ sends' \in [Workers -> [Workers -> Seq(Handle)]]
    BY <1>3, <2>4, <2>5 DEF Shape
  <2>9. Posts(w, pool, seg, i)
    <3>1. /\ prefetched'[w] = h /\ nextSeg'[w] = seg + 1
          /\ slot'[w] = [pool EXCEPT ![i] = Posted]
      BY <2>3 DEF Shape
    <3>2. \A q \in Workers : /\ recvs'[w][q] = IF q = Peer(w) THEN <<i>> ELSE << >>
                             /\ sends'[w][q] = IF q = Peer(w) THEN <<h>> ELSE << >>
      BY <1>3, <2>5 DEF Shape
    <3>3. QED
      BY <1>2, <2>1, <3>1, <3>2 DEF Posts, h
  <2>10. QED
    BY <1>2, <2>3, <2>5, <2>7, <2>8, <2>9 DEF Shape
<1>7. QED
  BY <1>5, <1>6

LEMMA OpenStreamSafe ==
  ASSUME Inv, NEW w \in Workers, OpenStream(w)
  PROVE  Harmless(w)
<1>1. /\ Shape /\ Local(w) /\ pc[w] = "between" /\ round[w] <= Gates /\ Peer(w) # w
      /\ prefetched[w] = Nothing /\ acquired[w] = Nothing
  BY DEF Inv, Local, Place, OpenStream
<1>2. ~Receiving(w) /\ ~Sending(w)
  BY <1>1 DEF Receiving, Sending
<1>3. \A q \in Workers : recvs[w][q] = << >> /\ sends[w][q] = << >>
  BY <1>1, <1>2 DEF Local, Requests
<1>4. 0 \in 0 .. Segments /\ 0 \in SlotIds /\ ~Pool[0].used /\ Pool \in [SlotIds -> SlotState] /\ 0 # Segments
  BY Numbers, Slots DEF SlotIds
<1>5. /\ prefetched' \in [Workers -> Handle \cup {Nothing}]
      /\ nextSeg' \in [Workers -> 0 .. Segments]
      /\ slot' \in [Workers -> [SlotIds -> SlotState]]
      /\ recvs' \in [Workers -> [Workers -> Seq(SlotIds)]]
      /\ sends' \in [Workers -> [Workers -> Seq(Handle)]]
      /\ channel' = channel /\ failed' = failed
      /\ \A u \in Workers \ {w} :
           /\ prefetched'[u] = prefetched[u] /\ nextSeg'[u] = nextSeg[u]
           /\ slot'[u] = slot[u] /\ recvs'[u] = recvs[u] /\ sends'[u] = sends[u]
      /\ PostsNothing(w, Pool, 0) \/ \E i \in SlotIds : Posts(w, Pool, 0, i)
  <2>1. Prefetch(w, Pool, 0)
    BY DEF OpenStream
  <2>2. QED
    BY <1>1, <1>3, <1>4, <2>1, PrefetchEffect
<1>6. PICK i \in SlotIds : Posts(w, Pool, 0, i)
  BY <1>4, <1>5 DEF PostsNothing
<1>7. pc' = [pc EXCEPT ![w] = "acquire"] /\ UNCHANGED <<deltas, round, acquired, version>>
  BY DEF OpenStream
<1>8. pc'[w] = "acquire" /\ Peer(w)' = Peer(w)
  BY <1>1, <1>7 DEF Shape, Peer
<1>9. Shape'
  <2>1. pc' \in [Workers -> {"between", "acquire", "kernel", "release"}]
    BY <1>1, <1>7 DEF Shape
  <2>2. QED
    BY <1>1, <1>5, <1>7, <2>1 DEF Shape
<1>10. \A u \in Workers \ {w} : Same(u)
  BY <1>1, <1>5, <1>7 DEF Same, Shape
<1> DEFINE h == prefetched'[w]
<1>11. /\ h # Nothing /\ h.seg = 0 /\ h.at = i /\ nextSeg'[w] = 1
       /\ slot'[w][i] = Posted /\ \A k \in SlotIds : k # i => slot'[w][k] = FreeSlot
  BY <1>6, Numbers, Slots DEF Posts
<1> HIDE DEF h
<1>12. Receiving(w)' /\ Sending(w)'
  BY <1>11, Slots DEF Receiving, Sending, h
<1>13. Local(w)'
  <2>1. Place(w)'
    BY <1>1, <1>7, <1>8, <1>11 DEF Place, h
  <2>2. ASSUME NEW k \in SlotIds
        PROVE  SlotFits(w, k)'
    BY <1>1, <1>7, <1>11, Slots, Numbers DEF SlotFits, h
  <2>3. Versions(w)'
    <3>1. Updated(w) = 0 /\ Updated(w)' = 0
      BY <1>1, <1>8, <1>11 DEF Updated, h
    <3>2. QED
      BY <1>1, <1>7, <3>1 DEF Local, Versions
  <2>4. Requests(w)'
    BY <1>6, <1>8, <1>11, <1>12 DEF Requests, Posts, h
  <2>5. QED
    BY <2>1, <2>2, <2>3, <2>4 DEF Local
<1>14. \A g, s : (Received(w, g, s)' <=> Received(w, g, s)) /\ (Sent(w, g, s)' <=> Sent(w, g, s))
  <2>1. /\ Upto(w, Receiving(w)) = 0 /\ Upto(w, Receiving(w))' = 0
        /\ Upto(w, Sending(w)) = 0 /\ Upto(w, Sending(w))' = 0
    BY <1>1, <1>8, <1>11, <1>12 DEF Upto, h
  <2>2. QED
    BY <1>7, <2>1 DEF Received, Sent
<1>15. QED
  BY <1>5, <1>7, <1>9, <1>10, <1>13, <1>14 DEF Harmless

LEMMA AcquireSafe ==
  ASSUME Inv, NEW w \in Workers, Acquire(w)
  PROVE  Harmless(w)
<1> DEFINE a == prefetched[w]
<1>1. /\ Shape /\ Local(w) /\ pc[w] = "acquire" /\ round[w] <= Gates /\ Peer(w) # w
      /\ a # Nothing /\ acquired[w] = Nothing /\ Quiet(slot[w][a.at]) /\ nextSeg[w] = a.seg + 1
  BY DEF Inv, Local, Place, Acquire
<1>2. a \in Handle /\ a.at \in SlotIds /\ a.seg \in Seg
  BY <1>1, Types, Numbers
<1>3. /\ slot[w][a.at].used /\ slot[w][a.at].recv = "done" /\ slot[w][a.at].send = "done"
      /\ slot[w][a.at].buf = Expected(w, a.seg)
  <2>1. SlotFits(w, a.at) /\ slot[w][a.at] \in SlotState
    BY <1>1, <1>2, Types DEF Local
  <2>2. slot[w][a.at].recv \in Request /\ slot[w][a.at].send \in Request
    BY <2>1 DEF SlotState
  <2>3. QED
    BY <1>1, <2>1, <2>2 DEF SlotFits, Quiet, Request
<1>4. ~Receiving(w) /\ ~Sending(w)
  BY <1>3 DEF Receiving, Sending
<1>5. \A q \in Workers : recvs[w][q] = << >> /\ sends[w][q] = << >>
  BY <1>1, <1>4 DEF Local, Requests
<1>6. \A k \in SlotIds : k # a.at => slot[w][k] = FreeSlot
  BY <1>1, Numbers DEF Local, SlotFits
<1>7. PICK free \in SlotIds : free # a.at
  BY <1>2 DEF SlotIds
<1>8. /\ prefetched' \in [Workers -> Handle \cup {Nothing}]
      /\ nextSeg' \in [Workers -> 0 .. Segments]
      /\ slot' \in [Workers -> [SlotIds -> SlotState]]
      /\ recvs' \in [Workers -> [Workers -> Seq(SlotIds)]]
      /\ sends' \in [Workers -> [Workers -> Seq(Handle)]]
      /\ channel' = channel /\ failed' = failed
      /\ \A u \in Workers \ {w} :
           /\ prefetched'[u] = prefetched[u] /\ nextSeg'[u] = nextSeg[u]
           /\ slot'[u] = slot[u] /\ recvs'[u] = recvs[u] /\ sends'[u] = sends[u]
      /\ \/ PostsNothing(w, slot[w], nextSeg[w])
         \/ \E i \in SlotIds : Posts(w, slot[w], nextSeg[w], i)
  <2>1. Prefetch(w, slot[w], nextSeg[w])
    BY DEF Acquire
  <2>2. slot[w] \in [SlotIds -> SlotState] /\ nextSeg[w] \in 0 .. Segments
    BY <1>1 DEF Shape
  <2>3. ~slot[w][free].used
    BY <1>6, <1>7, Slots
  <2>4. QED
    BY <1>1, <1>5, <2>1, <2>2, <2>3, PrefetchEffect
<1>9. /\ pc' = [pc EXCEPT ![w] = "kernel"] /\ acquired' = [acquired EXCEPT ![w] = a]
      /\ UNCHANGED <<deltas, round, version>>
  BY DEF Acquire
<1> HIDE DEF a
<1>10. pc'[w] = "kernel" /\ acquired'[w] = a /\ Peer(w)' = Peer(w)
  BY <1>1, <1>9 DEF Shape, Peer
<1>11. Shape'
  <2>1. pc' \in [Workers -> {"between", "acquire", "kernel", "release"}]
          /\ acquired' \in [Workers -> Handle \cup {Nothing}]
    BY <1>1, <1>2, <1>9 DEF Shape
  <2>2. QED
    BY <1>1, <1>8, <1>9, <2>1 DEF Shape
<1>12. \A u \in Workers \ {w} : Same(u)
  BY <1>1, <1>8, <1>9 DEF Same, Shape
<1> DEFINE h == prefetched'[w]
<1>13. \A k \in SlotIds : k # h.at => slot'[w][k] = slot[w][k]
  <2>1. slot[w] \in [SlotIds -> SlotState]
    BY <1>1 DEF Shape
  <2>2. ASSUME NEW i \in SlotIds, Posts(w, slot[w], nextSeg[w], i)
        PROVE  \A k \in SlotIds : k # h.at => slot'[w][k] = slot[w][k]
    <3>1. h.at = i /\ slot'[w] = [slot[w] EXCEPT ![i] = Posted]
      BY <2>2 DEF Posts
    <3>2. QED
      BY <2>1, <3>1
  <2>3. PostsNothing(w, slot[w], nextSeg[w]) => slot'[w] = slot[w]
    BY DEF PostsNothing
  <2>4. QED
    BY <1>8, <2>2, <2>3
<1>14. h.at # a.at
  <2>1. ASSUME NEW i \in SlotIds, Posts(w, slot[w], nextSeg[w], i)
        PROVE  h.at # a.at
    <3>1. h.at = i /\ ~slot[w][i].used
      BY <2>1 DEF Posts
    <3>2. QED
      BY <1>3, <3>1
  <2>2. PostsNothing(w, slot[w], nextSeg[w]) => h.at # a.at
    BY <1>2, Numbers DEF PostsNothing
  <2>3. QED
    BY <1>8, <2>1, <2>2
<1>15. h = Nothing => nextSeg'[w] = Segments /\ nextSeg[w] = Segments
                      /\ \A q \in Workers : recvs'[w][q] = << >> /\ sends'[w][q] = << >>
  <2>1. ASSUME NEW i \in SlotIds, Posts(w, slot[w], nextSeg[w], i)
        PROVE  h # Nothing
    BY <2>1, Numbers DEF Posts
  <2>2. QED
    BY <1>8, <2>1 DEF PostsNothing
<1>16. h # Nothing =>
         /\ h.at \in SlotIds /\ slot'[w][h.at] = Posted
         /\ h.seg = nextSeg[w] /\ nextSeg'[w] = nextSeg[w] + 1
         /\ \A q \in Workers : recvs'[w][q] = IF q = Peer(w) THEN <<h.at>> ELSE << >>
         /\ \A q \in Workers : sends'[w][q] = IF q = Peer(w) THEN <<h>> ELSE << >>
  <2>1. ASSUME h # Nothing
        PROVE  \E i \in SlotIds : Posts(w, slot[w], nextSeg[w], i)
    BY <1>8, <2>1 DEF PostsNothing
  <2>2. ASSUME NEW i \in SlotIds, Posts(w, slot[w], nextSeg[w], i)
        PROVE  slot'[w][i] = Posted /\ h.at = i /\ h.seg = nextSeg[w]
    <3>1. slot[w] \in [SlotIds -> SlotState]
      BY <1>1 DEF Shape
    <3>2. QED
      BY <2>2, <3>1 DEF Posts
  <2>3. QED
    BY <2>1, <2>2 DEF Posts
<1> HIDE DEF h
<1>17. (Receiving(w)' <=> h # Nothing) /\ (Sending(w)' <=> h # Nothing)
  BY <1>16, Slots DEF Receiving, Sending, h
<1>18. Local(w)'
  <2>1. Place(w)'
    <3>1. h = Nothing => a.seg = Segments - 1
      BY <1>1, <1>2, <1>15, Types
    <3>2. h # Nothing => a.seg = h.seg - 1
      BY <1>1, <1>2, <1>16, Types
    <3>3. a # Nothing
      BY <1>1
    <3>4. QED
      BY <1>1, <1>9, <1>10, <1>14, <1>15, <1>16, <3>1, <3>2, <3>3 DEF Place, h
  <2>2. ASSUME NEW k \in SlotIds
        PROVE  SlotFits(w, k)'
    <3>1. CASE k = a.at
      <4>1. slot'[w][k] = slot[w][k]
        BY <1>13, <1>14, <3>1
      <4>2. slot[w][k].buf = [from |-> Peer(w), seg |-> a.seg, version |-> round[w] - 1]
        BY <1>3, <3>1 DEF Expected
      <4>3. Expected(w, acquired[w].seg)' = slot[w][k].buf
        BY <1>9, <1>10, <4>2 DEF Expected
      <4>4. QED
        BY <1>3, <1>10, <1>14, <3>1, <4>1, <4>3 DEF SlotFits, h
    <3>2. CASE k = h.at
      <4>1. h # Nothing
        BY <3>2, Numbers
      <4>2. slot'[w][k] = Posted
        BY <1>16, <3>2, <4>1
      <4>3. QED
        BY <1>10, <1>14, <3>2, <4>2, Slots DEF SlotFits, h
    <3>3. CASE k # a.at /\ k # h.at
      BY <1>6, <1>10, <1>13, <3>3 DEF SlotFits, h
    <3>4. QED
      BY <3>1, <3>2, <3>3
  <2>3. Versions(w)'
    <3>1. Updated(w) = a.seg /\ Updated(w)' = a.seg
      BY <1>1, <1>10 DEF Updated, a
    <3>2. QED
      BY <1>1, <1>9, <3>1 DEF Local, Versions
  <2>4. Requests(w)'
    BY <1>10, <1>15, <1>16, <1>17 DEF Requests, h
  <2>5. QED
    BY <2>1, <2>2, <2>3, <2>4 DEF Local
<1>19. \A g, s : (Received(w, g, s)' <=> Received(w, g, s)) /\ (Sent(w, g, s)' <=> Sent(w, g, s))
  <2>1. Upto(w, Receiving(w)) = nextSeg[w] /\ Upto(w, Sending(w)) = nextSeg[w]
    BY <1>1, <1>4 DEF Upto
  <2>2. Upto(w, Receiving(w))' = nextSeg[w] /\ Upto(w, Sending(w))' = nextSeg[w]
    BY <1>10, <1>15, <1>16, <1>17 DEF Upto, h
  <2>3. QED
    BY <1>9, <2>1, <2>2 DEF Received, Sent
<1>20. QED
  BY <1>8, <1>9, <1>11, <1>12, <1>18, <1>19 DEF Harmless
-----------------------------------------------------------------------------
(* The steps of MPI. *)

LEMMA Tails ==
  ASSUME NEW S, NEW c \in Seq(S), c # << >>
  PROVE  /\ Head(c) = c[1] /\ 1 \in DOMAIN c /\ Tail(c) \in Seq(S)
         /\ \A i \in DOMAIN Tail(c) :
              i + 1 \in DOMAIN c /\ Tail(c)[i] = c[i + 1] /\ i \in Int /\ i >= 1
         /\ \A i \in DOMAIN c : i # 1 => i - 1 \in DOMAIN Tail(c) /\ Tail(c)[i - 1] = c[i]
         /\ \A i \in DOMAIN c : i \in Int /\ i >= 1
OBVIOUS

LEMMA Appends ==
  ASSUME NEW S, NEW c \in Seq(S), NEW m \in S
  PROVE  /\ Append(c, m) \in Seq(S)
         /\ Len(c) + 1 \in DOMAIN Append(c, m) /\ Append(c, m)[Len(c) + 1] = m
         /\ \A i \in DOMAIN c : i \in DOMAIN Append(c, m) /\ Append(c, m)[i] = c[i]
         /\ \A i \in DOMAIN Append(c, m) : i \in DOMAIN c \/ i = Len(c) + 1
         /\ \A i \in DOMAIN c : i \in Int /\ i < Len(c) + 1
OBVIOUS

\* What the posted receive of worker w is for.
LEMMA ReceivingMeans ==
  ASSUME Inv, NEW p \in Workers, NEW w \in Workers, recvs[w][p] # << >>
  PROVE  /\ Receiving(w) /\ p = Peer(w) /\ p # w /\ pc[w] # "between" /\ round[w] <= Gates
         /\ recvs[w][p] = <<prefetched[w].at>> /\ deltas[round[w]] = p \oplus w
         /\ prefetched[w] \in Handle /\ nextSeg[w] = prefetched[w].seg + 1
         /\ \A g, s : Received(w, g, s) <=>
              g < round[w] \/ (g = round[w] /\ s < prefetched[w].seg)
<1>1. Shape /\ Local(w)
  BY DEF Inv
<1>2. Receiving(w) /\ p = Peer(w) /\ recvs[w][p] = <<prefetched[w].at>>
  BY <1>1 DEF Local, Requests
<1>3. prefetched[w] # Nothing
  BY <1>2 DEF Receiving
<1>4. pc[w] # "between" /\ round[w] <= Gates /\ Peer(w) # w /\ nextSeg[w] = prefetched[w].seg + 1
  BY <1>1, <1>3 DEF Local, Place
<1>5. deltas[round[w]] = p \oplus w
  BY <1>1, <1>2, <1>4, Gate
<1>6. prefetched[w] \in Handle
  BY <1>1, <1>3, Types
<1>7. QED
  BY <1>2, <1>4, <1>5, <1>6 DEF Received, Upto

LEMMA SendingMeans ==
  ASSUME Inv, NEW p \in Workers, NEW w \in Workers, sends[p][w] # << >>
  PROVE  /\ Sending(p) /\ w = Peer(p) /\ p # w /\ pc[p] # "between" /\ round[p] <= Gates
         /\ sends[p][w] = <<prefetched[p]>> /\ deltas[round[p]] = p \oplus w
         /\ prefetched[p] \in Handle /\ nextSeg[p] = prefetched[p].seg + 1
         /\ \A g, s : Sent(p, g, s) <=>
              g < round[p] \/ (g = round[p] /\ s < prefetched[p].seg)
<1>1. Shape /\ Local(p)
  BY DEF Inv
<1>2. Sending(p) /\ w = Peer(p) /\ sends[p][w] = <<prefetched[p]>>
  BY <1>1 DEF Local, Requests
<1>3. prefetched[p] # Nothing
  BY <1>2 DEF Sending
<1>4. pc[p] # "between" /\ round[p] <= Gates /\ Peer(p) # p /\ nextSeg[p] = prefetched[p].seg + 1
  BY <1>1, <1>3 DEF Local, Place
<1>5. deltas[round[p]] = p \oplus w
  <2>1. deltas[round[p]] = w \oplus p
    BY <1>1, <1>2, <1>4, Gate
  <2>2. QED
    BY <2>1, Sums
<1>6. prefetched[p] \in Handle
  BY <1>1, <1>3, Types
<1>7. QED
  BY <1>2, <1>4, <1>5, <1>6 DEF Sent, Upto

\* The oldest message on the way to a posted receive is the one it is for.
LEMMA RightMessage ==
  ASSUME Inv, NEW p \in Workers, NEW w \in Workers,
         channel[p][w] # << >>, recvs[w][p] # << >>
  PROVE  /\ Head(channel[p][w]) \in Message
         /\ Head(channel[p][w]) = Expected(w, prefetched[w].seg)
         /\ Sent(p, round[w], prefetched[w].seg)
<1> DEFINE r == round[w]
           x == prefetched[w].seg
           c == channel[p][w]
<1>1. /\ p = Peer(w) /\ p # w /\ r <= Gates /\ deltas[r] = p \oplus w /\ prefetched[w] \in Handle
      /\ \A g, s : Received(w, g, s) <=> g < r \/ (g = r /\ s < x)
  BY ReceivingMeans
<1>2. Travelling(p, w) /\ Ordered(p, w) /\ Complete(p, w) /\ Shape
  BY <1>1 DEF Inv, Link
<1>3. c \in Seq(Message) /\ \A i \in DOMAIN c : c[i] \in Message
  BY <1>2, Messages
<1>4. Head(c) = c[1] /\ 1 \in DOMAIN c /\ \A i \in DOMAIN c : i \in Int /\ i >= 1
  BY <1>3, Tails
<1>5. c[1] \in Message
  BY <1>3, <1>4
<1>6. /\ c[1].version \in Int /\ c[1].seg \in Seg /\ c[1].seg \in Int
      /\ r \in Int /\ x \in Int /\ x \in Seg /\ r \in 1 .. Gates
  <2>1. c[1].version \in 0 .. Gates /\ c[1].seg \in Seg
    BY <1>5 DEF Message
  <2>2. x \in Seg
    BY <1>1, Numbers
  <2>3. r \in 1 .. Gates
    BY <1>1, <1>2, Gate
  <2>4. QED
    BY <2>1, <2>2, <2>3, Numbers DEF Seg
<1>7. /\ c[1].from = p /\ Sent(p, c[1].version + 1, c[1].seg)
      /\ ~Received(w, c[1].version + 1, c[1].seg)
  BY <1>2, <1>4 DEF Travelling
<1>8. c[1].version + 1 > r \/ (c[1].version + 1 = r /\ c[1].seg >= x)
  BY <1>1, <1>6, <1>7
<1>9. Sent(p, r, x)
  <2>1. round[p] \in Int
    BY <1>2, Types
  <2>2. Upto(p, Sending(p)) \in Int
    <3>1. nextSeg[p] \in Int
      BY <1>2, Types
    <3>2. Sending(p) => prefetched[p].seg \in Int
      <4>1. Sending(p) => prefetched[p] \in Handle
        BY <1>2, Types DEF Sending
      <4>2. QED
        BY <4>1, Numbers DEF Seg
    <3>3. QED
      BY <3>1, <3>2 DEF Upto
  <2> DEFINE k == Upto(p, Sending(p))
  <2>3. c[1].version + 1 < round[p] \/ (c[1].version + 1 = round[p] /\ c[1].seg < k)
    BY <1>7 DEF Sent
  <2> HIDE DEF k
  <2>4. r < round[p] \/ (r = round[p] /\ x < k)
    BY <1>6, <1>8, <2>1, <2>2, <2>3 DEF k
  <2>5. QED
    BY <2>4 DEF Sent, k
<1>10. PICK i \in DOMAIN c : c[i].version = r - 1 /\ c[i].seg = x
  <2>1. ~Received(w, r, x)
    BY <1>1, <1>6
  <2>2. QED
    BY <1>1, <1>2, <1>6, <1>9, <2>1 DEF Complete
<1>11. i = 1
  <2>1. ASSUME i # 1
        PROVE  FALSE
    <3>1. 1 < i
      BY <1>4, <2>1
    <3>2. Before(c[1], c[i])
      BY <1>2, <1>4, <3>1 DEF Ordered
    <3>3. QED
      BY <1>6, <1>8, <1>10, <3>2 DEF Before
  <2>2. QED
    BY <2>1
<1>12. c[1] = [from |-> p, seg |-> x, version |-> r - 1]
  BY <1>5, <1>7, <1>10, <1>11 DEF Message
<1>13. QED
  BY <1>1, <1>4, <1>5, <1>9, <1>12 DEF Expected

LEMMA DeliverSafe ==
  ASSUME Inv, NEW p \in Workers, NEW w \in Workers, Deliver(p, w)
  PROVE  Inv'
<1> DEFINE r == round[w]
           a == prefetched[w]
           c == channel[p][w]
           m == Head(c)
           held == slot[w][a.at]
<1>1. /\ Receiving(w) /\ p = Peer(w) /\ p # w /\ pc[w] # "between" /\ r <= Gates
      /\ recvs[w][p] = <<a.at>> /\ deltas[r] = p \oplus w /\ a \in Handle
      /\ nextSeg[w] = a.seg + 1
      /\ \A g, s : Received(w, g, s) <=> g < r \/ (g = r /\ s < a.seg)
  BY ReceivingMeans DEF Deliver
<1>2. m \in Message /\ m = Expected(w, a.seg) /\ Sent(p, r, a.seg) /\ c # << >>
  BY RightMessage DEF Deliver
<1>3. a.at \in SlotIds /\ a.seg \in Seg /\ a.seg \in Int /\ a # Nothing
  BY <1>1, Numbers DEF Seg
<1>4. /\ Shape /\ Local(w) /\ c \in Seq(Message) /\ held \in SlotState /\ r \in Int
  BY <1>3, Messages, Types DEF Inv
<1>5. /\ slot' = [slot EXCEPT ![w] = [slot[w] EXCEPT ![a.at] =
                    [held EXCEPT !.recv = "done", !.buf = m]]]
      /\ channel' = [channel EXCEPT ![p] = [channel[p] EXCEPT ![w] = Tail(c)]]
      /\ recvs' = [recvs EXCEPT ![w] = [recvs[w] EXCEPT ![p] = << >>]]
  <2>1. Head(recvs[w][p]) = a.at /\ Tail(recvs[w][p]) = << >>
    BY <1>1
  <2>2. slot' = [slot EXCEPT ![w][a.at].recv = "done", ![w][a.at].buf = m]
    BY <2>1 DEF Deliver
  <2>3. slot \in [Workers -> [SlotIds -> SlotState]]
    BY <1>4 DEF Shape
  <2>4. slot' = [slot EXCEPT ![w] = [slot[w] EXCEPT ![a.at] =
                    [held EXCEPT !.recv = "done", !.buf = m]]]
    BY <1>3, <2>2, <2>3
  <2>5. QED
    BY <2>1, <2>4 DEF Deliver
<1>6. UNCHANGED <<deltas, round, pc, nextSeg, prefetched, acquired, version, sends, failed>>
  BY DEF Deliver, stream
<1>7. Tail(c) \in Seq(Message) /\ c[1] = m
  BY <1>2, <1>4, Tails
<1> DEFINE new == [held EXCEPT !.recv = "done", !.buf = m]
<1>8. /\ new \in SlotState /\ new.used = held.used /\ new.recv = "done"
      /\ new.send = held.send /\ new.buf = m
  BY <1>2, <1>4 DEF SlotState, Request
<1> HIDE DEF m, new
<1>9. Shape'
  <2>1. [slot[w] EXCEPT ![a.at] = new] \in [SlotIds -> SlotState]
    BY <1>3, <1>4, <1>8 DEF Shape
  <2>2. slot' \in [Workers -> [SlotIds -> SlotState]]
    BY <1>4, <1>5, <2>1 DEF Shape, new
  <2>3. channel' \in [Workers -> [Workers -> Seq(Message)]]
    <3>1. channel[p] \in [Workers -> Seq(Message)]
      BY <1>4 DEF Shape
    <3>2. [channel[p] EXCEPT ![w] = Tail(c)] \in [Workers -> Seq(Message)]
      BY <1>7, <3>1
    <3>3. QED
      BY <1>4, <1>5, <3>2 DEF Shape
  <2>4. recvs' \in [Workers -> [Workers -> Seq(SlotIds)]]
    <3>1. recvs[w] \in [Workers -> Seq(SlotIds)] /\ << >> \in Seq(SlotIds)
      BY <1>4 DEF Shape
    <3>2. [recvs[w] EXCEPT ![p] = << >>] \in [Workers -> Seq(SlotIds)]
      BY <3>1
    <3>3. QED
      BY <1>4, <1>5, <3>2 DEF Shape
  <2>5. QED
    BY <1>4, <1>6, <2>2, <2>3, <2>4 DEF Shape
<1>10. \A u \in Workers \ {w} : Same(u)
  BY <1>4, <1>5, <1>6 DEF Same, Shape
<1>11. slot'[w][a.at] = new /\ \A k \in SlotIds : k # a.at => slot'[w][k] = slot[w][k]
  BY <1>3, <1>4, <1>5 DEF Shape, new
<1>12. Peer(w)' = Peer(w) /\ \A s : Expected(w, s)' = Expected(w, s)
  BY <1>6 DEF Peer, Expected
<1>13. ~Receiving(w)' /\ (Sending(w)' <=> Sending(w))
  BY <1>6, <1>8, <1>11 DEF Receiving, Sending
<1>14. Local(w)'
  <2>1. Place(w)'
    BY <1>4, <1>6, <1>12 DEF Local, Place
  <2>2. a.at # acquired[w].at
    BY <1>1, <1>3, <1>4 DEF Local, SlotFits, Receiving
  <2>3. ASSUME NEW k \in SlotIds
        PROVE  SlotFits(w, k)'
    <3>1. SlotFits(w, k)
      BY <1>4 DEF Local
    <3>2. CASE k = a.at
      <4>1. new.used /\ new.recv # "none" /\ new.send # "none"
        BY <1>8, <3>1, <3>2 DEF SlotFits
      <4>2. new.buf = Expected(w, a.seg)
        BY <1>2, <1>8
      <4>3. new.buf = Expected(w, prefetched[w].seg)'
        BY <1>6, <1>12, <4>2 DEF Expected
      <4>4. slot'[w][k] = new /\ prefetched' = prefetched /\ acquired' = acquired
        BY <1>6, <1>11, <3>2
      <4>5. QED
        BY <2>2, <3>2, <4>1, <4>3, <4>4 DEF SlotFits
    <3>3. CASE k # a.at
      <4>1. slot'[w][k] = slot[w][k] /\ prefetched' = prefetched /\ acquired' = acquired
        BY <1>6, <1>11, <3>3
      <4>2. Expected(w, acquired[w].seg)' = Expected(w, acquired[w].seg)
        BY <1>6, <1>12 DEF Expected
      <4>3. QED
        BY <3>1, <3>3, <4>1, <4>2 DEF SlotFits
    <3>4. QED
      BY <3>2, <3>3
  <2>4. Versions(w)'
    BY <1>4, <1>6 DEF Local, Versions, Updated
  <2>5. Requests(w)'
    <3>1. \A q \in Workers : recvs'[w][q] = << >>
      <4>1. \A q \in Workers : q # p => recvs[w][q] = << >>
        BY <1>1, <1>4 DEF Local, Requests
      <4>2. \A q \in Workers : recvs'[w][q] = IF q = p THEN << >> ELSE recvs[w][q]
        BY <1>4, <1>5 DEF Shape
      <4>3. QED
        BY <4>1, <4>2
    <3>2. \A q \in Workers :
            sends[w][q] = IF Sending(w) /\ q = Peer(w) THEN <<prefetched[w]>> ELSE << >>
      BY <1>4 DEF Local, Requests
    <3>3. QED
      BY <1>6, <1>12, <1>13, <3>1, <3>2 DEF Requests
  <2>6. QED
    BY <2>1, <2>3, <2>4, <2>5 DEF Local
<1>15. \A u \in Workers : Local(u)'
  BY <1>6, <1>10, <1>14, SameKeeps DEF Inv
<1>16. \A u \in Workers : \A g, s : Sent(u, g, s)' <=> Sent(u, g, s)
  <2>1. \A g, s : Sent(w, g, s)' <=> Sent(w, g, s)
    BY <1>6, <1>13 DEF Sent, Upto
  <2>2. QED
    BY <1>6, <1>10, <2>1, SameKeeps
<1>17. \A u \in Workers \ {w} : \A g, s : Received(u, g, s)' <=> Received(u, g, s)
  BY <1>6, <1>10, SameKeeps
<1>18. ASSUME NEW g \in Int, NEW s \in Int
       PROVE  Received(w, g, s)' <=> Received(w, g, s) \/ (g = r /\ s = a.seg)
  <2>1. Received(w, g, s)' <=> g < r \/ (g = r /\ s < a.seg + 1)
    BY <1>1, <1>6, <1>13 DEF Received, Upto
  <2>2. QED
    BY <1>1, <1>3, <2>1
<1>19. ASSUME NEW q \in Workers, NEW u \in Workers, q # u, ~(q = p /\ u = w)
       PROVE  Link(q, u)'
  <2>1. channel'[q][u] = channel[q][u]
    BY <1>4, <1>5, <1>19 DEF Shape
  <2>2. ASSUME NEW g \in 1 .. Gates, NEW s \in Seg, deltas[g] = q \oplus u
        PROVE  Received(u, g, s)' <=> Received(u, g, s)
    <3>1. CASE u # w
      BY <1>17, <3>1
    <3>2. CASE u = w
      <4>1. q \oplus w # p \oplus w
        <5>1. w \oplus (w \oplus q) = q /\ w \oplus (w \oplus p) = p
          BY Sums
        <5>2. q # p /\ q \oplus w = w \oplus q /\ p \oplus w = w \oplus p
          BY <1>19, <3>2, Sums
        <5>3. QED
          BY <5>1, <5>2
      <4>2. g # r /\ g \in Int /\ s \in Int
        BY <1>1, <2>2, <3>2, <4>1, Numbers DEF Seg
      <4>3. QED
        BY <1>18, <3>2, <4>2
    <3>3. QED
      BY <3>1, <3>2
  <2>3. Untouched(q, u)
    BY <1>16, <2>1, <2>2 DEF Untouched
  <2>4. QED
    BY <1>6, <1>19, <2>3, LinkKeeps
<1>20. Link(p, w)'
  <2>1. Travelling(p, w) /\ Ordered(p, w) /\ Complete(p, w) /\ Causal(p, w)
    BY <1>1 DEF Inv, Link
  <2> DEFINE d == Tail(c)
  <2>2. channel'[p][w] = d
    BY <1>4, <1>5 DEF Shape
  <2>3. /\ \A i \in DOMAIN d :
             i + 1 \in DOMAIN c /\ d[i] = c[i + 1] /\ i \in Int /\ i >= 1
        /\ \A i \in DOMAIN c : i # 1 => i - 1 \in DOMAIN d /\ d[i - 1] = c[i]
        /\ 1 \in DOMAIN c /\ \A i \in DOMAIN c : i \in Int /\ i >= 1
    BY <1>2, <1>4, Tails
  <2>4. \A i \in DOMAIN c : c[i] \in Message
    BY <1>4, Messages
  <2>5. \A e \in Message : e.version \in Int /\ e.version >= 0 /\ e.seg \in Int /\ e.seg \in Seg
    BY Numbers DEF Message, Seg
  <2>6. c[1].version = r - 1 /\ c[1].seg = a.seg
    BY <1>2, <1>7 DEF Expected
  <2> HIDE DEF c, d
  <2>7. Travelling(p, w)'
    <3>1. ASSUME NEW i \in DOMAIN d, NEW g, NEW s, g = d[i].version + 1, s = d[i].seg
          PROVE  /\ d[i].from = p /\ d[i].version < Gates /\ deltas[g] = p \oplus w
                 /\ Sent(p, g, s)' /\ ~Received(w, g, s)'
      <4> DEFINE e == c[i + 1]
      <4>1. i + 1 \in DOMAIN c /\ d[i] = e /\ 1 < i + 1
        BY <2>3
      <4>2. /\ e.from = p /\ e.version < Gates /\ deltas[g] = p \oplus w
            /\ Sent(p, g, s) /\ ~Received(w, g, s)
        BY <2>1, <3>1, <4>1 DEF Travelling, c
      <4>3. Before(c[1], e)
        BY <2>1, <2>3, <4>1 DEF Ordered, c
      <4>4. e.version \in Int /\ e.seg \in Int
        BY <2>4, <2>5, <4>1
      <4>5. g \in Int /\ s \in Int /\ ~(g = r /\ s = a.seg)
        BY <1>3, <1>4, <2>6, <3>1, <4>1, <4>3, <4>4 DEF Before
      <4>6. QED
        BY <1>16, <1>18, <4>1, <4>2, <4>5
    <3>2. QED
      BY <1>6, <2>2, <3>1 DEF Travelling, Sent, Received
  <2>8. Ordered(p, w)'
    <3> SUFFICES ASSUME NEW i \in DOMAIN d, NEW j \in DOMAIN d, i < j
                 PROVE  Before(d[i], d[j])
      BY <2>2 DEF Ordered
    <3>1. i + 1 \in DOMAIN c /\ j + 1 \in DOMAIN c /\ i + 1 < j + 1
      BY <2>3
    <3>2. Before(c[i + 1], c[j + 1])
      BY <2>1, <3>1 DEF Ordered, c
    <3>3. QED
      BY <2>3, <3>2
  <2>9. Complete(p, w)'
    <3> SUFFICES ASSUME NEW g \in 1 .. Gates, NEW s \in Seg,
                        deltas[g] = p \oplus w, Sent(p, g, s)', ~Received(w, g, s)'
                 PROVE  \E i \in DOMAIN d : d[i].version = g - 1 /\ d[i].seg = s
      BY <1>6, <2>2 DEF Complete
    <3>1. g \in Int /\ s \in Int
      BY Numbers DEF Seg
    <3>2. Sent(p, g, s) /\ ~Received(w, g, s) /\ ~(g = r /\ s = a.seg)
      BY <1>16, <1>18, <3>1
    <3>3. PICK i \in DOMAIN c : c[i].version = g - 1 /\ c[i].seg = s
      BY <2>1, <3>2 DEF Complete, c
    <3>4. i # 1
      BY <1>4, <2>6, <3>1, <3>2, <3>3
    <3>5. QED
      BY <2>3, <3>3, <3>4
  <2>10. Causal(p, w)'
    <3> SUFFICES ASSUME NEW g \in 1 .. Gates, NEW s \in Seg,
                        deltas[g] = p \oplus w, Received(w, g, s)'
                 PROVE  Sent(p, g, s)'
      BY <1>6 DEF Causal
    <3>1. g \in Int /\ s \in Int
      BY Numbers DEF Seg
    <3>2. Received(w, g, s) \/ (g = r /\ s = a.seg)
      BY <1>18, <3>1
    <3>3. QED
      BY <1>2, <1>16, <2>1, <3>2 DEF Causal
  <2>11. QED
    BY <2>7, <2>8, <2>9, <2>10 DEF Link
<1>21. QED
  BY <1>9, <1>15, <1>19, <1>20 DEF Inv

LEMMA ReadSendSafe ==
  ASSUME Inv, NEW p \in Workers, NEW w \in Workers, ReadSend(p, w)
  PROVE  Inv'
<1> DEFINE r == round[p]
           a == prefetched[p]
           c == channel[p][w]
           m == [from |-> p, seg |-> a.seg, version |-> r - 1]
           held == slot[p][a.at]
           new == [held EXCEPT !.send = "done"]
<1>1. /\ Sending(p) /\ w = Peer(p) /\ p # w /\ pc[p] # "between" /\ r <= Gates
      /\ sends[p][w] = <<a>> /\ deltas[r] = p \oplus w /\ a \in Handle
      /\ nextSeg[p] = a.seg + 1
      /\ \A g, s : Sent(p, g, s) <=> g < r \/ (g = r /\ s < a.seg)
  BY SendingMeans DEF ReadSend
<1>2. a.at \in SlotIds /\ a.seg \in Seg /\ a.seg \in Int /\ a # Nothing
  BY <1>1, Numbers DEF Seg
<1>3. Shape /\ Local(p) /\ c \in Seq(Message) /\ held \in SlotState /\ r \in Int
  BY <1>2, Messages, Types DEF Inv
<1>4. version[p][a.seg] = r - 1
  <2>1. pc[p] \in {"acquire", "kernel", "release"}
    BY <1>1, <1>3 DEF Shape
  <2>2. pc[p] \in {"kernel", "release"} => acquired[p] \in Handle /\ acquired[p].seg = a.seg - 1
    BY <1>2, <1>3, Types DEF Local, Place
  <2>3. acquired[p] \in Handle => acquired[p].seg \in Int
    BY Numbers DEF Seg
  <2>4. ~(a.seg < Updated(p))
    BY <1>2, <2>1, <2>2, <2>3 DEF Updated
  <2>5. QED
    BY <1>2, <1>3, <2>4 DEF Local, Versions
<1>5. /\ slot' = [slot EXCEPT ![p] = [slot[p] EXCEPT ![a.at] = new]]
      /\ channel' = [channel EXCEPT ![p] = [channel[p] EXCEPT ![w] = Append(c, m)]]
      /\ sends' = [sends EXCEPT ![p] = [sends[p] EXCEPT ![w] = << >>]]
  <2>1. Head(sends[p][w]) = a /\ Tail(sends[p][w]) = << >>
    BY <1>1
  <2>2. /\ slot' = [slot EXCEPT ![p][a.at].send = "done"]
        /\ channel' = [channel EXCEPT ![p][w] = Append(c, m)]
    BY <1>4, <2>1 DEF ReadSend
  <2>3. QED
    BY <2>1, <2>2 DEF ReadSend
<1>6. UNCHANGED <<deltas, round, pc, nextSeg, prefetched, acquired, version, recvs, failed>>
  BY DEF ReadSend, stream
<1>7. m \in Message /\ m.from = p /\ m.seg = a.seg /\ m.version = r - 1
  <2>1. r - 1 \in 0 .. Gates
    BY <1>1, <1>3, Types
  <2>2. QED
    BY <1>2, <2>1 DEF Message
<1>8. /\ new \in SlotState /\ new.used = held.used /\ new.recv = held.recv
      /\ new.send = "done" /\ new.buf = held.buf
  BY <1>3 DEF SlotState, Request
<1> HIDE DEF m, new
<1>9. Shape'
  <2>1. [slot[p] EXCEPT ![a.at] = new] \in [SlotIds -> SlotState]
    BY <1>2, <1>3, <1>8 DEF Shape
  <2>2. slot' \in [Workers -> [SlotIds -> SlotState]]
    BY <1>3, <1>5, <2>1 DEF Shape
  <2>3. channel' \in [Workers -> [Workers -> Seq(Message)]]
    <3>1. channel[p] \in [Workers -> Seq(Message)] /\ Append(c, m) \in Seq(Message)
      BY <1>3, <1>7, Appends DEF Shape
    <3>2. [channel[p] EXCEPT ![w] = Append(c, m)] \in [Workers -> Seq(Message)]
      BY <3>1
    <3>3. QED
      BY <1>3, <1>5, <3>2 DEF Shape
  <2>4. sends' \in [Workers -> [Workers -> Seq(Handle)]]
    <3>1. sends[p] \in [Workers -> Seq(Handle)] /\ << >> \in Seq(Handle)
      BY <1>3 DEF Shape
    <3>2. [sends[p] EXCEPT ![w] = << >>] \in [Workers -> Seq(Handle)]
      BY <3>1
    <3>3. QED
      BY <1>3, <1>5, <3>2 DEF Shape
  <2>5. QED
    BY <1>3, <1>6, <2>2, <2>3, <2>4 DEF Shape
<1>10. \A u \in Workers \ {p} : Same(u)
  BY <1>3, <1>5, <1>6 DEF Same, Shape
<1>11. slot'[p][a.at] = new /\ \A k \in SlotIds : k # a.at => slot'[p][k] = slot[p][k]
  BY <1>2, <1>3, <1>5 DEF Shape
<1>12. Peer(p)' = Peer(p) /\ \A s : Expected(p, s)' = Expected(p, s)
  BY <1>6 DEF Peer, Expected
<1>13. ~Sending(p)' /\ (Receiving(p)' <=> Receiving(p))
  BY <1>6, <1>8, <1>11 DEF Receiving, Sending
<1>14. Local(p)'
  <2>1. Place(p)'
    BY <1>3, <1>6, <1>12 DEF Local, Place
  <2>2. a.at # acquired[p].at
    BY <1>1, <1>2, <1>3 DEF Local, SlotFits, Sending
  <2>3. ASSUME NEW k \in SlotIds
        PROVE  SlotFits(p, k)'
    <3>1. SlotFits(p, k)
      BY <1>3 DEF Local
    <3>2. /\ Expected(p, acquired[p].seg)' = Expected(p, acquired[p].seg)
          /\ Expected(p, prefetched[p].seg)' = Expected(p, prefetched[p].seg)
          /\ prefetched' = prefetched /\ acquired' = acquired
      BY <1>6, <1>12 DEF Expected
    <3>3. CASE k = a.at
      <4>1. slot'[p][k] = new /\ slot[p][k] = held
        BY <1>11, <3>3
      <4>2. QED
        BY <1>8, <2>2, <3>1, <3>2, <3>3, <4>1 DEF SlotFits
    <3>4. CASE k # a.at
      <4>1. slot'[p][k] = slot[p][k]
        BY <1>11, <3>4
      <4>2. QED
        BY <3>1, <3>2, <3>4, <4>1 DEF SlotFits
    <3>5. QED
      BY <3>3, <3>4
  <2>4. Versions(p)'
    BY <1>3, <1>6 DEF Local, Versions, Updated
  <2>5. Requests(p)'
    <3>1. \A q \in Workers : sends'[p][q] = << >>
      <4>1. \A q \in Workers : q # w => sends[p][q] = << >>
        BY <1>1, <1>3 DEF Local, Requests
      <4>2. \A q \in Workers : sends'[p][q] = IF q = w THEN << >> ELSE sends[p][q]
        BY <1>3, <1>5 DEF Shape
      <4>3. QED
        BY <4>1, <4>2
    <3>2. \A q \in Workers :
            recvs[p][q] = IF Receiving(p) /\ q = Peer(p) THEN <<prefetched[p].at>> ELSE << >>
      BY <1>3 DEF Local, Requests
    <3>3. QED
      BY <1>6, <1>12, <1>13, <3>1, <3>2 DEF Requests
  <2>6. QED
    BY <2>1, <2>3, <2>4, <2>5 DEF Local
<1>15. \A u \in Workers : Local(u)'
  BY <1>6, <1>10, <1>14, SameKeeps DEF Inv
<1>16. \A u \in Workers : \A g, s : Received(u, g, s)' <=> Received(u, g, s)
  <2>1. \A g, s : Received(p, g, s)' <=> Received(p, g, s)
    BY <1>6, <1>13 DEF Received, Upto
  <2>2. QED
    BY <1>6, <1>10, <2>1, SameKeeps
<1>17. \A u \in Workers \ {p} : \A g, s : Sent(u, g, s)' <=> Sent(u, g, s)
  BY <1>6, <1>10, SameKeeps
<1>18. ASSUME NEW g \in Int, NEW s \in Int
       PROVE  Sent(p, g, s)' <=> Sent(p, g, s) \/ (g = r /\ s = a.seg)
  <2>1. Sent(p, g, s)' <=> g < r \/ (g = r /\ s < a.seg + 1)
    BY <1>1, <1>6, <1>13 DEF Sent, Upto
  <2>2. QED
    BY <1>1, <1>2, <2>1
<1>19. ASSUME NEW q \in Workers, NEW u \in Workers, q # u, ~(q = p /\ u = w)
       PROVE  Link(q, u)'
  <2>1. channel'[q][u] = channel[q][u]
    BY <1>3, <1>5, <1>19 DEF Shape
  <2>2. ASSUME NEW g \in 1 .. Gates, NEW s \in Seg, deltas[g] = q \oplus u
        PROVE  Sent(q, g, s)' <=> Sent(q, g, s)
    <3>1. CASE q # p
      BY <1>17, <3>1
    <3>2. CASE q = p
      <4>1. p \oplus u # p \oplus w
        <5>1. p \oplus (p \oplus u) = u /\ p \oplus (p \oplus w) = w
          BY Sums
        <5>2. u # w
          BY <1>19, <3>2
        <5>3. QED
          BY <5>1, <5>2
      <4>2. g # r /\ g \in Int /\ s \in Int
        BY <1>1, <2>2, <3>2, <4>1, Numbers DEF Seg
      <4>3. QED
        BY <1>18, <3>2, <4>2
    <3>3. QED
      BY <3>1, <3>2
  <2>3. Untouched(q, u)
    BY <1>16, <2>1, <2>2 DEF Untouched
  <2>4. QED
    BY <1>6, <1>19, <2>3, LinkKeeps
<1>20. Link(p, w)'
  <2>1. Travelling(p, w) /\ Ordered(p, w) /\ Complete(p, w) /\ Causal(p, w)
    BY <1>1 DEF Inv, Link
  <2> DEFINE d == Append(c, m)
             n == Len(c) + 1
  <2>2. channel'[p][w] = d
    BY <1>3, <1>5 DEF Shape
  <2>3. /\ n \in DOMAIN d /\ d[n] = m
        /\ \A i \in DOMAIN c : i \in DOMAIN d /\ d[i] = c[i]
        /\ \A i \in DOMAIN d : i \in DOMAIN c \/ i = n
        /\ \A i \in DOMAIN c : i \in Int /\ i < n
        /\ n \in Int
    BY <1>3, <1>7, Appends
  <2>4. \A i \in DOMAIN c : c[i] \in Message
    BY <1>3, Messages
  <2>5. \A e \in Message : e.version \in Int /\ e.version >= 0 /\ e.seg \in Int /\ e.seg \in Seg
    BY Numbers DEF Message, Seg
  <2>6. r \in 1 .. Gates /\ r - 1 < Gates /\ r - 1 + 1 = r
    <3>1. r \in 1 .. Gates
      BY <1>1, <1>3, Gate
    <3>2. QED
      BY <3>1, Numbers
  <2>7. ASSUME NEW g, NEW s, g = r, s = a.seg
        PROVE  Sent(p, g, s)' /\ ~Received(w, g, s)'
    <3>1. ~Sent(p, g, s)
      BY <1>1, <1>2, <1>3, <2>7
    <3>2. ~Received(w, g, s)
      BY <1>1, <1>2, <2>1, <2>6, <2>7, <3>1 DEF Causal
    <3>3. g \in Int /\ s \in Int
      BY <1>2, <1>3, <2>7
    <3>4. QED
      BY <1>16, <1>18, <2>7, <3>2, <3>3
  <2> HIDE DEF c, d, n
  <2>8. Travelling(p, w)'
    <3>1. ASSUME NEW i \in DOMAIN d, NEW g, NEW s, g = d[i].version + 1, s = d[i].seg
          PROVE  /\ d[i].from = p /\ d[i].version < Gates /\ deltas[g] = p \oplus w
                 /\ Sent(p, g, s)' /\ ~Received(w, g, s)'
      <4>1. CASE i \in DOMAIN c
        <5>1. d[i] = c[i]
          BY <2>3, <4>1
        <5>2. /\ d[i].from = p /\ d[i].version < Gates /\ deltas[g] = p \oplus w
              /\ Sent(p, g, s) /\ ~Received(w, g, s)
          BY <2>1, <3>1, <4>1, <5>1 DEF Travelling, c
        <5>3. g \in Int /\ s \in Int
          BY <2>4, <2>5, <3>1, <4>1, <5>1
        <5>4. QED
          BY <1>16, <1>18, <5>2, <5>3
      <4>2. CASE i = n
        <5>1. d[i] = m /\ g = r /\ s = a.seg
          BY <1>7, <2>3, <2>6, <3>1, <4>2
        <5>2. QED
          BY <1>1, <1>7, <2>6, <2>7, <5>1
      <4>3. QED
        BY <2>3, <4>1, <4>2
    <3>2. QED
      BY <1>6, <2>2, <3>1 DEF Travelling, Sent, Received
  <2>9. Ordered(p, w)'
    <3> SUFFICES ASSUME NEW i \in DOMAIN d, NEW j \in DOMAIN d, i < j
                 PROVE  Before(d[i], d[j])
      BY <2>2 DEF Ordered
    <3>1. i \in DOMAIN c
      BY <2>3
    <3>2. CASE j \in DOMAIN c
      BY <2>1, <2>3, <3>1, <3>2 DEF Ordered, c
    <3>3. CASE j = n
      <4>1. d[i] = c[i] /\ d[j] = m
        BY <2>3, <3>1, <3>3
      <4>2. Sent(p, c[i].version + 1, c[i].seg)
        BY <2>1, <3>1 DEF Travelling, c
      <4>3. c[i].version + 1 < r \/ (c[i].version + 1 = r /\ c[i].seg < a.seg)
        BY <1>1, <4>2
      <4>4. c[i].version \in Int
        BY <2>4, <2>5, <3>1
      <4>5. QED
        BY <1>3, <1>7, <4>1, <4>3, <4>4 DEF Before
    <3>4. QED
      BY <2>3, <3>2, <3>3
  <2>10. Complete(p, w)'
    <3> SUFFICES ASSUME NEW g \in 1 .. Gates, NEW s \in Seg,
                        deltas[g] = p \oplus w, Sent(p, g, s)', ~Received(w, g, s)'
                 PROVE  \E i \in DOMAIN d : d[i].version = g - 1 /\ d[i].seg = s
      BY <1>6, <2>2 DEF Complete
    <3>1. g \in Int /\ s \in Int
      BY Numbers DEF Seg
    <3>2. CASE Sent(p, g, s)
      <4>1. PICK i \in DOMAIN c : c[i].version = g - 1 /\ c[i].seg = s
        BY <1>16, <2>1, <3>2 DEF Complete, c
      <4>2. QED
        BY <2>3, <4>1
    <3>3. CASE g = r /\ s = a.seg
      BY <1>7, <2>3, <3>3
    <3>4. QED
      BY <1>18, <3>1, <3>2, <3>3
  <2>11. Causal(p, w)'
    <3> SUFFICES ASSUME NEW g \in 1 .. Gates, NEW s \in Seg,
                        deltas[g] = p \oplus w, Received(w, g, s)'
                 PROVE  Sent(p, g, s)'
      BY <1>6 DEF Causal
    <3>1. g \in Int /\ s \in Int
      BY Numbers DEF Seg
    <3>2. QED
      BY <1>16, <1>18, <2>1, <3>1 DEF Causal
  <2>12. QED
    BY <2>8, <2>9, <2>10, <2>11 DEF Link
<1>21. QED
  BY <1>9, <1>15, <1>19, <1>20 DEF Inv
-----------------------------------------------------------------------------
(* The invariant and what follows from it. *)

LEMMA InitInv == Init => Inv
<1> SUFFICES ASSUME Init
             PROVE  Inv
  OBVIOUS
<1>1. \A w \in Workers :
        /\ round[w] = 1 /\ pc[w] = "between" /\ nextSeg[w] = 0
        /\ prefetched[w] = Nothing /\ acquired[w] = Nothing /\ slot[w] = Pool
        /\ \A s \in Seg : version[w][s] = 0
        /\ \A p \in Workers : recvs[w][p] = << >> /\ sends[w][p] = << >> /\ channel[w][p] = << >>
  BY DEF Init, Seg
<1>2. Shape
  <2>1. \A S : << >> \in Seq(S)
    OBVIOUS
  <2>2. 1 \in 1 .. Gates + 1 /\ 0 \in 0 .. Segments /\ 0 \in 0 .. Gates
    BY Numbers
  <2>3. version \in [Workers -> [Seg -> 0 .. Gates]]
    BY <2>2 DEF Init, Seg
  <2>4. QED
    BY <2>1, <2>2, <2>3, Slots DEF Init, Shape
<1>3. ASSUME NEW w \in Workers
      PROVE  Local(w)
  <2>1. Place(w)
    BY <1>1 DEF Place
  <2>2. \A i \in SlotIds : SlotFits(w, i)
    BY <1>1, Slots, Numbers DEF SlotFits
  <2>3. Versions(w)
    BY <1>1 DEF Versions, Updated, Seg
  <2>4. Requests(w)
    BY <1>1 DEF Requests, Receiving, Sending
  <2>5. QED
    BY <2>1, <2>2, <2>3, <2>4 DEF Local
<1>4. ASSUME NEW u \in Workers, NEW g \in 1 .. Gates, NEW s \in Seg
      PROVE  ~Sent(u, g, s) /\ ~Received(u, g, s)
  <2>1. g >= 1 /\ g \in Int /\ s >= 0 /\ s \in Int
    BY Numbers DEF Seg
  <2>2. QED
    BY <1>1, <2>1 DEF Sent, Received, Upto
<1>5. ASSUME NEW p \in Workers, NEW w \in Workers
      PROVE  Link(p, w)
  <2>1. DOMAIN channel[p][w] = {}
    BY <1>1
  <2>2. QED
    BY <1>4, <2>1 DEF Link, Travelling, Ordered, Complete, Causal
<1>6. QED
  BY <1>2, <1>3, <1>5 DEF Inv

LEMMA StutterKeeps == Inv /\ UNCHANGED vars => Inv'
<1> SUFFICES ASSUME Inv, UNCHANGED vars
             PROVE  Inv'
  OBVIOUS
<1>1. /\ UNCHANGED <<deltas, round, pc, nextSeg, prefetched, acquired, slot, version>>
      /\ UNCHANGED <<recvs, sends, channel, failed>>
  BY DEF vars, stream, network
<1>2. Shape'
  BY <1>1 DEF Inv, Shape
<1>3. \A u \in Workers : Same(u)
  BY <1>1 DEF Same
<1>4. \A u \in Workers : Local(u)'
  BY <1>1, <1>3, SameKeeps DEF Inv
<1>5. ASSUME NEW p \in Workers, NEW u \in Workers, p # u
      PROVE  Link(p, u)'
  <2>1. Untouched(p, u)
    BY <1>1, <1>3, SameKeeps DEF Untouched
  <2>2. QED
    BY <1>1, <1>5, <2>1, LinkKeeps
<1>6. QED
  BY <1>2, <1>4, <1>5 DEF Inv

LEMMA NextKeeps == Inv /\ [Next]_vars => Inv'
<1> SUFFICES ASSUME Inv, [Next]_vars
             PROVE  Inv'
  OBVIOUS
<1>1. ASSUME NEW w \in Workers, WorkerStep(w)
      PROVE  Inv'
  <2>1. CASE LocalGate(w)
    BY <2>1, LocalGateSafe, HarmlessKeeps
  <2>2. CASE OpenStream(w)
    BY <2>2, OpenStreamSafe, HarmlessKeeps
  <2>3. CASE Acquire(w)
    BY <2>3, AcquireSafe, HarmlessKeeps
  <2>4. CASE Kernel(w)
    BY <2>4, KernelSafe, HarmlessKeeps
  <2>5. CASE Release(w)
    BY <2>5, ReleaseSafe, HarmlessKeeps
  <2>6. CASE CloseStream(w)
    BY <2>6, CloseStreamSafe, HarmlessKeeps
  <2>7. QED
    BY <1>1, <2>1, <2>2, <2>3, <2>4, <2>5, <2>6 DEF WorkerStep
<1>2. ASSUME NEW p \in Workers, NEW w \in Workers, ReadSend(p, w)
      PROVE  Inv'
  BY <1>2, ReadSendSafe
<1>3. ASSUME NEW p \in Workers, NEW w \in Workers, Deliver(p, w)
      PROVE  Inv'
  BY <1>3, DeliverSafe
<1>4. CASE UNCHANGED vars
  BY <1>4, StutterKeeps
<1>5. CASE Next
  BY <1>1, <1>2, <1>3, <1>4, <1>5 DEF Next, Done
<1>6. QED
  BY <1>4, <1>5

LEMMA Always == Spec => []Inv
<1>1. QED
  BY InitInv, NextKeeps, PTL DEF Spec

\* The counters, segments, slots and buffers keep their types; in particular the
\* segment counter never leaves the block.
THEOREM TypeCorrect == Spec => []TypeOK
<1>1. Inv => TypeOK
  <2> SUFFICES ASSUME Inv
               PROVE  TypeOK
    OBVIOUS
  <2>1. Shape
    BY DEF Inv
  <2>2. \A w \in Workers : {prefetched[w], acquired[w]} \subseteq
          [seg : 0 .. Segments - 1, at : SlotIds] \cup {Nothing}
    BY <2>1, Types DEF Handle, Seg
  <2>3. QED
    BY <2>1, <2>2 DEF Shape, TypeOK, Seg
<1>2. QED
  BY <1>1, Always, PTL

\* Two slots are enough for every block and every sequence of gates: the pool
\* always has a free one when prefetch_next takes it, so the abort is never met.
THEOREM SlotsSuffice == Spec => []TwoSlotsSuffice
<1>1. Inv => TwoSlotsSuffice
  BY DEF Inv, Shape, TwoSlotsSuffice
<1>2. QED
  BY <1>1, Always, PTL

\* u3_inter_kernel reads the peer's segment of the same number, as it was before
\* this gate, however many workers, segments and gates there are.
THEOREM KernelReadsRightSegment == Spec => []KernelReadsPreviousGate
<1>1. Inv => KernelReadsPreviousGate
  <2> SUFFICES ASSUME Inv, NEW w \in Workers, pc[w] = "kernel"
               PROVE  slot[w][acquired[w].at].buf = Expected(w, acquired[w].seg)
    BY DEF KernelReadsPreviousGate, Expected
  <2>1. Shape /\ Local(w) /\ acquired[w] # Nothing
    BY DEF Inv, Local, Place
  <2>2. acquired[w].at \in SlotIds
    BY <2>1, Types, Numbers
  <2>3. QED
    BY <2>1, <2>2 DEF Local, SlotFits
<1>2. QED
  BY <1>1, Always, PTL

\* The prefetching loop updates every segment exactly once per gate.
THEOREM SegmentsUpdatedOnce == Spec => []EverySegmentOncePerGate
<1>1. Inv => EverySegmentOncePerGate
  <2> SUFFICES ASSUME Inv, NEW w \in Workers, pc[w] = "between", NEW s \in DOMAIN version[w]
               PROVE  version[w][s] = round[w] - 1
    BY DEF EverySegmentOncePerGate
  <2>1. Shape /\ Versions(w) /\ Updated(w) = 0
    BY DEF Inv, Local, Updated
  <2>2. s \in Seg
    BY <2>1 DEF Shape
  <2>3. ~(s < 0)
    BY <2>1, <2>2, Types
  <2>4. QED
    BY <2>1, <2>2, <2>3 DEF Versions
<1>2. QED
  BY <1>1, Always, PTL

\* The kernel and the local gates write no memory that MPI may still read.
THEOREM WritesAwayFromSends == Spec => []NoWriteUnderSend
<1>1. Inv => NoWriteUnderSend
  <2> SUFFICES ASSUME Inv, NEW w \in Workers, NEW p \in Workers, NEW i \in DOMAIN sends[w][p]
               PROVE  /\ pc[w] # "between"
                      /\ pc[w] = "kernel" => sends[w][p][i].seg # acquired[w].seg
    BY DEF NoWriteUnderSend
  <2>1. sends[w][p] # << >>
    OBVIOUS
  <2>2. /\ pc[w] # "between" /\ sends[w][p] = <<prefetched[w]>> /\ prefetched[w] \in Handle
        /\ prefetched[w] # Nothing
    BY <2>1, SendingMeans, Numbers
  <2>3. sends[w][p][i] = prefetched[w]
    BY <2>2
  <2>4. pc[w] = "kernel" => acquired[w].seg = prefetched[w].seg - 1
    BY <2>2 DEF Inv, Local, Place
  <2>5. prefetched[w].seg \in Int
    BY <2>2, Numbers DEF Seg
  <2>6. QED
    BY <2>2, <2>3, <2>4, <2>5
<1>2. QED
  BY <1>1, Always, PTL

\* Nothing of a stream is pending once it is closed.
THEOREM StreamsLeaveNothing == Spec => []NothingLeftBehind
<1>1. Inv => NothingLeftBehind
  <2> SUFFICES ASSUME Inv, NEW w \in Workers, pc[w] = "between"
               PROVE  /\ \A i \in SlotIds : Quiet(slot[w][i])
                      /\ \A p \in Workers : recvs[w][p] = << >> /\ sends[w][p] = << >>
    BY DEF NothingLeftBehind
  <2>1. Local(w) /\ prefetched[w] = Nothing /\ acquired[w] = Nothing
    BY DEF Inv, Local, Place
  <2>2. \A i \in SlotIds : slot[w][i] = FreeSlot
    BY <2>1, Numbers DEF Local, SlotFits
  <2>3. \A i \in SlotIds : Quiet(slot[w][i])
    BY <2>2, Slots DEF Quiet
  <2>4. QED
    BY <2>1, <2>3 DEF Local, Requests, Receiving, Sending
<1>2. QED
  BY <1>1, Always, PTL
=============================================================================
