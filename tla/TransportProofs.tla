---------------------------- MODULE TransportProofs ----------------------------
(***************************************************************************)
(* websocketpp's transports, for every bound.                              *)
(*                                                                         *)
(* The accept loop of a server endpoint neither leaks a connection nor     *)
(* multiplies, however the application, the io thread and the network      *)
(* interleave; a connection over iostreams gives every octet to one read   *)
(* and answers every read once.  In both, what the property counts is      *)
(* conserved by each step, so the property needs beside it only the types  *)
(* and, for the iostream transport, that a read in progress fits its       *)
(* buffer.                                                                 *)
(*                                                                         *)
(* The stages of a client connection (resolve, connect, proxy, TLS,        *)
(* shutdown) report their outcome once, whether the answer or its timer    *)
(* comes first, and success is reported when all of them were passed.      *)
(***************************************************************************)
EXTENDS AsioConnection, AsioEndpoint, IostreamConnection, FiniteSetTheorems, SequenceTheorems,
        TLAPS

-----------------------------------------------------------------------------
(* The accept loop (transport/asio/endpoint.hpp).                           *)

EpState == {"UNINITIALIZED", "READY", "LISTENING"}
Place == {"no", "test", "accept"}
AcceptState == {"pending", "ok", "cancelled", "error"}

EpTypeOK ==
  /\ ep \in [state : EpState, open : BOOLEAN, run : {"no", "yes"}, perpetual : BOOLEAN]
  /\ starting \in [Thread -> Place]
  /\ accepts \in Seq(AcceptState)
  /\ cons \in [created : Nat, started : Nat, terminated : Nat, arrived : Nat]
  /\ listens \in [listen : Nat, start : Nat, begun : BOOLEAN]

One(p) == IF p THEN 1 ELSE 0

(* A set of threads is counted thread by thread.                            *)
LEMMA ThreadsCounted ==
  ASSUME NEW S \in SUBSET Thread
  PROVE  Cardinality(S) = One("app" \in S) + One("io" \in S)
<1>1. CASE S = {}
  BY <1>1, FS_EmptySet DEF One
<1>2. CASE S = {"app"}
  BY <1>2, FS_Singleton DEF One
<1>3. CASE S = {"io"}
  <2>1. Cardinality({"io"}) = 1
    BY FS_Singleton
  <2> QED
    BY <1>3, <2>1 DEF One
<1>4. CASE S = {"app", "io"}
  <2>1. IsFiniteSet({"app"}) /\ Cardinality({"app"}) = 1
    BY FS_Singleton
  <2>2. Cardinality({"app"} \cup {"io"}) = 2
    BY <2>1, FS_AddElement
  <2>3. S = {"app"} \cup {"io"}
    BY <1>4
  <2> QED
    BY <2>2, <2>3 DEF One
<1> QED
  BY <1>1, <1>2, <1>3, <1>4 DEF Thread

\* How many threads are about to accept, and how many are in start_accept().
HandAt(p) == IF p = "accept" THEN 1 ELSE 0
BusyAt(p) == IF p # "no" THEN 1 ELSE 0
Hand(f) == HandAt(f["app"]) + HandAt(f["io"])
Busy(f) == BusyAt(f["app"]) + BusyAt(f["io"])

(* The two counts of the properties.                                        *)
LEMMA CountsByThread ==
  ASSUME NEW f \in [Thread -> Place]
  PROVE  /\ Cardinality({t \in Thread : f[t] = "accept"}) = Hand(f)
         /\ Cardinality({t \in Thread : f[t] # "no"}) = Busy(f)
<1> DEFINE A == {t \in Thread : f[t] = "accept"}
           B == {t \in Thread : f[t] # "no"}
<1>1. Cardinality(A) = One("app" \in A) + One("io" \in A)
  BY ThreadsCounted
<1>2. Cardinality(B) = One("app" \in B) + One("io" \in B)
  BY ThreadsCounted
<1> QED
  BY <1>1, <1>2 DEF One, HandAt, BusyAt, Hand, Busy, Thread

LEMMA CountsType ==
  /\ Hand(starting) \in Nat /\ Busy(starting) \in Nat
  /\ Hand(starting') \in Nat /\ Busy(starting') \in Nat
BY DEF Hand, Busy, HandAt, BusyAt

(* What the counts become when a thread moves.                              *)
LEMMA ThreadMoves ==
  ASSUME starting \in [Thread -> Place], NEW t \in Thread, NEW p \in Place,
         starting' = [starting EXCEPT ![t] = p]
  PROVE  /\ Hand(starting') + HandAt(starting[t]) = Hand(starting) + HandAt(p)
         /\ Busy(starting') + BusyAt(starting[t]) = Busy(starting) + BusyAt(p)
<1>1. \/ t = "app" /\ starting'["app"] = p /\ starting'["io"] = starting["io"]
      \/ t = "io" /\ starting'["io"] = p /\ starting'["app"] = starting["app"]
  BY DEF Thread
<1> QED
  BY <1>1 DEF Hand, Busy, HandAt, BusyAt

(* AcceptLoopKept with the threads counted one by one, which is inductive.  *)
Balanced == cons.created = cons.started + cons.terminated + Len(accepts) + Hand(starting)
Chains == Len(accepts) + Busy(starting) <= listens.start
OpenListens == ep.open => ep.state = "LISTENING"

EpInv == EpTypeOK /\ OpenListens /\ Balanced /\ Chains

(* The counts are those of the property.                                    *)
LEMMA EpInvSuffices == EpInv => AcceptLoopKept
<1> SUFFICES ASSUME EpInv PROVE AcceptLoopKept
  OBVIOUS
<1>1. /\ InHand = Hand(starting)
      /\ Cardinality({t \in Thread : starting[t] # "no"}) = Busy(starting)
  BY CountsByThread DEF EpInv, EpTypeOK, InHand
<1>2. NoConnectionLeaks
  BY <1>1, Zenon DEF EpInv, OpenListens, Balanced, NoConnectionLeaks
<1>3. OneChainPerStart
  BY <1>1, Zenon DEF EpInv, Chains, OneChainPerStart
<1> QED
  BY <1>2, <1>3 DEF AcceptLoopKept

LEMMA EpInitHolds == EpInit => EpInv
BY DEF EpInit, EpInv, EpTypeOK, OpenListens, Balanced, Chains, Hand, Busy,
       HandAt, BusyAt, Thread, Place, EpState, AcceptState

(* The numbers of a state.                                                  *)
LEMMA NumbersOf ==
  ASSUME EpInv
  PROVE  \E c, s, t, n, h, b, k \in Nat :
           /\ cons.created = c /\ cons.started = s /\ cons.terminated = t
           /\ Len(accepts) = n /\ Hand(starting) = h /\ Busy(starting) = b
           /\ listens.start = k /\ c = s + t + n + h /\ n + b <= k
<1>1. /\ cons.created \in Nat /\ cons.started \in Nat /\ cons.terminated \in Nat
      /\ Len(accepts) \in Nat /\ listens.start \in Nat
  BY DEF EpInv, EpTypeOK
<1> QED
  BY <1>1, CountsType, Zenon DEF EpInv, Balanced, Chains

(* A step that keeps the places, the accepts and the counters keeps what    *)
(* they add up to.                                                          *)
LEMMA CountsUnchanged ==
  ASSUME EpInv, UNCHANGED <<starting, accepts>>,
         cons'.created = cons.created, cons'.started = cons.started,
         cons'.terminated = cons.terminated, listens'.start = listens.start
  PROVE  Balanced' /\ Chains'
BY DEF EpInv, Balanced, Chains

(* init_asio(), listen(), the end of stop_listening(), run(), its return    *)
(* and the perpetual work touch the endpoint alone.                         *)
LEMMA EndpointSteps ==
  ASSUME EpInv, init_asio \/ listen \/ StopListeningReturns \/ run \/ RunReturns \/ start_perpetual
  PROVE  EpInv'
<1>1. UNCHANGED <<starting, accepts, cons>> /\ listens'.start = listens.start
  BY DEF EpInv, EpTypeOK, init_asio, listen, StopListeningReturns, run, RunReturns, start_perpetual
<1>2. Balanced' /\ Chains'
  BY <1>1, CountsUnchanged
<1>3. EpTypeOK' /\ OpenListens'
  <2>1. CASE init_asio
    BY <2>1 DEF EpInv, EpTypeOK, OpenListens, init_asio, EpState
  <2>2. CASE listen
    <3>1. listens' \in [listen : Nat, start : Nat, begun : BOOLEAN]
      <4>1. listens' = [listens EXCEPT !.listen = @ + 1, !.begun = FALSE]
        BY <2>2 DEF listen
      <4>2. listens \in [listen : Nat, start : Nat, begun : BOOLEAN]
        BY DEF EpInv, EpTypeOK
      <4>3. PICK n \in Nat : n = listens.listen + 1
        BY <4>2
      <4>4. listens' = [listens EXCEPT !.listen = n, !.begun = FALSE]
        BY <4>1, <4>3
      <4> QED
        BY <4>2, <4>4
    <3>2. ep' = ep \/ ep' = [ep EXCEPT !.state = "LISTENING", !.open = TRUE]
      BY <2>2 DEF listen
    <3> QED
      BY <1>1, <3>1, <3>2 DEF EpInv, EpTypeOK, OpenListens, EpState
  <2>3. CASE run
    BY <2>3 DEF EpInv, EpTypeOK, OpenListens, run, EpState
  <2>4. CASE RunReturns
    BY <2>4 DEF EpInv, EpTypeOK, OpenListens, RunReturns, EpState
  <2>5. CASE start_perpetual
    BY <2>5 DEF EpInv, EpTypeOK, OpenListens, start_perpetual, EpState
  <2>6. CASE StopListeningReturns
    BY <2>6 DEF EpInv, EpTypeOK, OpenListens, StopListeningReturns, EpState
  <2> QED
    BY <2>1, <2>2, <2>3, <2>4, <2>5, <2>6
<1> QED
  BY <1>2, <1>3 DEF EpInv

(* stop_listening() cancels accepts and forgets none.                       *)
LEMMA StopStep ==
  ASSUME EpInv, stop_listening
  PROVE  EpInv'
<1>1. accepts' \in Seq(AcceptState) /\ Len(accepts') = Len(accepts)
  BY DEF EpInv, EpTypeOK, stop_listening, AcceptState
<1>2. EpTypeOK' /\ OpenListens'
  BY <1>1 DEF EpInv, EpTypeOK, OpenListens, stop_listening, EpState
<1> QED
  BY <1>1, <1>2 DEF EpInv, Balanced, Chains, stop_listening

(* The application starts one chain more.                                   *)
LEMMA StartStep ==
  ASSUME EpInv, Start
  PROVE  EpInv'
<1>1. EpTypeOK' /\ OpenListens'
  BY DEF EpInv, EpTypeOK, OpenListens, Start, Thread, Place
<1>2. /\ starting' = [starting EXCEPT !["app"] = "test"] /\ starting["app"] = "no"
      /\ starting \in [Thread -> Place] /\ "app" \in Thread /\ "test" \in Place
      /\ listens.start \in Nat /\ listens'.start = listens.start + 1
      /\ Len(accepts) \in Nat /\ accepts' = accepts /\ cons' = cons
  BY DEF EpInv, EpTypeOK, Start, Thread, Place
<1>3. /\ Hand(starting') + HandAt("no") = Hand(starting) + HandAt("test")
      /\ Busy(starting') + BusyAt("no") = Busy(starting) + BusyAt("test")
  BY <1>2, ThreadMoves
<1>4. Hand(starting') = Hand(starting) /\ Busy(starting') = Busy(starting) + 1
  BY <1>3, CountsType DEF HandAt, BusyAt
<1> QED
  BY <1>1, <1>2, <1>4, CountsType DEF EpInv, Balanced, Chains

(* A client arrives.                                                        *)
LEMMA ArriveStep ==
  ASSUME EpInv, ClientArrives
  PROVE  EpInv'
<1>1. EpTypeOK' /\ OpenListens'
  BY SMTT(30) DEF EpInv, EpTypeOK, OpenListens, ClientArrives
<1> QED
  BY <1>1, CountsUnchanged DEF EpInv, EpTypeOK, ClientArrives

(* The network answers an accept.                                           *)
LEMMA AcceptedStep ==
  ASSUME EpInv, Accepted
  PROVE  EpInv'
<1>1. PICK i \in 1..Len(accepts), a \in {"ok", "error"} : accepts' = [accepts EXCEPT ![i] = a]
  BY DEF Accepted
<1>2. accepts' \in Seq(AcceptState) /\ Len(accepts') = Len(accepts)
  BY <1>1 DEF EpInv, EpTypeOK, AcceptState
<1> QED
  BY <1>2 DEF EpInv, EpTypeOK, OpenListens, Balanced, Chains, Accepted

(* start_accept() moves a thread one place on, and counts the connection it *)
(* creates.                                                                 *)
LEMMA TestStep ==
  ASSUME EpInv, NEW t \in Thread, TestListening(t)
  PROVE  EpInv'
<1>1. PICK p \in {"no", "accept"} :
        /\ starting' = [starting EXCEPT ![t] = p] /\ starting[t] = "test"
        /\ IF p = "accept" THEN cons' = [cons EXCEPT !.created = @ + 1] ELSE cons' = cons
  BY DEF TestListening
<1>2. UNCHANGED <<ep, accepts, listens>>
  BY DEF TestListening
<1>3. EpTypeOK' /\ OpenListens'
  BY <1>1, <1>2 DEF EpInv, EpTypeOK, OpenListens, Place
<1>4. /\ starting \in [Thread -> Place] /\ p \in Place
      /\ Len(accepts) \in Nat /\ listens.start \in Nat
      /\ cons.created \in Nat /\ cons.started \in Nat /\ cons.terminated \in Nat
  BY DEF EpInv, EpTypeOK, Place
<1>5. /\ cons'.created = cons.created + HandAt(p)
      /\ cons'.started = cons.started /\ cons'.terminated = cons.terminated
  BY <1>1 DEF EpInv, EpTypeOK, HandAt
<1>6. /\ Hand(starting') + HandAt("test") = Hand(starting) + HandAt(p)
      /\ Busy(starting') + BusyAt("test") = Busy(starting) + BusyAt(p)
  BY <1>1, <1>4, ThreadMoves
<1>7. Balanced'
  <2>1. PICK c, s, d, n, h, b, k \in Nat :
           /\ cons.created = c /\ cons.started = s /\ cons.terminated = d
           /\ Len(accepts) = n /\ Hand(starting) = h /\ Busy(starting) = b
           /\ listens.start = k /\ c = s + d + n + h /\ n + b <= k
    BY NumbersOf, Zenon
  <2>2. Hand(starting') = h + HandAt(p)
    BY <1>6, <2>1, CountsType DEF HandAt
  <2> QED
    BY <1>2, <1>5, <2>1, <2>2 DEF Balanced, HandAt
<1>8. Chains'
  <2>1. Busy(starting') <= Busy(starting)
    BY <1>6, CountsType DEF BusyAt
  <2> QED
    BY <1>2, <1>4, <2>1, CountsType DEF EpInv, Chains
<1> QED
  BY <1>3, <1>7, <1>8 DEF EpInv

(* async_accept() hands the connection to an accept, or terminates it.      *)
LEMMA AsyncAcceptStep ==
  ASSUME EpInv, NEW t \in Thread, async_accept(t)
  PROVE  EpInv'
<1>1. /\ starting' = [starting EXCEPT ![t] = "no"] /\ starting[t] = "accept"
      /\ UNCHANGED ep
  BY DEF async_accept
<1>2. /\ starting \in [Thread -> Place] /\ "no" \in Place
      /\ Len(accepts) \in Nat /\ listens.start \in Nat
      /\ cons.created \in Nat /\ cons.started \in Nat /\ cons.terminated \in Nat
  BY DEF EpInv, EpTypeOK, Place
<1>3. /\ Hand(starting') + HandAt("accept") = Hand(starting) + HandAt("no")
      /\ Busy(starting') + BusyAt("accept") = Busy(starting) + BusyAt("no")
  BY <1>1, <1>2, ThreadMoves
<1>4. Hand(starting') + 1 = Hand(starting) /\ Busy(starting') + 1 = Busy(starting)
  BY <1>3, CountsType DEF HandAt, BusyAt
<1>5. CASE ep.state = "LISTENING"
  <2>1. /\ cons' = cons /\ listens' = [listens EXCEPT !.begun = @ \/ t = "app"]
        /\ \E a \in {"pending", "error"} : accepts' = Append(accepts, a)
    BY <1>5 DEF async_accept
  <2>2. accepts' \in Seq(AcceptState) /\ Len(accepts') = Len(accepts) + 1
    BY <2>1 DEF EpInv, EpTypeOK, AcceptState
  <2>3. listens' \in [listen : Nat, start : Nat, begun : BOOLEAN] /\ listens'.start = listens.start
    BY <2>1 DEF EpInv, EpTypeOK
  <2>4. EpTypeOK' /\ OpenListens'
    BY <1>1, <2>1, <2>2, <2>3 DEF EpInv, EpTypeOK, OpenListens, Place
  <2>5. UNCHANGED cons
    BY <2>1
  <2>6. PICK c, s, d, n, h, b, k \in Nat :
           /\ cons.created = c /\ cons.started = s /\ cons.terminated = d
           /\ Len(accepts) = n /\ Hand(starting) = h /\ Busy(starting) = b
           /\ listens.start = k /\ c = s + d + n + h /\ n + b <= k
    BY NumbersOf, Zenon
  <2>7. PICK h1, b1 \in Nat : Hand(starting') = h1 /\ Busy(starting') = b1 /\ h1 + 1 = h /\ b1 + 1 = b
    BY <1>4, <2>6, CountsType, Zenon
  <2>8. Balanced' /\ Chains'
    BY <2>2, <2>3, <2>5, <2>6, <2>7 DEF Balanced, Chains
  <2> QED
    BY <2>4, <2>8 DEF EpInv
<1>6. CASE ep.state # "LISTENING"
  <2>1. /\ cons' = [cons EXCEPT !.terminated = @ + 1]
        /\ UNCHANGED <<accepts, listens>>
    BY <1>6 DEF async_accept, Terminated
  <2>2. /\ cons' \in [created : Nat, started : Nat, terminated : Nat, arrived : Nat]
        /\ cons'.created = cons.created /\ cons'.started = cons.started
        /\ cons'.terminated = cons.terminated + 1
    BY <2>1 DEF EpInv, EpTypeOK
  <2>3. EpTypeOK' /\ OpenListens'
    BY <1>1, <2>1, <2>2 DEF EpInv, EpTypeOK, OpenListens, Place
  <2>4. /\ UNCHANGED <<accepts, listens>> /\ cons'.created = cons.created
        /\ cons'.started = cons.started /\ cons'.terminated = cons.terminated + 1
    BY <2>1, <2>2
  <2>5. PICK c, s, d, n, h, b, k \in Nat :
           /\ cons.created = c /\ cons.started = s /\ cons.terminated = d
           /\ Len(accepts) = n /\ Hand(starting) = h /\ Busy(starting) = b
           /\ listens.start = k /\ c = s + d + n + h /\ n + b <= k
    BY NumbersOf, Zenon
  <2>6. PICK h1, b1 \in Nat : Hand(starting') = h1 /\ Busy(starting') = b1 /\ h1 + 1 = h /\ b1 + 1 = b
    BY <1>4, <2>5, CountsType, Zenon
  <2>7. Balanced' /\ Chains'
    BY <2>4, <2>5, <2>6 DEF Balanced, Chains
  <2> QED
    BY <2>3, <2>7 DEF EpInv
<1> QED
  BY <1>5, <1>6

LEMMA JoinedSequence ==
  ASSUME NEW S, NEW a \in Seq(S), NEW b \in Seq(S)
  PROVE  a \o b \in Seq(S) /\ Len(a \o b) = Len(a) + Len(b)
OBVIOUS

(* handle_accept() takes one accept, accounts for its connection, and       *)
(* carries the chain on in the io thread.                                   *)
LEMMA HandleAcceptStep ==
  ASSUME EpInv, NEW i \in 1..Len(accepts), handle_accept(i)
  PROVE  EpInv'
<1>1. /\ accepts \in Seq(AcceptState) /\ Len(accepts) \in Nat
      /\ accepts' = SubSeq(accepts, 1, i - 1) \o SubSeq(accepts, i + 1, Len(accepts))
      /\ starting' = [starting EXCEPT !["io"] = "test"] /\ starting["io"] = "no"
      /\ UNCHANGED <<ep, listens>>
  BY DEF EpInv, EpTypeOK, handle_accept
<1>2. accepts' \in Seq(AcceptState) /\ Len(accepts') = Len(accepts) - 1
  <2>1. /\ SubSeq(accepts, 1, i - 1) \in Seq(AcceptState)
        /\ Len(SubSeq(accepts, 1, i - 1)) = i - 1
    BY <1>1
  <2>2. /\ SubSeq(accepts, i + 1, Len(accepts)) \in Seq(AcceptState)
        /\ Len(SubSeq(accepts, i + 1, Len(accepts))) = Len(accepts) - i
    BY <1>1
  <2>3. /\ accepts' \in Seq(AcceptState)
        /\ Len(accepts') = Len(SubSeq(accepts, 1, i - 1)) + Len(SubSeq(accepts, i + 1, Len(accepts)))
    BY <1>1, <2>1, <2>2, JoinedSequence
  <2>4. PICK n \in Nat : n = Len(accepts)
    BY <1>1
  <2>5. Len(accepts') = (i - 1) + (n - i)
    BY <2>1, <2>2, <2>3, <2>4
  <2>6. Len(accepts') = n - 1
    BY <2>4, <2>5
  <2> QED
    BY <2>3, <2>4, <2>6
<1>3. /\ starting \in [Thread -> Place] /\ "io" \in Thread /\ "test" \in Place
      /\ listens.start \in Nat
      /\ cons.created \in Nat /\ cons.started \in Nat /\ cons.terminated \in Nat
  BY DEF EpInv, EpTypeOK, Thread, Place
<1>8. /\ Hand(starting') + HandAt("no") = Hand(starting) + HandAt("test")
      /\ Busy(starting') + BusyAt("no") = Busy(starting) + BusyAt("test")
  BY <1>1, <1>3, ThreadMoves
<1>9. Hand(starting') = Hand(starting) /\ Busy(starting') = Busy(starting) + 1
  BY <1>8, CountsType DEF HandAt, BusyAt
<1>4. /\ cons' \in [created : Nat, started : Nat, terminated : Nat, arrived : Nat]
      /\ cons'.created = cons.created
      /\ cons'.started + cons'.terminated = cons.started + cons.terminated + 1
  <2>1. cons \in [created : Nat, started : Nat, terminated : Nat, arrived : Nat]
    BY DEF EpInv, EpTypeOK
  <2>2. \/ cons' = [cons EXCEPT !.started = @ + 1]
        \/ cons' = [cons EXCEPT !.terminated = @ + 1]
    BY DEF handle_accept, Terminated
  <2> QED
    BY <2>1, <2>2
<1>5. EpTypeOK' /\ OpenListens'
  BY <1>1, <1>2, <1>4 DEF EpInv, EpTypeOK, OpenListens, Place
<1>6. cons'.started \in Nat /\ cons'.terminated \in Nat
  BY <1>4
<1>7. Balanced' /\ Chains'
  <2>1. PICK c, s, d, n, h, b, k \in Nat :
           /\ cons.created = c /\ cons.started = s /\ cons.terminated = d
           /\ Len(accepts) = n /\ Hand(starting) = h /\ Busy(starting) = b
           /\ listens.start = k /\ c = s + d + n + h /\ n + b <= k
    BY NumbersOf, Zenon
  <2>2. PICK s1, d1 \in Nat : cons'.started = s1 /\ cons'.terminated = d1 /\ s1 + d1 = s + d + 1
    BY <1>4, <1>6, <2>1, Zenon
  <2>3. listens' = listens
    BY <1>1
  <2>4. Balanced'
    BY <1>2, <1>4, <1>9, <2>1, <2>2 DEF Balanced
  <2>5. Chains'
    BY <1>2, <1>9, <2>1, <2>3 DEF Chains
  <2> QED
    BY <2>4, <2>5
<1> QED
  BY <1>5, <1>7 DEF EpInv

(* The inductive invariant of the accept loop.                              *)
THEOREM AcceptLoopInvariance == EpSpec => []EpInv
<1>1. EpInv /\ [EpNext]_epVars => EpInv'
  <2> SUFFICES ASSUME EpInv, [EpNext]_epVars PROVE EpInv'
    OBVIOUS
  <2>1. CASE init_asio \/ listen \/ StopListeningReturns \/ run \/ RunReturns \/ start_perpetual
    BY <2>1, EndpointSteps
  <2>2. CASE stop_listening
    BY <2>2, StopStep
  <2>3. CASE Start
    BY <2>3, StartStep
  <2>4. CASE ClientArrives
    BY <2>4, ArriveStep
  <2>5. CASE Accepted
    BY <2>5, AcceptedStep
  <2>6. CASE HandleAccept
    BY <2>6, HandleAcceptStep DEF HandleAccept
  <2>7. ASSUME NEW t \in Thread, StartAccept(t) PROVE EpInv'
    BY <2>7, TestStep, AsyncAcceptStep DEF StartAccept
  <2>8. CASE UNCHANGED epVars
    BY <2>8 DEF EpInv, EpTypeOK, OpenListens, Balanced, Chains, epVars
  <2> QED
    BY <2>1, <2>2, <2>3, <2>4, <2>5, <2>6, <2>7, <2>8 DEF EpNext
<1> QED
  BY <1>1, EpInitHolds, PTL DEF EpSpec

(* The accept loop keeps every connection and never multiplies, whatever    *)
(* the application, the io thread and the network do in between             *)
(* (start_accept(), async_accept(), handle_accept()).                       *)
THEOREM AcceptLoopIsKept == EpSpec => []AcceptLoopKept
BY AcceptLoopInvariance, EpInvSuffices, PTL

-----------------------------------------------------------------------------
(* The iostream transport (transport/iostream/connection.hpp).              *)

TransportRead == [reading : BOOLEAN, needed : Nat, len : Nat, cursor : Nat]

\* A read in progress fits its buffer and is not satisfied yet.
Fits(r) == r.reading => r.needed <= r.len /\ r.cursor < r.needed /\ r.len <= MaxLen

\* The octets and the read that a transport still holds.
Held(r) == IF r.reading THEN r.cursor ELSE 0
Waits(r) == IF r.reading THEN 1 ELSE 0

\* The octets up to the cursor c of buffer b follow the n that were given.
Follows(b, c, n) == \A i \in 1..c : b[i] = n + i

\* Octets are given in the order they came.
InOrder(s) == \A i \in 1..Len(s) : s[i] = i

IoCore ==
  /\ io \in TransportRead /\ Fits(io) /\ buf \in [1..MaxLen -> Nat]
  /\ fed \in Nat /\ got \in Seq(Nat) /\ reads \in Nat /\ answered \in Nat
  /\ fed = Len(got) + Held(io) /\ InOrder(got)
  /\ io.reading => Follows(buf, io.cursor, Len(got))
  /\ reads = answered + Waits(io)

IoRest ==
  /\ call \in {"none", "all", "stream"} /\ todo \in Nat
  /\ CompletedUnasked /\ (call = "stream" => ~streamBad)

IoInv == IoCore /\ IoRest

LEMMA IoInvSuffices == IoInv => ReadsKept
<1> SUFFICES ASSUME IoInv PROVE ReadsKept
  OBVIOUS
<1>1. CompletedUnasked
  BY DEF IoInv, IoRest
<1>2. OctetsKept
  BY DEF IoInv, IoCore, Fits, Held, Follows, InOrder, TransportRead, OctetsKept
<1>3. ReadsAnsweredOnce
  BY DEF IoInv, IoCore, Waits, ReadsAnsweredOnce
<1> QED
  BY <1>1, <1>2, <1>3 DEF ReadsKept

LEMMA IoInitHolds == IoInit => IoInv
<1> SUFFICES ASSUME IoInit PROVE IoInv
  OBVIOUS
<1>1. IoCore
  BY IoBoundsAssumption DEF IoInit, IoCore, Fits, Held, Waits, InOrder, TransportRead, NewTransportRead
<1>2. IoRest
  BY DEF IoInit, IoRest, CompletedUnasked
<1> QED
  BY <1>1, <1>2 DEF IoInv

LEMMA MinOfTwo ==
  ASSUME NEW a \in Nat, NEW b \in Nat
  PROVE  Min({a, b}) \in Nat /\ Min({a, b}) <= a /\ Min({a, b}) <= b
<1>1. \E x \in {a, b} : \A y \in {a, b} : x <= y
  OBVIOUS
<1> QED
  BY <1>1 DEF Min

(* A read that is taken fits.                                               *)
LEMMA ReadingFits ==
  ASSUME NEW len \in Nat, NEW n \in Nat, 0 < n, n <= len, len <= MaxLen,
         NEW r, r = Reading(n, len)
  PROVE  /\ r \in TransportRead /\ Fits(r) /\ Held(r) = 0 /\ Waits(r) = 1
         /\ r.cursor = 0
BY DEF Reading, TransportRead, Fits, Held, Waits

(* What the handler is given goes on where the octets given before ended.   *)
LEMMA GivenStep ==
  ASSUME NEW r \in TransportRead, NEW b \in [1..MaxLen -> Nat], r.cursor <= MaxLen,
         got \in Seq(Nat), InOrder(got), Follows(b, r.cursor, Len(got)),
         NEW g, g = Given(r, b)
  PROVE  /\ g \in Seq(Nat) /\ Len(g) = Len(got) + r.cursor /\ InOrder(g)
<1>1. PICK c \in Nat : c = r.cursor
  BY DEF TransportRead
<1>2. PICK h : h = [i \in 1..c |-> b[i]]
  OBVIOUS
<1>3. h \in Seq(Nat) /\ Len(h) = c /\ \A i \in 1..c : h[i] = Len(got) + i
  <2>1. \A i \in 1..c : i \in 1..MaxLen
    BY <1>1, IoBoundsAssumption
  <2>2. \A i \in 1..c : b[i] \in Nat /\ b[i] = Len(got) + i
    BY <1>1, <2>1 DEF Follows
  <2>3. h \in [1..c -> Nat]
    BY <1>2, <2>2, Zenon
  <2>4. h \in Seq(Nat) /\ Len(h) = c
    BY <2>3
  <2>5. \A i \in 1..c : h[i] = b[i]
    BY <1>2, Zenon
  <2> QED
    BY <2>2, <2>4, <2>5, Zenon
<1>4. g = got \o h
  BY <1>1, <1>2 DEF Given
<1>5. g \in Seq(Nat) /\ Len(g) = Len(got) + c
  BY <1>3, <1>4, ConcatProperties
<1>6. ASSUME NEW i \in 1..Len(g) PROVE g[i] = i
  <2>1. CASE i <= Len(got)
    BY <1>3, <1>4, <1>5, <2>1 DEF InOrder
  <2>2. CASE i > Len(got)
    <3>1. i - Len(got) \in 1..c
      BY <1>5, <2>2
    <3>2. g[i] = h[i - Len(got)]
      BY <1>3, <1>4, <1>5, <2>2
    <3> QED
      BY <1>3, <3>1, <3>2
  <2> QED
    BY <1>5, <2>1, <2>2
<1> QED
  BY <1>1, <1>5, <1>6 DEF InOrder

(* complete_read() gives what the buffer holds to the handler and leaves    *)
(* the transport idle, or with the read the handler started.                *)
LEMMA CompleteStep ==
  ASSUME NEW r \in TransportRead, NEW b \in [1..MaxLen -> Nat], r.cursor <= MaxLen,
         NEW ok, complete_read(r, b, ok), buf' = b,
         got \in Seq(Nat), InOrder(got), Follows(b, r.cursor, Len(got)),
         reads \in Nat, answered \in Nat, reads = answered + 1,
         fed' \in Nat, fed' = Len(got) + r.cursor
  PROVE  IoCore'
<1>1. got' = Given(r, b) /\ answered' = answered + 1
  BY DEF complete_read
<1>2. got' \in Seq(Nat) /\ Len(got') = fed' /\ InOrder(got')
  BY <1>1, GivenStep
<1>3. CASE io' = [r EXCEPT !.reading = FALSE] /\ reads' = reads
  <2>1. io' \in TransportRead /\ io'.reading = FALSE
    BY <1>3 DEF TransportRead
  <2>2. Fits(io') /\ Held(io') = 0 /\ Waits(io') = 0
    BY <2>1 DEF Fits, Held, Waits
  <2>3. fed' = Len(got') + Held(io') /\ reads' = answered' + Waits(io')
        /\ reads' \in Nat /\ answered' \in Nat
    BY <1>1, <1>2, <1>3, <2>2
  <2> QED
    BY <1>2, <2>1, <2>2, <2>3, Zenon DEF IoCore
<1>4. CASE /\ reads' = reads + 1
           /\ \E len \in 1..MaxLen : \E n \in 1..len : io' = Reading(n, len)
  <2>1. PICK len \in Nat, n \in Nat : 0 < n /\ n <= len /\ len <= MaxLen /\ io' = Reading(n, len)
    BY <1>4, IoBoundsAssumption
  <2>2. /\ io' \in TransportRead /\ Fits(io') /\ Held(io') = 0 /\ Waits(io') = 1
        /\ io'.cursor = 0
    BY <2>1, ReadingFits
  <2>3. Follows(buf', io'.cursor, Len(got'))
    BY <2>2 DEF Follows
  <2>4. fed' = Len(got') + Held(io') /\ reads' = answered' + Waits(io')
        /\ reads' \in Nat /\ answered' \in Nat
    BY <1>1, <1>2, <1>4, <2>2
  <2> QED
    BY <1>2, <2>2, <2>3, <2>4, Zenon DEF IoCore
<1> QED
  BY <1>3, <1>4 DEF complete_read

(* Copying behind the cursor keeps what is before it, and goes on from it.  *)
LEMMA CopiedFollows ==
  ASSUME IoCore, io.reading, NEW k \in Nat, io.cursor + k <= io.len
  PROVE  /\ Copied(k) \in [1..MaxLen -> Nat]
         /\ Follows(Copied(k), io.cursor + k, Len(got))
<1>1. /\ io.cursor \in Nat /\ io.len \in Nat /\ io.len <= MaxLen /\ MaxLen \in Nat
      /\ fed = Len(got) + io.cursor /\ fed \in Nat /\ Len(got) \in Nat
      /\ buf \in [1..MaxLen -> Nat] /\ \A i \in 1..io.cursor : buf[i] = Len(got) + i
  BY SMTT(30), IoBoundsAssumption DEF IoCore, TransportRead, Fits, Held, Follows
<1>2. Copied(k) \in [1..MaxLen -> Nat]
  BY SMTT(30), <1>1 DEF Copied
<1>3. ASSUME NEW i \in 1..(io.cursor + k) PROVE Copied(k)[i] = Len(got) + i
  <2>1. i \in 1..MaxLen /\ i \in Nat
    BY <1>1
  <2>2. CASE i > io.cursor
    BY <1>1, <2>1, <2>2 DEF Copied
  <2>3. CASE ~(i > io.cursor)
    <3>1. i \in 1..io.cursor
      BY <1>1, <2>1, <2>3
    <3>2. buf[i] = Len(got) + i
      BY <1>1, <3>1
    <3> QED
      BY <2>1, <2>3, <3>2, Zenon DEF Copied
  <2> QED
    BY <2>2, <2>3
<1> QED
  BY <1>2, <1>3 DEF Follows

(* The members once k octets were taken.                                    *)
LEMMA Advanced ==
  ASSUME IoCore, io.reading, NEW k \in Nat, io.cursor + k <= io.len,
         NEW r, r = [io EXCEPT !.cursor = @ + k]
  PROVE  /\ r \in TransportRead /\ r.reading /\ r.needed = io.needed /\ r.len = io.len
         /\ r.cursor = io.cursor + k /\ r.cursor <= MaxLen /\ r.cursor \in Nat
         /\ reads = answered + 1 /\ fed + k = Len(got) + r.cursor
<1>1. PICK c \in Nat : c = io.cursor + k
  BY DEF IoCore, TransportRead
<1>2. r = [io EXCEPT !.cursor = c]
  BY <1>1
<1>3. /\ r \in TransportRead /\ r.reading = io.reading /\ r.needed = io.needed
      /\ r.len = io.len /\ r.cursor = c
  BY <1>2 DEF IoCore, TransportRead
<1> QED
  BY SMTT(30), <1>1, <1>3, IoBoundsAssumption DEF IoCore, TransportRead, Fits, Held, Waits

(* Octets are copied to the buffer while there is room.                     *)
LEMMA TakeStep ==
  ASSUME IoCore, io.reading, NEW k \in Nat, io.cursor + k <= io.len, Take(k)
  PROVE  IoCore'
<1>1. PICK r : r = [io EXCEPT !.cursor = @ + k]
  OBVIOUS
<1>2. /\ r \in TransportRead /\ r.reading /\ r.needed = io.needed /\ r.len = io.len
      /\ r.cursor = io.cursor + k /\ r.cursor <= MaxLen /\ r.cursor \in Nat
      /\ reads = answered + 1 /\ fed + k = Len(got) + r.cursor
  BY <1>1, Advanced
<1>3. /\ fed' = fed + k /\ buf' = Copied(k)
      /\ IF r.cursor >= r.needed THEN complete_read(r, buf', TRUE)
         ELSE io' = r /\ UNCHANGED <<got, reads, answered>>
  BY <1>1 DEF Take
<1>4. buf' \in [1..MaxLen -> Nat] /\ Follows(buf', r.cursor, Len(got))
  BY <1>2, <1>3, CopiedFollows
<1>5. /\ fed' \in Nat /\ fed' = Len(got) + r.cursor
      /\ got \in Seq(Nat) /\ InOrder(got) /\ reads \in Nat /\ answered \in Nat
  BY <1>2, <1>3 DEF IoCore
<1>6. CASE r.cursor >= r.needed
  <2>1. complete_read(r, buf', TRUE)
    BY <1>3, <1>6
  <2>2. PICK b \in [1..MaxLen -> Nat] : b = buf'
    BY <1>4
  <2>3. complete_read(r, b, TRUE) /\ Follows(b, r.cursor, Len(got)) /\ buf' = b
    BY <1>4, <2>1, <2>2
  <2> QED
    BY <1>2, <1>5, <2>3, CompleteStep
<1>7. CASE ~(r.cursor >= r.needed)
  <2>1. io' = r /\ UNCHANGED <<got, reads, answered>>
    BY <1>3, <1>7
  <2>2. Fits(r) /\ Held(r) = r.cursor /\ Waits(r) = 1
    BY <1>2, <1>7 DEF IoCore, Fits, Held, Waits, TransportRead
  <2> QED
    BY <1>2, <1>4, <1>5, <2>1, <2>2 DEF IoCore
<1> QED
  BY <1>6, <1>7

\* The room in the buffer of a read in progress.
LEMMA RoomLeft ==
  ASSUME IoCore, io.reading
  PROVE  io.len - io.cursor \in Nat /\ 0 < io.len - io.cursor
BY DEF IoCore, Fits, TransportRead

(* What is taken never overruns the buffer, nor what there is to take.      *)
LEMMA TakeSome ==
  ASSUME IoCore, io.reading, NEW k \in Nat, Take(Min({k, io.len - io.cursor}))
  PROVE  /\ IoCore'
         /\ k - Min({k, io.len - io.cursor}) \in Nat
<1>1. PICK m \in Nat : m = io.len - io.cursor
  BY RoomLeft
<1>2. PICK j \in Nat : j = Min({k, m}) /\ j <= k /\ j <= m
  BY MinOfTwo
<1>3. io.cursor + j <= io.len
  BY SMTT(30), <1>1, <1>2 DEF IoCore, TransportRead
<1>4. Take(j)
  BY <1>1, <1>2
<1>5. IoCore'
  BY <1>3, <1>4, TakeStep
<1> QED
  BY <1>1, <1>2, <1>5

-----------------------------------------------------------------------------
(* Nothing of the stream's failure changes: what is known of it stays.      *)
LEMMA RestStays ==
  ASSUME IoRest, UNCHANGED streamVars, call' \in {call, "none", "all"}, todo' \in Nat
  PROVE  IoRest'
BY DEF IoRest, CompletedUnasked, streamVars

LEMMA ReadAtLeastStep ==
  ASSUME IoInv, async_read_at_least
  PROVE  IoInv'
<1>1. PICK len \in 0..MaxLen, n \in 0..MaxLen :
        IF n > len \/ io.reading \/ n = 0
        THEN answered' = answered + 1 /\ io' = io
        ELSE answered' = answered /\ io' = Reading(n, len)
  BY DEF async_read_at_least
<1>2. reads' = reads + 1 /\ UNCHANGED <<buf, call, todo, streamVars, fed, got>>
  BY DEF async_read_at_least
<1>3. IoRest'
  BY <1>2, RestStays DEF IoInv, IoRest
<1>4. CASE n > len \/ io.reading \/ n = 0
  BY <1>1, <1>2, <1>3, <1>4 DEF IoInv, IoCore, Waits
<1>5. CASE ~(n > len \/ io.reading \/ n = 0)
  <2>1. len \in Nat /\ n \in Nat /\ 0 < n /\ n <= len /\ len <= MaxLen
    BY <1>5, IoBoundsAssumption
  <2>2. io' \in TransportRead /\ Fits(io') /\ Held(io') = 0 /\ Waits(io') = 1 /\ io'.cursor = 0
    BY <1>1, <1>5, <2>1, ReadingFits
  <2>3. Held(io) = 0 /\ Waits(io) = 0 /\ answered' = answered
    BY <1>1, <1>5 DEF Held, Waits
  <2>4. Follows(buf', io'.cursor, Len(got'))
    BY <2>2 DEF Follows
  <2> QED
    BY <1>2, <1>3, <2>2, <2>3, <2>4 DEF IoInv, IoCore
<1> QED
  BY <1>4, <1>5

LEMMA ReadSomeStep ==
  ASSUME IoInv, read_some
  PROVE  IoInv'
<1>1. PICK k \in 1..(MaxFed - fed) : Take(Min({k, io.len - io.cursor}))
  BY DEF read_some
<1>2. k \in Nat
  BY IoBoundsAssumption DEF IoInv, IoCore
<1>3. IoCore'
  BY <1>1, <1>2, TakeSome DEF IoInv, read_some
<1>4. IoRest'
  BY RestStays DEF IoInv, IoRest, read_some
<1> QED
  BY <1>3, <1>4 DEF IoInv

(* The calls read_all() and read() start with k octets.                     *)
LEMMA CallStep ==
  ASSUME IoInv, read_all \/ read_stream
  PROVE  IoInv'
<1>1. PICK k \in 1..(MaxFed - fed) : todo' = k
  BY DEF read_all, read_stream
<1>2. todo' \in Nat
  BY <1>1, IoBoundsAssumption DEF IoInv, IoCore
<1>3. UNCHANGED <<io, buf, streamVars, fed, got, reads, answered>>
  BY DEF read_all, read_stream
<1>4. IoCore'
  BY <1>3 DEF IoInv, IoCore
<1>5. CASE read_all
  BY <1>2, <1>3, <1>4, <1>5, RestStays DEF IoInv, read_all
<1>6. CASE read_stream
  <2>1. call' = "stream" /\ ~streamBad
    BY <1>6 DEF read_stream
  <2> QED
    BY <1>2, <1>3, <1>4, <2>1 DEF IoInv, IoRest, CompletedUnasked, streamVars
<1> QED
  BY <1>5, <1>6

LEMMA RoundStep ==
  ASSUME IoInv, ReadAllRound \/ ReadStreamRound
  PROVE  IoInv'
<1>1. UNCHANGED streamVars
  BY DEF ReadAllRound, ReadStreamRound
<1>2. CASE ~io.reading \/ todo = 0
  <2>1. /\ call' = "none" /\ todo' = 0 /\ UNCHANGED <<io, buf, fed, got, reads, answered>>
    BY <1>2 DEF ReadAllRound, ReadStreamRound
  <2>2. IoCore'
    BY <2>1 DEF IoInv, IoCore
  <2> QED
    BY <1>1, <2>1, <2>2, RestStays DEF IoInv
<1>3. CASE ~(~io.reading \/ todo = 0)
  <2>1. /\ Take(Min({todo, io.len - io.cursor}))
        /\ todo' = todo - Min({todo, io.len - io.cursor})
        /\ call' \in {call, "none"}
    BY <1>3 DEF ReadAllRound, ReadStreamRound
  <2>2. IoCore' /\ todo' \in Nat
    BY <1>3, <2>1, TakeSome DEF IoInv, IoRest
  <2> QED
    BY <1>1, <2>1, <2>2, RestStays DEF IoInv
<1> QED
  BY <1>2, <1>3

(* The stream fails: the read is answered with what was read.               *)
LEMMA FailStep ==
  ASSUME IoInv, ReadStreamFails
  PROVE  IoInv'
<1>1. PICK k \in 1..Min({todo, io.len - io.cursor}) :
        /\ fed' = fed + k /\ buf' = Copied(k)
        /\ failedAt' = [io EXCEPT !.cursor = @ + k]
        /\ complete_read(failedAt', buf', FALSE)
        /\ unasked' = (failedAt'.cursor >= failedAt'.needed)
  BY DEF ReadStreamFails
<1>2. IoCore /\ io.reading /\ streamBad' = TRUE /\ call' = "none" /\ todo' = 0
  BY DEF IoInv, ReadStreamFails
<1>3. PICK room \in Nat : room = io.len - io.cursor
  BY <1>2, RoomLeft
<1>4. k \in Nat /\ k <= room
  BY <1>3, MinOfTwo DEF IoInv, IoRest
<1>5. io.cursor + k <= io.len
  BY <1>2, <1>3, <1>4 DEF IoCore, TransportRead
<1>6. PICK r : r = failedAt'
  OBVIOUS
<1>7. /\ r \in TransportRead /\ r.cursor = io.cursor + k /\ r.cursor <= MaxLen
      /\ reads = answered + 1 /\ fed + k = Len(got) + r.cursor
  BY <1>1, <1>2, <1>4, <1>5, <1>6, Advanced
<1>8. PICK b \in [1..MaxLen -> Nat] : b = buf' /\ Follows(b, r.cursor, Len(got))
  BY <1>1, <1>2, <1>4, <1>5, <1>7, CopiedFollows
<1>9. complete_read(r, b, FALSE)
  BY <1>1, <1>6, <1>8
<1>10. /\ fed' \in Nat /\ fed' = Len(got) + r.cursor
       /\ got \in Seq(Nat) /\ InOrder(got) /\ reads \in Nat /\ answered \in Nat
  BY <1>1, <1>2, <1>4, <1>7 DEF IoCore
<1>11. IoCore'
  BY <1>7, <1>8, <1>9, <1>10, CompleteStep
<1>12. IoRest'
  BY <1>1, <1>2 DEF IoRest, CompletedUnasked
<1> QED
  BY <1>11, <1>12 DEF IoInv

LEMMA EofStep ==
  ASSUME IoInv, eof
  PROVE  IoInv'
<1>1. /\ io \in TransportRead /\ complete_read(io, buf, FALSE) /\ reads = answered + 1
      /\ got \in Seq(Nat) /\ InOrder(got) /\ reads \in Nat /\ answered \in Nat
      /\ fed' \in Nat /\ fed' = Len(got) + io.cursor /\ buf' = buf
      /\ buf \in [1..MaxLen -> Nat] /\ Follows(buf, io.cursor, Len(got))
  BY DEF IoInv, IoCore, Held, Waits, eof
<1>2. io.cursor <= MaxLen
  BY IoBoundsAssumption DEF IoInv, IoCore, Fits, TransportRead, eof
<1>3. IoCore'
  BY <1>1, <1>2, CompleteStep
<1>4. IoRest'
  BY RestStays DEF IoInv, IoRest, eof
<1> QED
  BY <1>3, <1>4 DEF IoInv

(* The inductive invariant of the iostream transport.                       *)
THEOREM IostreamInvariance == IoSpec => []IoInv
<1>1. IoInv /\ [IoNext]_ioVars => IoInv'
  <2> SUFFICES ASSUME IoInv, [IoNext]_ioVars PROVE IoInv'
    OBVIOUS
  <2>1. CASE async_read_at_least
    BY <2>1, ReadAtLeastStep
  <2>2. CASE read_some
    BY <2>2, ReadSomeStep
  <2>3. CASE read_all \/ read_stream
    BY <2>3, CallStep
  <2>4. CASE ReadAllRound \/ ReadStreamRound
    BY <2>4, RoundStep
  <2>5. CASE ReadStreamFails
    BY <2>5, FailStep
  <2>6. CASE eof
    BY <2>6, EofStep
  <2>7. CASE UNCHANGED ioVars
    BY <2>7 DEF IoInv, IoCore, IoRest, CompletedUnasked, streamVars, ioVars
  <2> QED
    BY <2>1, <2>2, <2>3, <2>4, <2>5, <2>6, <2>7 DEF IoNext
<1> QED
  BY <1>1, IoInitHolds, PTL DEF IoSpec

(* The octets handed to read_some(), read_all() or read() reach the         *)
(* handlers each once and in order, the buffer is never overrun, every read *)
(* started by async_read_at_least() is answered once, and complete_read()   *)
(* finds no read to complete in exactly the case of a stream that goes bad  *)
(* behind enough octets.                                                    *)
THEOREM ReadsAreKept == IoSpec => []ReadsKept
BY IostreamInvariance, IoInvSuffices, PTL

-----------------------------------------------------------------------------
(* The stages of a client's connection (transport/asio/connection.hpp).     *)

OpState == {"none", "pending", "ok", "error", "aborted"}
TimerState == [clock : {"off", "running", "due", "past"},
               wait : {"none", "waiting", "cancelled", "posted", "fired"}]
Told == {"connect", "init", "shutdown"}
Result == {"ok", "error", "timeout"}
Transport ==
  [secure : BOOLEAN, proxy : BOOLEAN, started : BOOLEAN, op : [Stage -> OpState],
   timer : [Timer -> TimerState], told : Seq(Told \X Result), closed : BOOLEAN,
   used : BOOLEAN, exact : BOOLEAN, badSni : BOOLEAN, secured : BOOLEAN, tunnel : BOOLEAN,
   crashed : BOOLEAN]

\* The operations of init().
Handshakes == {"post_init", "post_init2"}
Opening == Proxied \cup Handshakes
Second == {"proxy_write2", "proxy_read2", "post_init2"}
Idle(r, s) == r.op[s] = "none"
NotOpening(r) == \A s \in Opening : Idle(r, s)

InitOk(told) == \E i \in 1..Len(told) : told[i] = <<"init", "ok">>
Complete(r) == (r.proxy => r.tunnel) /\ (r.secure => r.secured)

\* Where the name could be set, init() is run once: at most one of its
\* operations is outstanding, and none once it has succeeded.
Single(r) ==
  /\ \A s, t \in Opening : Idle(r, s) \/ Idle(r, t) \/ s = t
  /\ \A s \in Second : Idle(r, s)
  /\ InitOk(r.told) => NotOpening(r)
  /\ r.tunnel => \A s \in Proxied : Idle(r, s)

\* However operations and timers tie and however often init() is run, a stage
\* is begun only when the one before it is done, and success is the last
\* stage's.
Whole(r) ==
  /\ ~r.used => NotOpening(r) /\ ~r.tunnel
  /\ \A s \in Proxied : ~Idle(r, s) => r.proxy
  /\ \A s \in Handshakes : ~Idle(r, s) => r.secure /\ (r.proxy => r.tunnel)
  /\ ~Idle(r, "shutdown") => r.secure
  /\ InitOk(r.told) => r.used /\ Complete(r)
  /\ r.crashed => r.badSni /\ r.proxy
  /\ r.badSni \/ Single(r)

\* The timers whose handler has not been called nor cancelled.
Live(r) == {t \in Timer : r.timer[t].wait \in {"waiting", "posted"}}

\* An operation that is outstanding has a timer that will report, or has
\* reported, in its place.
Guarded(r) ==
  \A s \in Stage : Idle(r, s) \/ r.timer[TimerOf(s)].wait \in {"waiting", "posted", "fired"}

Names(told) == [i \in 1..Len(told) |-> told[i][1]]

\* Where a connection stands: at most one timer is alive, and which one says
\* what has been reported.
Standing(r) ==
  \/ /\ Live(r) = {} /\ ~r.started /\ ~r.used /\ ~r.closed /\ Names(r.told) = << >>
  \/ /\ Live(r) \in {{"dns"}, {"connect"}} /\ r.started /\ ~r.used /\ ~r.closed
     /\ Names(r.told) = << >>
  \/ /\ Live(r) \in {{"proxy"}, {"post_init"}} /\ r.started /\ r.used /\ ~r.closed
     /\ Names(r.told) = <<"connect">>
  \/ /\ Live(r) = {} /\ r.started /\ r.used /\ ~r.closed /\ Names(r.told) = <<"connect", "init">>
  \/ /\ Live(r) = {"shutdown"} /\ r.started /\ r.used /\ r.closed
     /\ Names(r.told) \in {<<"connect">>, <<"connect", "init">>}
  \/ /\ Live(r) = {} /\ r.started /\ r.used /\ r.closed
     /\ Names(r.told) \in {<<"connect", "shutdown">>, <<"connect", "init", "shutdown">>}

Orderly(r) == Guarded(r) /\ Standing(r)

Sound(r) == r \in Transport /\ Whole(r) /\ (~r.exact /\ ~r.badSni => Orderly(r))

StagesInv == tc \in [Conn -> Transport] /\ \A c \in Conn : Sound(tc[c])

\* What the helpers below leave alone.
Kept(c, d) ==
  /\ d.secure = c.secure /\ d.proxy = c.proxy /\ d.started = c.started /\ d.used = c.used
  /\ d.exact = c.exact /\ d.badSni = c.badSni /\ d.secured = c.secured /\ d.tunnel = c.tunnel
  /\ d.crashed = c.crashed

\* What of it the stages depend on.
Alike(c, d) ==
  /\ d.secure = c.secure /\ d.proxy = c.proxy /\ d.used = c.used /\ d.badSni = c.badSni
  /\ d.secured = c.secured /\ d.tunnel = c.tunnel /\ d.crashed = c.crashed

LEMMA WholeShrinks ==
  ASSUME NEW c, NEW d, Whole(c), Alike(c, d), InitOk(d.told) => InitOk(c.told),
         \A s \in Opening : Idle(c, s) => Idle(d, s),
         Idle(c, "shutdown") => Idle(d, "shutdown") \/ c.secure
  PROVE  Whole(d)
<1>1. NotOpening(c) => NotOpening(d)
  BY DEF NotOpening
<1>2. Proxied \subseteq Opening /\ Handshakes \subseteq Opening /\ Second \subseteq Opening
  BY DEF Opening, Proxied, Handshakes, Second
<1>3. Single(c) => Single(d)
  BY <1>1, <1>2 DEF Single, Alike
<1>4. Complete(d) <=> Complete(c)
  BY DEF Complete, Alike
<1>5. ~Idle(d, "shutdown") => d.secure
  BY DEF Whole, Alike
<1>6. /\ \A s \in Proxied : ~Idle(d, s) => d.proxy
      /\ \A s \in Handshakes : ~Idle(d, s) => d.secure /\ (d.proxy => d.tunnel)
  BY <1>2 DEF Whole, Alike
<1>7. /\ ~d.used => NotOpening(d) /\ ~d.tunnel
      /\ InitOk(d.told) => d.used /\ Complete(d)
      /\ d.crashed => d.badSni /\ d.proxy
      /\ d.badSni \/ Single(d)
  BY <1>1, <1>3, <1>4 DEF Whole, Alike
<1> QED
  BY <1>5, <1>6, <1>7 DEF Whole

LEMMA WholeKept ==
  ASSUME NEW c, NEW d, Whole(c), Kept(c, d), InitOk(d.told) => InitOk(c.told),
         \A s \in Opening : d.op[s] = c.op[s],
         d.op["shutdown"] = c.op["shutdown"] \/ c.secure
  PROVE  Whole(d)
<1>1. Alike(c, d)
  BY DEF Alike, Kept
<1>2. \A s \in Opening : Idle(c, s) => Idle(d, s)
  BY DEF Idle
<1>3. Idle(c, "shutdown") => Idle(d, "shutdown") \/ c.secure
  BY DEF Idle
<1> QED
  BY <1>1, <1>2, <1>3, WholeShrinks

\* The stages and timers of the two rounds.
LEMMA RoundFacts ==
  ASSUME NEW n \in Round
  PROVE  /\ ProxyWrite[n] \in {"proxy_write", "proxy_write2"}
         /\ ProxyRead[n] \in {"proxy_read", "proxy_read2"}
         /\ PostInit[n] \in {"post_init", "post_init2"}
         /\ ProxyWrite[n] \notin Second => ProxyRead[n] = "proxy_read" /\ n = 1
         /\ ProxyRead[n] \notin Second => PostInit[n] = "post_init" /\ n = 1
<1>1. ProxyWrite[1] = "proxy_write" /\ ProxyRead[1] = "proxy_read" /\ PostInit[1] = "post_init"
  BY DEF ProxyWrite, ProxyRead, PostInit
<1>2. ProxyWrite[2] = "proxy_write2" /\ ProxyRead[2] = "proxy_read2" /\ PostInit[2] = "post_init2"
  BY DEF ProxyWrite, ProxyRead, PostInit
<1>3. n = 1 \/ n = 2
  BY DEF Round
<1> QED
  BY <1>1, <1>2, <1>3 DEF Second

LEMMA StageFacts ==
  /\ Opening \subseteq Stage /\ Proxied \subseteq Opening /\ Handshakes \subseteq Opening
  /\ "shutdown" \in Stage /\ "shutdown" \notin Opening
  /\ \A s \in Proxied : TimerOf(s) = "proxy" /\ s \notin Handshakes
  /\ \A s \in Handshakes : TimerOf(s) = s /\ s \in Timer /\ s \notin Proxied
  /\ {"proxy", "overwritten", "shutdown"} \subseteq Timer /\ \A s \in Stage : TimerOf(s) \in Timer
  /\ {"proxy_write", "proxy_write2", "proxy_read", "proxy_read2"} = Proxied
BY DEF Opening, Proxied, Handshakes, Stage, TimerOf, Timer

LEMMA SetTimerFacts ==
  ASSUME NEW c \in Transport, NEW t \in Timer
  PROVE  LET d == set_timer(c, t)
         IN /\ d \in Transport /\ Kept(c, d) /\ d.op = c.op /\ d.told = c.told /\ d.closed = c.closed
            /\ d.timer[t].wait = "waiting" /\ Live(d) = Live(c) \cup {t}
            /\ Guarded(c) => Guarded(d)
<1> DEFINE d == set_timer(c, t)
           k == [clock |-> "running", wait |-> "waiting"]
<1>1. k \in TimerState /\ k.wait = "waiting"
  BY DEF TimerState
<1>2. c.timer \in [Timer -> TimerState]
  BY DEF Transport
<1> HIDE DEF k
<1>3. [c.timer EXCEPT ![t] = k] \in [Timer -> TimerState]
  BY <1>1, <1>2
<1>4. d = [c EXCEPT !.timer = [c.timer EXCEPT ![t] = k]]
  BY DEF set_timer, k
<1>5. d \in Transport
  BY <1>3, <1>4 DEF Transport
<1>6. /\ d.timer = [c.timer EXCEPT ![t] = k] /\ d.op = c.op /\ d.told = c.told
      /\ d.closed = c.closed /\ Kept(c, d)
  BY <1>4 DEF Transport, Kept
<1> HIDE DEF d
<1>7. d.timer[t] = k /\ \A u \in Timer : u # t => d.timer[u] = c.timer[u]
  BY <1>2, <1>6
<1>8. Live(d) = Live(c) \cup {t}
  BY <1>1, <1>7 DEF Live
<1>9. \A s \in Stage : TimerOf(s) \in Timer
  BY DEF Stage, TimerOf, Timer
<1>10. Guarded(c) => Guarded(d)
  BY <1>1, <1>6, <1>7, <1>9 DEF Guarded, Idle
<1> QED
  BY <1>1, <1>5, <1>6, <1>7, <1>8, <1>10 DEF d

LEMMA CancelFacts ==
  ASSUME NEW c \in Transport, NEW t \in Timer
  PROVE  LET d == cancel(c, t)
         IN /\ d \in Transport /\ Kept(c, d) /\ d.op = c.op /\ d.told = c.told /\ d.closed = c.closed
            /\ c.timer[t].wait = "waiting" => Live(d) = Live(c) \ {t}
            /\ Guarded(c) /\ (\A s \in Stage : TimerOf(s) = t => Idle(c, s)) => Guarded(d)
<1> DEFINE d == cancel(c, t)
           k == [c.timer[t] EXCEPT !.wait = "cancelled"]
<1>1. c.timer \in [Timer -> TimerState]
  BY DEF Transport
<1>2. k \in TimerState /\ k.wait = "cancelled"
  BY <1>1 DEF TimerState
<1>3. CASE c.timer[t].wait # "waiting"
  BY <1>3 DEF cancel, Kept
<1>4. CASE c.timer[t].wait = "waiting"
  <2> HIDE DEF k
  <2>1. [c.timer EXCEPT ![t] = k] \in [Timer -> TimerState]
    BY <1>1, <1>2
  <2>2. d = [c EXCEPT !.timer = [c.timer EXCEPT ![t] = k]]
    BY <1>1, <1>4 DEF cancel, k
  <2>3. d \in Transport
    BY <2>1, <2>2 DEF Transport
  <2>4. /\ d.timer = [c.timer EXCEPT ![t] = k] /\ d.op = c.op /\ d.told = c.told
        /\ d.closed = c.closed /\ Kept(c, d)
    BY <2>2 DEF Transport, Kept
  <2> HIDE DEF d
  <2>5. d.timer[t] = k /\ \A u \in Timer : u # t => d.timer[u] = c.timer[u]
    BY <1>1, <2>4
  <2>6. Live(d) = Live(c) \ {t}
    BY <1>2, <2>5 DEF Live
  <2>7. \A s \in Stage : TimerOf(s) \in Timer
    BY DEF Stage, TimerOf, Timer
  <2>8. Guarded(c) /\ (\A s \in Stage : TimerOf(s) = t => Idle(c, s)) => Guarded(d)
    BY <2>4, <2>5, <2>7 DEF Guarded, Idle
  <2> QED
    BY <2>3, <2>4, <2>6, <2>8 DEF d
<1> QED
  BY <1>3, <1>4

LEMMA BeginFacts ==
  ASSUME NEW c \in Transport, NEW s \in Stage
  PROVE  LET d == BeginOp(c, s)
         IN /\ d \in Transport /\ Kept(c, d) /\ d.timer = c.timer /\ d.told = c.told
            /\ d.closed = c.closed /\ d.op[s] = "pending"
            /\ \A u \in Stage : u # s => d.op[u] = c.op[u]
            /\ Live(d) = Live(c)
            /\ Guarded(c) /\ c.timer[TimerOf(s)].wait \in {"waiting", "posted", "fired"} => Guarded(d)
<1> DEFINE d == BeginOp(c, s)
<1>1. c.op \in [Stage -> OpState] /\ "pending" \in OpState
  BY DEF Transport, OpState
<1>2. [c.op EXCEPT ![s] = "pending"] \in [Stage -> OpState]
  BY <1>1
<1>3. d = [c EXCEPT !.op = [c.op EXCEPT ![s] = "pending"]]
  BY DEF BeginOp
<1>4. d \in Transport
  BY <1>2, <1>3 DEF Transport
<1>5. /\ d.op = [c.op EXCEPT ![s] = "pending"] /\ d.timer = c.timer /\ d.told = c.told
      /\ d.closed = c.closed /\ Kept(c, d)
  BY <1>3 DEF Transport, Kept
<1> HIDE DEF d
<1>6. d.op[s] = "pending" /\ \A u \in Stage : u # s => d.op[u] = c.op[u]
  BY <1>1, <1>5
<1>7. Live(d) = Live(c)
  BY <1>5 DEF Live
<1>8. Guarded(c) /\ c.timer[TimerOf(s)].wait \in {"waiting", "posted", "fired"} => Guarded(d)
  BY <1>5, <1>6 DEF Guarded, Idle
<1> QED
  BY <1>4, <1>5, <1>6, <1>7, <1>8 DEF d

LEMMA DoneFacts ==
  ASSUME NEW c \in Transport, NEW s \in Stage
  PROVE  LET d == Done(c, s)
         IN /\ d \in Transport /\ Kept(c, d) /\ d.timer = c.timer /\ d.told = c.told
            /\ d.closed = c.closed /\ d.op[s] = "none"
            /\ \A u \in Stage : u # s => d.op[u] = c.op[u]
            /\ Live(d) = Live(c) /\ (Guarded(c) => Guarded(d)) /\ (Whole(c) => Whole(d))
            /\ Standing(d) <=> Standing(c)
<1> DEFINE d == Done(c, s)
<1>1. c.op \in [Stage -> OpState] /\ "none" \in OpState
  BY DEF Transport, OpState
<1>2. [c.op EXCEPT ![s] = "none"] \in [Stage -> OpState]
  BY <1>1
<1>3. d = [c EXCEPT !.op = [c.op EXCEPT ![s] = "none"]]
  BY DEF Done
<1>4. d \in Transport
  BY <1>2, <1>3 DEF Transport
<1>5. /\ d.op = [c.op EXCEPT ![s] = "none"] /\ d.timer = c.timer /\ d.told = c.told
      /\ d.closed = c.closed /\ Kept(c, d)
  BY <1>3 DEF Transport, Kept
<1> HIDE DEF d
<1>6. d.op[s] = "none" /\ \A u \in Stage : u # s => d.op[u] = c.op[u]
  BY <1>1, <1>5
<1>7. Live(d) = Live(c)
  BY <1>5 DEF Live
<1>8. Guarded(c) => Guarded(d)
  BY <1>5, <1>6 DEF Guarded, Idle
<1>9. \A u \in Stage : Idle(c, u) => Idle(d, u)
  BY <1>6 DEF Idle
<1>10. Whole(c) => Whole(d)
  <2>1. Alike(c, d)
    BY <1>5 DEF Kept, Alike
  <2> QED
    BY <1>5, <1>9, <2>1, StageFacts, WholeShrinks
<1>11. Standing(d) <=> Standing(c)
  BY <1>5, <1>7 DEF Standing, Kept
<1> QED
  BY <1>4, <1>5, <1>6, <1>7, <1>8, <1>10, <1>11 DEF d

LEMMA TellFacts ==
  ASSUME NEW c \in Transport, NEW which \in Told, NEW ec \in Result
  PROVE  LET d == Tell(c, which, ec)
         IN /\ d \in Transport /\ Kept(c, d) /\ d.timer = c.timer /\ d.op = c.op
            /\ d.closed = c.closed /\ Live(d) = Live(c) /\ (Guarded(c) => Guarded(d))
            /\ Names(d.told) = Append(Names(c.told), which)
            /\ InitOk(d.told) => InitOk(c.told) \/ (which = "init" /\ ec = "ok")
<1> DEFINE d == Tell(c, which, ec)
           m == <<which, ec>>
<1>1. c.told \in Seq(Told \X Result) /\ m \in Told \X Result /\ m[1] = which
  BY DEF Transport
<1>2. m = <<"init", "ok">> => which = "init" /\ ec = "ok"
  OBVIOUS
<1>3. d = [c EXCEPT !.told = Append(c.told, m)]
  BY DEF Tell
<1> HIDE DEF m
<1>4. /\ Append(c.told, m) \in Seq(Told \X Result) /\ Len(Append(c.told, m)) = Len(c.told) + 1
      /\ Len(c.told) \in Nat /\ Append(c.told, m)[Len(c.told) + 1] = m
      /\ \A i \in 1..Len(c.told) : Append(c.told, m)[i] = c.told[i]
  BY <1>1
<1>5. d \in Transport
  BY <1>3, <1>4 DEF Transport
<1>6. /\ d.told = Append(c.told, m) /\ d.timer = c.timer /\ d.op = c.op
      /\ d.closed = c.closed /\ Kept(c, d)
  BY <1>3 DEF Transport, Kept
<1> HIDE DEF d
<1>7. Live(d) = Live(c) /\ (Guarded(c) => Guarded(d))
  BY <1>6 DEF Live, Guarded, Idle
<1>8. Names(d.told) = Append(Names(c.told), which)
  <2> DEFINE n == Names(c.told)
             p == Append(n, which)
             q == Names(d.told)
  <2>0. \A i \in 1..Len(c.told) : c.told[i][1] \in Told
    BY <1>1
  <2>1. n \in Seq(Told) /\ Len(n) = Len(c.told) /\ \A i \in 1..Len(c.told) : n[i] = c.told[i][1]
    BY <1>4, <2>0 DEF Names
  <2>2. q \in Seq(Told) /\ Len(q) = Len(c.told) + 1
        /\ \A i \in 1..(Len(c.told) + 1) : q[i] = d.told[i][1]
    <3>1. d.told \in Seq(Told \X Result) /\ Len(d.told) = Len(c.told) + 1
      BY <1>4, <1>6
    <3>2. \A i \in 1..Len(d.told) : d.told[i][1] \in Told
      BY <3>1
    <3> QED
      BY <1>4, <3>1, <3>2 DEF Names
  <2> HIDE DEF n
  <2>3. p \in Seq(Told) /\ Len(p) = Len(c.told) + 1 /\ p[Len(c.told) + 1] = which
        /\ \A i \in 1..Len(c.told) : p[i] = n[i]
    BY <2>1, AppendProperties
  <2>4. d.told[Len(c.told) + 1][1] = which
        /\ \A i \in 1..Len(c.told) : d.told[i][1] = c.told[i][1]
    BY <1>1, <1>4, <1>6
  <2> HIDE DEF p, q
  <2>5. p = q
    <3>1. \A i \in 1..Len(p) : p[i] = q[i]
      BY <1>4, <2>1, <2>2, <2>3, <2>4
    <3> QED
      BY <2>2, <2>3, <3>1, SeqEqual
  <2> QED
    BY <2>5 DEF p, q, n
<1>9. InitOk(d.told) => InitOk(c.told) \/ (which = "init" /\ ec = "ok")
  BY <1>2, <1>4, <1>6 DEF InitOk
<1> QED
  BY <1>5, <1>6, <1>7, <1>8, <1>9 DEF d

\* A handler has just taken its stage off the timers and has not reported yet.
Free(c) == Guarded(c) /\ Live(c) = {} /\ c.started /\ ~c.closed

LEMMA ListGrows ==
  ASSUME NEW a, NEW b, NEW c
  PROVE  /\ Append(<< >>, a) = <<a>> /\ Append(<<a>>, b) = <<a, b>>
         /\ Append(<<a, b>>, c) = <<a, b, c>>
<1> DEFINE S == {a, b, c}
           p == Append(<<a>>, b)
           q == Append(<<a, b>>, c)
<1>1. /\ <<a>> \in Seq(S) /\ <<a, b>> \in Seq(S) /\ <<a, b, c>> \in Seq(S)
      /\ b \in S /\ c \in S
  OBVIOUS
<1>2. p = <<a, b>>
  <2>1. p \in Seq(S) /\ Len(p) = 2 /\ p[1] = a /\ p[2] = b
    BY <1>1, AppendProperties
  <2> HIDE DEF p, S
  <2>2. \A i \in 1..Len(p) : p[i] = <<a, b>>[i]
    BY <2>1
  <2> QED
    BY <1>1, <2>1, <2>2, SeqEqual
<1>3. q = <<a, b, c>>
  <2>1. q \in Seq(S) /\ Len(q) = 3 /\ q[1] = a /\ q[2] = b /\ q[3] = c
    BY <1>1, AppendProperties
  <2> HIDE DEF q, S
  <2>2. \A i \in 1..Len(q) : q[i] = <<a, b, c>>[i]
    BY <2>1
  <2> QED
    BY <1>1, <2>1, <2>2, SeqEqual
<1>4. Append(<< >>, a) = <<a>>
  OBVIOUS
<1> QED
  BY <1>2, <1>3, <1>4

LEMMA NamesGrow ==
  /\ Append(<< >>, "connect") = <<"connect">>
  /\ Append(<<"connect">>, "init") = <<"connect", "init">>
  /\ Append(<<"connect">>, "shutdown") = <<"connect", "shutdown">>
  /\ Append(<<"connect", "init">>, "shutdown") = <<"connect", "init", "shutdown">>
<1> QED
  BY ListGrows

LEMMA TerminateRule ==
  ASSUME NEW c \in Transport, Whole(c)
  PROVE  LET d == Terminate(c)
         IN /\ d \in Transport /\ Kept(c, d) /\ Whole(d)
            /\ \A s \in Opening : d.op[s] = c.op[s]
            /\ InitOk(d.told) => InitOk(c.told)
            /\ Free(c) /\ c.used /\ Names(c.told) \in {<<"connect">>, <<"connect", "init">>} =>
                 Orderly(d)
<1> DEFINE d == Terminate(c)
<1>1. CASE c.closed
  BY <1>1 DEF Terminate, Kept, Free
<1>2. CASE ~c.closed
  <2> DEFINE k == [c EXCEPT !.closed = TRUE]
             j == set_timer(k, "shutdown")
  <2>1. /\ k \in Transport /\ Kept(c, k) /\ k.op = c.op /\ k.timer = c.timer /\ k.told = c.told
        /\ k.closed = TRUE
    BY DEF Transport, Kept
  <2>2. Live(k) = Live(c) /\ (Guarded(c) => Guarded(k))
    BY <2>1 DEF Live, Guarded, Idle
  <2>3. d = IF k.secure THEN BeginOp(j, "shutdown") ELSE Tell(cancel(j, "shutdown"), "shutdown", "ok")
    BY <1>2 DEF Terminate, async_shutdown
  <2>4. "shutdown" \in Timer /\ "shutdown" \in Stage /\ TimerOf("shutdown") = "shutdown"
        /\ Opening \subseteq Stage /\ "shutdown" \notin Opening /\ "shutdown" \in Told /\ "ok" \in Result
    BY StageFacts DEF Timer, Stage, TimerOf, Proxied, Told, Result
  <2> HIDE DEF k
  <2>5. /\ j \in Transport /\ Kept(k, j) /\ j.op = k.op /\ j.told = k.told /\ j.closed = k.closed
        /\ j.timer["shutdown"].wait = "waiting" /\ Live(j) = Live(k) \cup {"shutdown"}
        /\ Guarded(k) => Guarded(j)
    BY <2>1, <2>4, SetTimerFacts
  <2> HIDE DEF j
  <2>6. CASE k.secure
    <3> DEFINE b == BeginOp(j, "shutdown")
    <3>1. /\ b \in Transport /\ Kept(j, b) /\ b.told = j.told /\ b.closed = j.closed
          /\ \A u \in Stage : u # "shutdown" => b.op[u] = j.op[u]
          /\ Live(b) = Live(j) /\ (Guarded(j) => Guarded(b))
      BY <2>4, <2>5, BeginFacts
    <3>2. d = b
      BY <2>3, <2>6
    <3> HIDE DEF b, d
    <3>3. Kept(c, d)
      BY <2>1, <2>5, <3>1, <3>2 DEF Kept
    <3>4. (\A s \in Opening : d.op[s] = c.op[s]) /\ d.told = c.told /\ c.secure
      BY <2>1, <2>4, <2>5, <2>6, <3>1, <3>2 DEF Kept
    <3>5. Whole(d)
      BY <3>3, <3>4, WholeKept
    <3>6. ASSUME Free(c), c.used, Names(c.told) \in {<<"connect">>, <<"connect", "init">>}
         PROVE  Orderly(d)
      <4>1. Guarded(d) /\ Live(d) = {"shutdown"} /\ d.closed /\ d.started /\ d.used
        BY <2>1, <2>2, <2>5, <3>1, <3>2, <3>3, <3>6 DEF Free, Kept
      <4> QED
        BY <3>4, <3>6, <4>1 DEF Orderly, Standing
    <3> QED
      BY <3>1, <3>2, <3>3, <3>4, <3>5, <3>6 DEF d
  <2>7. CASE ~k.secure
    <3> DEFINE a == cancel(j, "shutdown")
               b == Tell(a, "shutdown", "ok")
    <3>1. /\ a \in Transport /\ Kept(j, a) /\ a.op = j.op /\ a.told = j.told /\ a.closed = j.closed
          /\ Live(a) = Live(j) \ {"shutdown"}
          /\ Guarded(j) /\ (\A s \in Stage : TimerOf(s) = "shutdown" => Idle(j, s)) => Guarded(a)
      BY <2>4, <2>5, CancelFacts
    <3> HIDE DEF a
    <3>2. /\ b \in Transport /\ Kept(a, b) /\ b.op = a.op /\ b.closed = a.closed
          /\ Live(b) = Live(a) /\ (Guarded(a) => Guarded(b))
          /\ Names(b.told) = Append(Names(a.told), "shutdown")
          /\ InitOk(b.told) => InitOk(a.told)
      BY <2>4, <3>1, TellFacts
    <3>3. d = b
      BY <2>3, <2>7 DEF a
    <3> HIDE DEF b, d
    <3>4. Kept(c, d)
      BY <2>1, <2>5, <3>1, <3>2, <3>3 DEF Kept
    <3>5. d.op = c.op /\ (InitOk(d.told) => InitOk(c.told)) /\ ~c.secure
      BY <2>1, <2>5, <2>7, <3>1, <3>2, <3>3 DEF Kept
    <3>6. Whole(d)
      BY <3>4, <3>5, WholeKept
    <3>7. \A s \in Stage : TimerOf(s) = "shutdown" => Idle(j, s)
      <4>1. Idle(j, "shutdown")
        BY <2>1, <2>5, <3>5 DEF Whole, Idle
      <4> QED
        BY <4>1 DEF TimerOf, Stage, Proxied
    <3>8. ASSUME Free(c), c.used, Names(c.told) \in {<<"connect">>, <<"connect", "init">>}
         PROVE  Orderly(d)
      <4>1. Guarded(d) /\ Live(d) = {} /\ d.closed /\ d.started /\ d.used
        BY <2>1, <2>2, <2>5, <3>1, <3>2, <3>3, <3>4, <3>7, <3>8 DEF Free, Kept
      <4>2. Names(d.told) \in {<<"connect", "shutdown">>, <<"connect", "init", "shutdown">>}
        BY <2>1, <2>5, <3>1, <3>2, <3>3, <3>8, NamesGrow
      <4> QED
        BY <4>1, <4>2 DEF Orderly, Standing
    <3> QED
      BY <3>2, <3>3, <3>4, <3>5, <3>6, <3>8 DEF d
  <2> QED
    BY <2>6, <2>7
<1> QED
  BY <1>1, <1>2

LEMMA CallInitRule ==
  ASSUME NEW c \in Transport, Whole(c), NEW ec \in Result,
         ec = "ok" => c.used /\ Complete(c) /\ (c.badSni \/ NotOpening(c))
  PROVE  LET d == CallInit(c, ec)
         IN /\ d \in Transport /\ Kept(c, d) /\ Whole(d)
            /\ \A s \in Opening : d.op[s] = c.op[s]
            /\ InitOk(d.told) => InitOk(c.told) \/ ec = "ok"
            /\ Free(c) /\ c.used /\ Names(c.told) = <<"connect">> => Orderly(d)
<1> DEFINE d == CallInit(c, ec)
           k == Tell(c, "init", ec)
<1>1. "init" \in Told
  BY DEF Told
<1>2. /\ k \in Transport /\ Kept(c, k) /\ k.op = c.op /\ k.closed = c.closed
      /\ Live(k) = Live(c) /\ (Guarded(c) => Guarded(k))
      /\ Names(k.told) = Append(Names(c.told), "init")
      /\ InitOk(k.told) => InitOk(c.told) \/ ec = "ok"
  BY <1>1, TellFacts
<1>3. d = IF ec = "ok" THEN k ELSE Terminate(k)
  BY DEF CallInit
<1> HIDE DEF d, k
<1>4. Whole(k)
  <2>1. \A s : Idle(k, s) <=> Idle(c, s)
    BY <1>2 DEF Idle
  <2>2. NotOpening(k) <=> NotOpening(c)
    BY <2>1 DEF NotOpening
  <2>3. InitOk(k.told) => k.used /\ Complete(k)
    BY <1>2 DEF Whole, Kept, Complete
  <2>4. k.badSni \/ Single(k)
    BY <1>2, <2>1, <2>2 DEF Whole, Single, Kept
  <2> QED
    BY <1>2, <2>1, <2>2, <2>3, <2>4 DEF Whole, Kept
<1>5. Names(c.told) = <<"connect">> => Names(k.told) = <<"connect", "init">>
  BY <1>2, NamesGrow
<1>6. Free(c) => Free(k)
  BY <1>2 DEF Free, Kept
<1>7. k.used <=> c.used
  BY <1>2 DEF Kept
<1>8. CASE ec = "ok"
  <2>1. d = k
    BY <1>3, <1>8
  <2>2. Free(c) /\ c.used /\ Names(c.told) = <<"connect">> => Orderly(k)
    BY <1>5, <1>6, <1>7 DEF Orderly, Standing, Free
  <2> QED
    BY <1>2, <1>4, <1>8, <2>1, <2>2 DEF d
<1>9. CASE ec # "ok"
  <2>1. d = Terminate(k)
    BY <1>3, <1>9
  <2>2. /\ d \in Transport /\ Kept(k, d) /\ Whole(d)
        /\ \A s \in Opening : d.op[s] = k.op[s]
        /\ InitOk(d.told) => InitOk(k.told)
        /\ Free(k) /\ k.used /\ Names(k.told) \in {<<"connect">>, <<"connect", "init">>} => Orderly(d)
    BY <1>2, <1>4, <2>1, TerminateRule
  <2>3. Kept(c, d)
    BY <1>2, <2>2 DEF Kept
  <2> QED
    BY <1>2, <1>5, <1>6, <1>7, <1>9, <2>2, <2>3 DEF d
<1> QED
  BY <1>8, <1>9

\* What init() has done so far, unless it is run a second time.
Fresh(c) == NotOpening(c) /\ ~InitOk(c.told)

\* The operation that init() begins, with its timer.
LEMMA OpeningBegins ==
  ASSUME NEW c \in Transport, Whole(c), c.used, NEW s \in Opening,
         c.badSni \/ (Fresh(c) /\ s \notin Second /\ (s \in Proxied => ~c.tunnel)),
         s \in Handshakes => c.secure /\ (c.proxy => c.tunnel), s \in Proxied => c.proxy
  PROVE  LET d == BeginOp(set_timer(c, TimerOf(s)), s)
         IN /\ d \in Transport /\ Kept(c, d) /\ Whole(d)
            /\ Free(c) /\ Names(c.told) = <<"connect">> /\ ~c.badSni => Orderly(d)
<1> DEFINE t == TimerOf(s)
           j == set_timer(c, t)
           d == BeginOp(j, s)
<1>1. /\ t \in Timer /\ s \in Stage /\ Opening \subseteq Stage
      /\ "shutdown" \in Stage /\ "shutdown" \notin Opening
  BY StageFacts
<1>11. s \notin Second => t \in {"proxy", "post_init"}
  BY DEF Opening, Proxied, Handshakes, Second, TimerOf
<1>2. /\ j \in Transport /\ Kept(c, j) /\ j.op = c.op /\ j.told = c.told /\ j.closed = c.closed
      /\ j.timer[t].wait = "waiting" /\ Live(j) = Live(c) \cup {t} /\ (Guarded(c) => Guarded(j))
  BY <1>1, SetTimerFacts
<1> HIDE DEF j
<1>21. j.timer[TimerOf(s)].wait \in {"waiting", "posted", "fired"}
  BY <1>2
<1>3. /\ d \in Transport /\ Kept(j, d) /\ d.told = j.told /\ d.closed = j.closed
      /\ \A u \in Stage : u # s => d.op[u] = j.op[u]
      /\ Live(d) = Live(j) /\ (Guarded(j) => Guarded(d))
  BY SMTT(30), <1>1, <1>2, <1>21, BeginFacts
<1> HIDE DEF d, t
<1>4. Kept(c, d)
  BY <1>2, <1>3 DEF Kept
<1>5. \A u \in Stage : u # s => (Idle(d, u) <=> Idle(c, u))
  BY <1>2, <1>3 DEF Idle
<1>6. d.used /\ d.told = c.told
  BY <1>2, <1>3, <1>4 DEF Kept
<1>7. /\ \A u \in Proxied : ~Idle(d, u) => d.proxy
      /\ \A u \in Handshakes : ~Idle(d, u) => d.secure /\ (d.proxy => d.tunnel)
  BY <1>1, <1>4, <1>5, StageFacts DEF Kept, Whole
<1>8. ~Idle(d, "shutdown") => d.secure
  BY <1>1, <1>4, <1>5 DEF Whole, Kept
<1>81. d.badSni \/ Single(d)
  <2> SUFFICES ASSUME ~d.badSni PROVE Single(d)
    OBVIOUS
  <2>1. Fresh(c) /\ s \notin Second /\ (s \in Proxied => ~d.tunnel)
    BY <1>4 DEF Kept
  <2>2. \A u \in Opening : u # s => Idle(d, u)
    BY <1>1, <1>5, <2>1 DEF Fresh, NotOpening
  <2>3. Second \subseteq Opening /\ Proxied \subseteq Opening
    BY DEF Second, Opening, Proxied, Handshakes
  <2> QED
    BY <1>6, <2>1, <2>2, <2>3 DEF Single, Fresh
<1>9. Whole(d)
  <2>1. InitOk(d.told) => d.used /\ Complete(d)
    BY <1>4, <1>6 DEF Whole, Complete, Kept
  <2>2. d.crashed => d.badSni /\ d.proxy
    BY <1>4 DEF Whole, Kept
  <2> QED
    BY <1>6, <1>7, <1>8, <1>81, <2>1, <2>2 DEF Whole
<1>10. ASSUME Free(c), Names(c.told) = <<"connect">>, ~c.badSni PROVE Orderly(d)
  <2>1. Guarded(d) /\ Live(d) = {t} /\ d.started /\ ~d.closed /\ d.told = c.told
    BY <1>2, <1>3, <1>4, <1>10 DEF Free, Kept
  <2> QED
    BY <1>10, <1>11, <1>6, <2>1 DEF Orderly, Standing
<1> QED
  BY <1>3, <1>4, <1>9, <1>10 DEF d, j, t

LEMMA PostInitRule ==
  ASSUME NEW c \in Transport, Whole(c), c.used, NEW n \in Round,
         c.badSni \/ (Fresh(c) /\ n = 1), c.proxy => c.tunnel
  PROVE  LET d == post_init(c, n)
         IN /\ d \in Transport /\ Kept(c, d) /\ Whole(d)
            /\ Free(c) /\ Names(c.told) = <<"connect">> /\ ~c.badSni => Orderly(d)
<1> DEFINE s == PostInit[n]
<1>1. /\ s \in Handshakes /\ s \in Opening /\ TimerOf(s) = s /\ (n = 1 => s \notin Second)
      /\ s \notin Proxied /\ "post_init" \in Timer /\ "ok" \in Result /\ "post_init" \in Opening
  BY RoundFacts, StageFacts DEF Handshakes, Result, Second, PostInit, Timer, Opening
<1>2. CASE c.secure
  <2>1. post_init(c, n) = BeginOp(set_timer(c, TimerOf(s)), s)
    BY <1>1, <1>2 DEF post_init
  <2> HIDE DEF s
  <2> QED
    BY <1>1, <1>2, <2>1, OpeningBegins
<1>3. CASE ~c.secure
  <2> DEFINE d == post_init(c, n)
             j == set_timer(c, "post_init")
             k == cancel(j, "post_init")
  <2>1. /\ j \in Transport /\ Kept(c, j) /\ j.op = c.op /\ j.told = c.told /\ j.closed = c.closed
        /\ j.timer["post_init"].wait = "waiting" /\ Live(j) = Live(c) \cup {"post_init"}
        /\ Guarded(c) => Guarded(j)
    BY <1>1, SetTimerFacts
  <2> HIDE DEF j
  <2>2. /\ k \in Transport /\ Kept(j, k) /\ k.op = j.op /\ k.told = j.told /\ k.closed = j.closed
        /\ Live(k) = Live(j) \ {"post_init"}
        /\ Guarded(j) /\ (\A u \in Stage : TimerOf(u) = "post_init" => Idle(j, u)) => Guarded(k)
    BY <1>1, <2>1, CancelFacts
  <2>3. d = CallInit(k, "ok")
    BY <1>3 DEF post_init, j
  <2> HIDE DEF k, d
  <2>4. NotOpening(c) => \A u \in Stage : TimerOf(u) = "post_init" => Idle(j, u)
    <3> SUFFICES ASSUME NotOpening(c) PROVE \A u \in Stage : TimerOf(u) = "post_init" => Idle(j, u)
      OBVIOUS
    <3>1. Idle(j, "post_init")
      BY <1>1, <2>1 DEF NotOpening, Idle
    <3> QED
      BY <3>1 DEF TimerOf, Stage, Proxied
  <2>5. Kept(c, k) /\ k.op = c.op /\ k.told = c.told /\ k.closed = c.closed
    BY <2>1, <2>2 DEF Kept
  <2>6. Whole(k)
    BY <2>5, WholeKept
  <2>7. k.used /\ Complete(k) /\ (k.badSni \/ NotOpening(k))
    BY <1>3, <2>5 DEF Kept, Complete, NotOpening, Idle, Fresh
  <2>8. /\ d \in Transport /\ Kept(k, d) /\ Whole(d)
        /\ Free(k) /\ Names(k.told) = <<"connect">> => Orderly(d)
    BY <1>1, <2>2, <2>3, <2>6, <2>7, CallInitRule
  <2>9. Kept(c, d)
    BY <2>5, <2>8 DEF Kept
  <2>10. Free(c) /\ ~c.badSni => Free(k)
    BY <2>1, <2>2, <2>4, <2>5 DEF Free, Kept, Fresh
  <2> QED
    BY <2>5, <2>8, <2>9, <2>10 DEF d
<1> QED
  BY <1>2, <1>3

\* The timer of a proxy that init() has begun is forgotten.
LEMMA Overwrites ==
  ASSUME NEW c \in Transport, Whole(c)
  PROVE  LET d == [c EXCEPT !.timer["overwritten"] = c.timer["proxy"]]
         IN /\ d \in Transport /\ Kept(c, d) /\ Whole(d) /\ d.op = c.op /\ d.told = c.told
            /\ Free(c) => Free(d)
<1> DEFINE f == [c.timer EXCEPT !["overwritten"] = c.timer["proxy"]]
           d == [c EXCEPT !.timer["overwritten"] = c.timer["proxy"]]
<1>1. /\ c.timer \in [Timer -> TimerState] /\ "proxy" \in Timer /\ "overwritten" \in Timer
      /\ \A s \in Stage : TimerOf(s) \in Timer /\ TimerOf(s) # "overwritten"
  BY DEF Transport, Timer, TimerOf, Stage, Proxied
<1>2. /\ f \in [Timer -> TimerState] /\ f["overwritten"] = c.timer["proxy"]
      /\ \A t \in Timer : t # "overwritten" => f[t] = c.timer[t]
  BY <1>1
<1>3. d = [c EXCEPT !.timer = f]
  OBVIOUS
<1> HIDE DEF f
<1>4. d \in Transport
  BY <1>2, <1>3 DEF Transport
<1>5. d.timer = f /\ d.op = c.op /\ d.told = c.told /\ d.closed = c.closed /\ Kept(c, d)
  BY <1>3 DEF Transport, Kept
<1> HIDE DEF d
<1>6. Whole(d)
  BY <1>5, WholeKept
<1>7. ASSUME Free(c) PROVE Free(d)
  <2>1. Guarded(d)
    BY <1>1, <1>2, <1>5, <1>7 DEF Free, Guarded, Idle
  <2>2. Live(d) = {}
    BY <1>1, <1>2, <1>5, <1>7 DEF Free, Live
  <2> QED
    BY <1>5, <1>7, <2>1, <2>2 DEF Free, Kept
<1> QED
  BY <1>4, <1>5, <1>6, <1>7 DEF d

\* A round of init() is begun.
LEMMA PreInitRule ==
  ASSUME NEW c \in Transport, Whole(c), c.used, NEW n \in Round,
         c.badSni \/ (Fresh(c) /\ n = 1 /\ ~c.tunnel)
  PROVE  LET d == handle_pre_init(c, "ok", n)
         IN /\ d \in Transport /\ Kept(c, d) /\ Whole(d)
            /\ Free(c) /\ Names(c.told) = <<"connect">> /\ ~c.badSni => Orderly(d)
<1>1. CASE c.proxy
  <2> DEFINE s == ProxyWrite[n]
             d == handle_pre_init(c, "ok", n)
  <2>1. /\ s \in Proxied /\ s \in Opening /\ TimerOf(s) = "proxy" /\ (n = 1 => s \notin Second)
        /\ s \notin Handshakes
    BY RoundFacts, StageFacts DEF Second, ProxyWrite
  <2>2. PICK k : k = [c EXCEPT !.timer["overwritten"] = c.timer["proxy"]]
    OBVIOUS
  <2>3. d = BeginOp(set_timer(k, TimerOf(s)), s)
    BY <1>1, <2>1, <2>2 DEF handle_pre_init, proxy_write
  <2>4. /\ k \in Transport /\ Kept(c, k) /\ Whole(k) /\ k.op = c.op /\ k.told = c.told
        /\ Free(c) => Free(k)
    BY <2>2, Overwrites
  <2>5. k.used /\ k.proxy /\ k.badSni = c.badSni /\ k.tunnel = c.tunnel
    BY <1>1, <2>4 DEF Kept
  <2>6. k.badSni \/ (Fresh(k) /\ s \notin Second /\ ~k.tunnel)
    BY <2>1, <2>4, <2>5 DEF Fresh, NotOpening, Idle
  <2> HIDE DEF s, d
  <2>7. /\ d \in Transport /\ Kept(k, d) /\ Whole(d)
        /\ Free(k) /\ Names(k.told) = <<"connect">> /\ ~k.badSni => Orderly(d)
    BY <2>1, <2>3, <2>4, <2>5, <2>6, OpeningBegins
  <2>8. Kept(c, d)
    BY <2>4, <2>7 DEF Kept
  <2> QED
    BY <2>4, <2>5, <2>7, <2>8 DEF d
<1>2. CASE ~c.proxy
  <2>1. handle_pre_init(c, "ok", n) = post_init(c, n)
    BY <1>2 DEF handle_pre_init
  <2> QED
    BY <1>2, <2>1, PostInitRule
<1> QED
  BY <1>1, <1>2

LEMMA InitRule ==
  ASSUME NEW c \in Transport, Whole(c), c.used, Fresh(c), ~c.tunnel, NEW sni \in BOOLEAN
  PROVE  LET d == init(c, sni)
         IN /\ d \in Transport /\ Whole(d) /\ d.exact = c.exact /\ (c.badSni => d.badSni)
            /\ Free(c) /\ Names(c.told) = <<"connect">> /\ ~d.badSni => Orderly(d)
<1>0. 1 \in Round /\ 2 \in Round
  BY DEF Round
<1>1. CASE sni
  <2>1. init(c, sni) = handle_pre_init(c, "ok", 1)
    BY <1>1 DEF init
  <2>2. /\ init(c, sni) \in Transport /\ Kept(c, init(c, sni)) /\ Whole(init(c, sni))
        /\ Free(c) /\ Names(c.told) = <<"connect">> /\ ~c.badSni => Orderly(init(c, sni))
    BY <1>0, <2>1, PreInitRule
  <2> QED
    BY <2>2 DEF Kept
<1>2. CASE ~sni
  <2> DEFINE b == [c EXCEPT !.badSni = TRUE]
             e == CallInit(b, "error")
             j == handle_pre_init(b, "error", 1)
             d == init(c, sni)
  <2>1. /\ b \in Transport /\ b.secure = c.secure /\ b.proxy = c.proxy /\ b.used = c.used
        /\ b.exact = c.exact /\ b.badSni = TRUE /\ b.secured = c.secured /\ b.tunnel = c.tunnel
        /\ b.op = c.op /\ b.told = c.told /\ b.crashed = c.crashed
    BY DEF Transport
  <2> HIDE DEF b
  <2>2. Whole(b)
    <3>1. \A s : Idle(b, s) <=> Idle(c, s)
      BY <2>1 DEF Idle
    <3>2. NotOpening(c) <=> NotOpening(b)
      BY <3>1 DEF NotOpening
    <3> QED
      BY <2>1, <3>1, <3>2 DEF Whole, Complete
  <2>4. "error" \in Result /\ "error" # "ok" /\ b.used
    BY <2>1 DEF Result
  <2>5. e \in Transport /\ Kept(b, e) /\ Whole(e)
    BY <2>1, <2>2, <2>4, CallInitRule
  <2>6. j = handle_pre_init(e, "ok", 1)
    BY <2>4 DEF handle_pre_init
  <2> HIDE DEF e
  <2>7. e.used /\ e.badSni = TRUE /\ e.exact = c.exact
    BY <2>1, <2>5 DEF Kept
  <2>8. j \in Transport /\ Kept(e, j) /\ Whole(j)
    BY <1>0, <2>5, <2>6, <2>7, PreInitRule
  <2>9. d = handle_pre_init(j, "ok", 2)
    BY <1>2 DEF init, b
  <2> HIDE DEF j, d
  <2>10. j.used /\ j.badSni = TRUE /\ j.exact = c.exact
    BY <2>7, <2>8 DEF Kept
  <2>11. d \in Transport /\ Kept(j, d) /\ Whole(d)
    BY <1>0, <2>8, <2>9, <2>10, PreInitRule
  <2>12. d.badSni = TRUE /\ d.exact = c.exact
    BY <2>10, <2>11 DEF Kept
  <2> QED
    BY <2>11, <2>12 DEF d
<1> QED
  BY <1>1, <1>2

LEMMA CallConnectRule ==
  ASSUME NEW c \in Transport, Whole(c), NEW ec \in Result, NEW sni \in BOOLEAN
  PROVE  LET d == CallConnect(c, ec, sni)
         IN /\ d \in Transport /\ Whole(d) /\ d.exact = c.exact /\ (c.badSni => d.badSni)
            /\ Free(c) /\ ~c.used /\ Names(c.told) = << >> /\ ~d.badSni => Orderly(d)
<1> DEFINE d == CallConnect(c, ec, sni)
           k == Tell(c, "connect", ec)
           u == [k EXCEPT !.used = TRUE]
<1>1. "connect" \in Told
  BY DEF Told
<1>2. /\ k \in Transport /\ Kept(c, k) /\ k.op = c.op /\ k.closed = c.closed
      /\ Live(k) = Live(c) /\ (Guarded(c) => Guarded(k))
      /\ Names(k.told) = Append(Names(c.told), "connect")
      /\ InitOk(k.told) => InitOk(c.told)
  BY <1>1, TellFacts
<1>3. d = IF ec # "ok" \/ k.used THEN Terminate(u) ELSE init(u, sni)
  BY DEF CallConnect
<1> HIDE DEF k, d
<1>4. /\ u \in Transport /\ u.secure = k.secure /\ u.proxy = k.proxy /\ u.started = k.started
      /\ u.used = TRUE /\ u.exact = k.exact /\ u.badSni = k.badSni /\ u.secured = k.secured
      /\ u.tunnel = k.tunnel /\ u.op = k.op /\ u.told = k.told /\ u.timer = k.timer
      /\ u.closed = k.closed /\ u.crashed = k.crashed
  BY <1>2 DEF Transport
<1> HIDE DEF u
<1>5. Whole(k)
  BY <1>2, WholeKept
<1>6. \A s : Idle(u, s) <=> Idle(c, s)
  BY <1>2, <1>4 DEF Idle
<1>7. NotOpening(u) <=> NotOpening(c)
  BY <1>6 DEF NotOpening
<1>8. Complete(u) <=> Complete(c)
  BY <1>2, <1>4 DEF Complete, Kept
<1>9. Whole(u)
  <2>1. Single(c) /\ ~c.badSni => Single(u)
    BY <1>2, <1>4, <1>6, <1>7 DEF Single, Kept
  <2> QED
    BY <1>2, <1>4, <1>6, <1>7, <1>8, <2>1 DEF Whole, Kept
<1>10. Free(c) => Free(u)
  <2>1. Live(u) = Live(k) /\ (Guarded(k) => Guarded(u))
    BY <1>4 DEF Live, Guarded, Idle
  <2> QED
    BY <1>2, <1>4, <2>1 DEF Free, Kept
<1>11. Names(c.told) = << >> => Names(u.told) = <<"connect">>
  BY <1>2, <1>4, NamesGrow
<1>12. u.exact = c.exact /\ u.badSni = c.badSni /\ k.used = c.used
  BY <1>2, <1>4 DEF Kept
<1>13. CASE ec # "ok" \/ k.used
  <2>1. d = Terminate(u)
    BY <1>3, <1>13
  <2>2. /\ d \in Transport /\ Kept(u, d) /\ Whole(d)
        /\ Free(u) /\ Names(u.told) \in {<<"connect">>, <<"connect", "init">>} => Orderly(d)
    BY <1>4, <1>9, <2>1, TerminateRule
  <2>3. d.exact = c.exact /\ (c.badSni => d.badSni)
    BY <1>12, <2>2 DEF Kept
  <2> QED
    BY <1>10, <1>11, <2>2, <2>3 DEF d
<1>14. CASE ~(ec # "ok" \/ k.used)
  <2>1. d = init(u, sni)
    BY <1>3, <1>14
  <2>2. Fresh(u) /\ ~u.tunnel
    BY <1>2, <1>4, <1>7, <1>12, <1>14 DEF Whole, Fresh, Kept
  <2>3. /\ d \in Transport /\ Whole(d) /\ d.exact = u.exact /\ (u.badSni => d.badSni)
        /\ Free(u) /\ Names(u.told) = <<"connect">> /\ ~d.badSni => Orderly(d)
    BY <1>4, <1>9, <2>1, <2>2, InitRule
  <2> QED
    BY <1>10, <1>11, <1>12, <2>3 DEF d
<1> QED
  BY <1>13, <1>14

\* The first stages, of async_connect().
LEMMA EarlyBegins ==
  ASSUME NEW c \in Transport, Whole(c), NEW s \in {"dns", "connect"}
  PROVE  LET d == BeginOp(set_timer(c, s), s)
         IN /\ d \in Transport /\ Kept(c, d) /\ Whole(d)
            /\ Free(c) /\ ~c.used /\ Names(c.told) = << >> => Orderly(d)
<1> DEFINE j == set_timer(c, s)
           d == BeginOp(j, s)
<1>1. /\ s \in Timer /\ s \in Stage /\ TimerOf(s) = s /\ Opening \subseteq Stage
      /\ s \notin Opening /\ s # "shutdown" /\ "shutdown" \in Stage
  BY DEF Opening, Proxied, Handshakes, TimerOf, Timer, Stage
<1>2. /\ j \in Transport /\ Kept(c, j) /\ j.op = c.op /\ j.told = c.told /\ j.closed = c.closed
      /\ j.timer[s].wait = "waiting" /\ Live(j) = Live(c) \cup {s} /\ (Guarded(c) => Guarded(j))
  BY <1>1, SetTimerFacts
<1> HIDE DEF j
<1>3. /\ d \in Transport /\ Kept(j, d) /\ d.told = j.told /\ d.closed = j.closed
      /\ \A u \in Stage : u # s => d.op[u] = j.op[u]
      /\ Live(d) = Live(j) /\ (Guarded(j) => Guarded(d))
  BY SMTT(30), <1>1, <1>2, BeginFacts
<1> HIDE DEF d
<1>4. Kept(c, d)
  BY <1>2, <1>3 DEF Kept
<1>5. (\A u \in Opening : d.op[u] = c.op[u]) /\ d.op["shutdown"] = c.op["shutdown"] /\ d.told = c.told
  BY <1>1, <1>2, <1>3
<1>6. Whole(d)
  BY <1>4, <1>5, WholeKept
<1>7. ASSUME Free(c), ~c.used, Names(c.told) = << >> PROVE Orderly(d)
  <2>1. Guarded(d) /\ Live(d) = {s} /\ d.started /\ ~d.closed /\ ~d.used
    BY <1>2, <1>3, <1>4, <1>7 DEF Free, Kept
  <2> QED
    BY <1>5, <1>7, <2>1 DEF Orderly, Standing
<1> QED
  BY <1>3, <1>4, <1>6, <1>7 DEF d, j

(* Two records that differ in what is outstanding only by a label.          *)
LEMMA OpsRelabelled ==
  ASSUME NEW c \in Transport, NEW d \in Transport, Kept(c, d), d.timer = c.timer,
         d.told = c.told, d.closed = c.closed, \A s \in Stage : Idle(d, s) <=> Idle(c, s)
  PROVE  /\ Live(d) = Live(c) /\ (Guarded(c) => Guarded(d)) /\ (Whole(c) => Whole(d))
         /\ (Free(c) => Free(d)) /\ (Sound(c) => Sound(d))
<1>1. Live(d) = Live(c)
  BY DEF Live
<1>2. Guarded(c) => Guarded(d)
  BY DEF Guarded
<1>3. Opening \subseteq Stage /\ "shutdown" \in Stage
  BY StageFacts
<1>4. Alike(c, d)
  BY DEF Kept, Alike
<1>5. Whole(c) => Whole(d)
  BY <1>3, <1>4, WholeShrinks
<1>6. Standing(c) => Standing(d)
  BY <1>1 DEF Standing, Kept
<1>7. Free(c) => Free(d)
  BY <1>1, <1>2 DEF Free, Kept
<1> QED
  BY <1>1, <1>2, <1>5, <1>6, <1>7 DEF Sound, Orderly, Kept

LEMMA TimersRelabelled ==
  ASSUME NEW c \in Transport, NEW d \in Transport, Kept(c, d), d.op = c.op,
         d.told = c.told, d.closed = c.closed, Live(d) = Live(c), Guarded(c) => Guarded(d), Sound(c)
  PROVE  Sound(d)
<1>1. Whole(d)
  BY WholeKept DEF Sound
<1>2. Standing(c) => Standing(d)
  BY DEF Standing, Kept
<1> QED
  BY <1>1, <1>2 DEF Sound, Orderly, Kept

LEMMA ReleasedSound ==
  ASSUME NEW x, Sound(x)
  PROVE  Sound(Released(x))
<1> DEFINE f == [t \in Timer |->
                   IF \/ x.timer[t].wait \in {"waiting", "posted"}
                      \/ \E s \in Stage : x.op[s] # "none" /\ TimerOf(s) = t
                   THEN x.timer[t] ELSE NoTimer]
           d == Released(x)
<1>1. x \in Transport /\ x.timer \in [Timer -> TimerState]
  BY DEF Sound, Transport
<1>2. NoTimer \in TimerState /\ NoTimer.wait = "none"
  BY DEF NoTimer, TimerState
<1>3. f \in [Timer -> TimerState]
  BY <1>1, <1>2
<1>4. d = [x EXCEPT !.timer = f]
  BY DEF Released
<1>5. \A t \in Timer : x.timer[t].wait \in {"waiting", "posted"} => f[t] = x.timer[t]
  OBVIOUS
<1>6. \A s \in Stage : x.op[s] # "none" /\ TimerOf(s) \in Timer => f[TimerOf(s)] = x.timer[TimerOf(s)]
  OBVIOUS
<1>7. \A t \in Timer : f[t] = x.timer[t] \/ f[t] = NoTimer
  OBVIOUS
<1>8. \A s \in Stage : TimerOf(s) \in Timer
  BY DEF Stage, TimerOf, Timer
<1> HIDE DEF f
<1>9. d \in Transport
  BY <1>1, <1>3, <1>4 DEF Transport
<1>10. d.timer = f /\ d.op = x.op /\ d.told = x.told /\ d.closed = x.closed /\ Kept(x, d)
  BY <1>1, <1>4 DEF Transport, Kept
<1> HIDE DEF d
<1>11. Live(d) = Live(x)
  BY <1>2, <1>5, <1>7, <1>10 DEF Live
<1>12. Guarded(x) => Guarded(d)
  BY <1>6, <1>8, <1>10 DEF Guarded, Idle
<1>13. Sound(d)
  BY <1>1, <1>9, <1>10, <1>11, <1>12, TimersRelabelled
<1> QED
  BY <1>13 DEF d

LEMMA TurnRule ==
  ASSUME StagesInv, NEW c \in Conn, NEW x, Turns(c, x), Sound(x)
  PROVE  StagesInv'
<1> DEFINE y == Released(x)
<1>1. Sound(y) /\ y \in Transport
  BY ReleasedSound DEF Sound
<1>2. tc' = [tc EXCEPT ![c] = y]
  BY DEF Turns
<1> HIDE DEF y
<1>3. tc' \in [Conn -> Transport] /\ tc'[c] = y /\ \A d \in Conn : d # c => tc'[d] = tc[d]
  BY <1>1, <1>2 DEF StagesInv
<1> QED
  BY <1>1, <1>3 DEF StagesInv

LEMMA DoneSound ==
  ASSUME NEW r, Sound(r), NEW s \in Stage
  PROVE  Sound(Done(r, s))
<1>1. r \in Transport
  BY DEF Sound
<1> DEFINE d == Done(r, s)
<1>2. d \in Transport /\ Kept(r, d) /\ (Guarded(r) => Guarded(d)) /\ (Whole(r) => Whole(d))
      /\ (Standing(d) <=> Standing(r))
  BY <1>1, DoneFacts
<1> HIDE DEF d
<1>3. Sound(d)
  BY <1>2 DEF Sound, Orderly, Kept
<1> QED
  BY <1>3 DEF d

\* Where a connection stands when timer t is the one that is alive.
LEMMA StandsAt ==
  ASSUME NEW r \in Transport, Standing(r), NEW t \in Timer, t \in Live(r)
  PROVE  /\ Live(r) = {t} /\ r.started
         /\ t \in {"dns", "connect"} => ~r.used /\ ~r.closed /\ Names(r.told) = << >>
         /\ t \in {"proxy", "post_init"} => r.used /\ ~r.closed /\ Names(r.told) = <<"connect">>
         /\ t = "shutdown" => /\ r.used /\ r.closed
                              /\ Names(r.told) \in {<<"connect">>, <<"connect", "init">>}
BY DEF Standing, Timer

\* The handler of an operation takes it off, in time.
LEMMA TakenInTime ==
  ASSUME NEW r, Sound(r), NEW s \in Stage, ~Idle(r, s)
  PROVE  LET t == TimerOf(s)
             d == InTime(r, s, t)
         IN /\ d \in Transport /\ Whole(d) /\ d.secure = r.secure /\ d.proxy = r.proxy
            /\ d.started = r.started /\ d.used = r.used /\ d.badSni = r.badSni
            /\ d.tunnel = r.tunnel /\ d.secured = r.secured /\ d.crashed = r.crashed
            /\ d.told = r.told /\ d.closed = r.closed /\ d.op[s] = "none"
            /\ \A u \in Stage : u # s => d.op[u] = r.op[u]
            /\ ~d.exact /\ ~d.badSni => /\ Standing(r) /\ t \in Live(r) /\ Guarded(d) /\ Live(d) = {}
<1> DEFINE t == TimerOf(s)
           k == Done(r, s)
           x == r.exact \/ r.timer[t].wait \in {"posted", "fired"}
           m == [k EXCEPT !.exact = x]
           d == InTime(r, s, t)
<1>1. r \in Transport /\ Whole(r) /\ t \in Timer
  BY StageFacts DEF Sound
<1>2. /\ k \in Transport /\ Kept(r, k) /\ k.timer = r.timer /\ k.told = r.told
      /\ k.closed = r.closed /\ k.op[s] = "none"
      /\ \A u \in Stage : u # s => k.op[u] = r.op[u]
      /\ Live(k) = Live(r) /\ (Guarded(r) => Guarded(k)) /\ Whole(k)
  BY <1>1, DoneFacts
<1>3. d = cancel(m, t)
  BY <1>2 DEF InTime, Kept
<1>4. x \in BOOLEAN
  BY <1>1 DEF Transport
<1>5. ~x => ~r.exact /\ r.timer[t].wait \notin {"posted", "fired"}
  OBVIOUS
<1> HIDE DEF k, x, t
<1>6. /\ m \in Transport /\ m.secure = k.secure /\ m.proxy = k.proxy /\ m.started = k.started
      /\ m.used = k.used /\ m.badSni = k.badSni /\ m.secured = k.secured /\ m.tunnel = k.tunnel
      /\ m.crashed = k.crashed /\ m.exact = x /\ m.op = k.op /\ m.told = k.told /\ m.closed = k.closed /\ m.timer = k.timer
  BY <1>2, <1>4 DEF Transport
<1> HIDE DEF m
<1>7. /\ d \in Transport /\ Kept(m, d) /\ d.op = m.op /\ d.told = m.told /\ d.closed = m.closed
      /\ m.timer[t].wait = "waiting" => Live(d) = Live(m) \ {t}
      /\ Guarded(m) /\ (\A u \in Stage : TimerOf(u) = t => Idle(m, u)) => Guarded(d)
  BY <1>1, <1>3, <1>6, CancelFacts
<1> HIDE DEF d
<1>8. Whole(d)
  <2>1. \A u : Idle(k, u) => Idle(d, u)
    BY <1>6, <1>7 DEF Idle
  <2>2. Alike(k, d) /\ d.told = k.told
    BY <1>6, <1>7 DEF Alike, Kept
  <2> QED
    BY <1>2, <2>1, <2>2, WholeShrinks
<1>9. r.badSni \/ \A u \in Stage : TimerOf(u) = t => Idle(m, u)
  <2>1. SUFFICES ASSUME NEW u \in Stage, TimerOf(u) = t, u # s, ~r.badSni PROVE Idle(r, u)
    BY <1>2, <1>6 DEF Idle
  <2>2. u \in Opening /\ s \in Opening
    BY <2>1 DEF Stage, TimerOf, Opening, Proxied, t
  <2> QED
    BY <1>1, <2>1, <2>2 DEF Whole, Single
<1>10. ASSUME ~d.exact, ~d.badSni
       PROVE  Standing(r) /\ t \in Live(r) /\ Guarded(d) /\ Live(d) = {}
  <2>1. ~x /\ ~r.badSni
    BY <1>2, <1>6, <1>7, <1>10 DEF Kept
  <2>2. Guarded(r) /\ Standing(r)
    BY <1>5, <2>1 DEF Sound, Orderly
  <2>3. r.timer[t].wait = "waiting"
    BY <1>5, <2>1, <2>2 DEF Guarded, t
  <2>4. t \in Live(r)
    BY <1>1, <2>3 DEF Live
  <2>5. Live(m) = Live(r) /\ Guarded(m)
    BY <1>2, <1>6, <2>2 DEF Live, Guarded, Idle
  <2>6. Live(r) = {t}
    BY <1>1, <2>2, <2>4, StandsAt
  <2> QED
    BY <1>2, <1>6, <1>7, <1>9, <2>1, <2>2, <2>3, <2>4, <2>5, <2>6
<1>11. /\ d.secure = r.secure /\ d.proxy = r.proxy /\ d.started = r.started /\ d.used = r.used
       /\ d.badSni = r.badSni /\ d.tunnel = r.tunnel /\ d.secured = r.secured
       /\ d.crashed = r.crashed /\ d.told = r.told /\ d.closed = r.closed /\ d.op[s] = "none"
       /\ \A u \in Stage : u # s => d.op[u] = r.op[u]
  BY <1>2, <1>6, <1>7 DEF Kept
<1> QED
  BY <1>7, <1>8, <1>10, <1>11 DEF d, t

LEMMA Started ==
  ASSUME StagesInv, NEW c \in Conn, async_connect(c)
  PROVE  StagesInv'
<1> DEFINE r == tc[c]
           d == [r EXCEPT !.started = TRUE]
<1>1. r \in Transport /\ Sound(r) /\ Whole(r) /\ ~r.started
  BY DEF StagesInv, Sound, async_connect
<1>2. /\ d \in Transport /\ d.secure = r.secure /\ d.proxy = r.proxy /\ d.started = TRUE
      /\ d.used = r.used /\ d.exact = r.exact /\ d.badSni = r.badSni /\ d.secured = r.secured
      /\ d.tunnel = r.tunnel /\ d.op = r.op /\ d.told = r.told /\ d.timer = r.timer
      /\ d.closed = r.closed /\ d.crashed = r.crashed
  BY <1>1 DEF Transport
<1>3. Turns(c, BeginOp(set_timer(d, "dns"), "dns")) \/ Turns(c, CallConnect(d, "error", TRUE))
  BY DEF async_connect
<1> HIDE DEF r, d
<1>4. Whole(d)
  <2>1. \A s : Idle(r, s) => Idle(d, s)
    BY <1>2 DEF Idle
  <2>2. Alike(r, d)
    BY <1>2 DEF Alike
  <2> QED
    BY <1>1, <1>2, <2>1, <2>2, WholeShrinks
<1>5. ~d.exact /\ ~d.badSni => Free(d) /\ ~d.used /\ Names(d.told) = << >>
  <2>1. Live(d) = Live(r) /\ (Guarded(r) => Guarded(d))
    BY <1>2 DEF Live, Guarded, Idle
  <2>2. Standing(r) => Live(r) = {} /\ ~r.used /\ ~r.closed /\ Names(r.told) = << >>
    BY <1>1 DEF Standing
  <2> QED
    BY <1>1, <1>2, <2>1, <2>2 DEF Sound, Orderly, Free
<1>6. Sound(BeginOp(set_timer(d, "dns"), "dns"))
  <2> DEFINE k == BeginOp(set_timer(d, "dns"), "dns")
  <2>1. /\ k \in Transport /\ Kept(d, k) /\ Whole(k)
        /\ Free(d) /\ ~d.used /\ Names(d.told) = << >> => Orderly(k)
    BY <1>2, <1>4, EarlyBegins
  <2> HIDE DEF k
  <2>2. Sound(k)
    BY <1>5, <2>1 DEF Sound, Kept
  <2> QED
    BY <2>2 DEF k
<1>7. Sound(CallConnect(d, "error", TRUE))
  <2> DEFINE k == CallConnect(d, "error", TRUE)
  <2>1. "error" \in Result /\ TRUE \in BOOLEAN
    BY DEF Result
  <2>2. /\ k \in Transport /\ Whole(k) /\ k.exact = d.exact /\ (d.badSni => k.badSni)
        /\ Free(d) /\ ~d.used /\ Names(d.told) = << >> /\ ~k.badSni => Orderly(k)
    BY <1>2, <1>4, <2>1, CallConnectRule
  <2> HIDE DEF k
  <2>3. Sound(k)
    BY <1>5, <2>2 DEF Sound
  <2> QED
    BY <2>3 DEF k
<1> QED
  BY <1>3, <1>6, <1>7, TurnRule DEF r

\* What the handlers of the first two operations do with their report.
LEMMA ConnectReported ==
  ASSUME NEW r, Sound(r), NEW s \in {"dns", "connect"}, ~Idle(r, s),
         NEW ec \in Result, NEW sni \in BOOLEAN
  PROVE  /\ Sound(CallConnect(InTime(r, s, s), ec, sni))
         /\ s = "dns" => Sound(BeginOp(set_timer(InTime(r, s, s), "connect"), "connect"))
<1> DEFINE d == InTime(r, s, s)
<1>1. s \in Stage /\ TimerOf(s) = s /\ s \in Timer /\ r \in Transport
  BY DEF Stage, TimerOf, Timer, Sound, Proxied
<1>2. /\ d \in Transport /\ Whole(d) /\ d.started = r.started /\ d.used = r.used
      /\ d.told = r.told /\ d.closed = r.closed
      /\ ~d.exact /\ ~d.badSni => Standing(r) /\ s \in Live(r) /\ Guarded(d) /\ Live(d) = {}
  BY <1>1, TakenInTime
<1> HIDE DEF d
<1>3. ~d.exact /\ ~d.badSni => Free(d) /\ ~d.used /\ Names(d.told) = << >>
  <2> SUFFICES ASSUME ~d.exact, ~d.badSni PROVE Free(d) /\ ~d.used /\ Names(d.told) = << >>
    OBVIOUS
  <2>1. r.started /\ ~r.used /\ ~r.closed /\ Names(r.told) = << >>
    BY <1>1, <1>2, StandsAt
  <2> QED
    BY <1>2, <2>1 DEF Free
<1>4. Sound(CallConnect(d, ec, sni))
  <2> DEFINE k == CallConnect(d, ec, sni)
  <2>2. /\ k \in Transport /\ Whole(k) /\ k.exact = d.exact /\ (d.badSni => k.badSni)
        /\ Free(d) /\ ~d.used /\ Names(d.told) = << >> /\ ~k.badSni => Orderly(k)
    BY <1>2, CallConnectRule
  <2> HIDE DEF k
  <2>3. Sound(k)
    BY <1>3, <2>2 DEF Sound
  <2> QED
    BY <2>3 DEF k
<1>5. Sound(BeginOp(set_timer(d, "connect"), "connect"))
  <2> DEFINE k == BeginOp(set_timer(d, "connect"), "connect")
  <2>1. /\ k \in Transport /\ Kept(d, k) /\ Whole(k)
        /\ Free(d) /\ ~d.used /\ Names(d.told) = << >> => Orderly(k)
    BY <1>2, EarlyBegins
  <2> HIDE DEF k
  <2>2. Sound(k)
    BY <1>3, <2>1 DEF Sound, Kept
  <2> QED
    BY <2>2 DEF k
<1> QED
  BY <1>4, <1>5 DEF d

LEMMA Resolved ==
  ASSUME StagesInv, NEW c \in Conn, handle_resolve(c)
  PROVE  StagesInv'
<1> DEFINE r == tc[c]
<1>1. Sound(r) /\ "dns" \in Stage /\ "error" \in Result /\ ~Idle(r, "dns") /\ TRUE \in BOOLEAN
  BY DEF StagesInv, handle_resolve, Ready, Idle, Stage, Result
<1>2. \/ Turns(c, Done(r, "dns")) \/ Turns(c, CallConnect(InTime(r, "dns", "dns"), "error", TRUE))
      \/ Turns(c, BeginOp(set_timer(InTime(r, "dns", "dns"), "connect"), "connect"))
  BY DEF handle_resolve
<1>3. /\ Sound(CallConnect(InTime(r, "dns", "dns"), "error", TRUE))
      /\ Sound(BeginOp(set_timer(InTime(r, "dns", "dns"), "connect"), "connect"))
  BY <1>1, ConnectReported
<1>4. Sound(Done(r, "dns"))
  BY <1>1, DoneSound
<1> QED
  BY <1>2, <1>3, <1>4, TurnRule

LEMMA PostInitSet == ToSet(PostInit) = Handshakes
<1>1. PostInit[1] = "post_init" /\ PostInit[2] = "post_init2" /\ DOMAIN PostInit = {1, 2}
  BY DEF PostInit
<1> QED
  BY <1>1 DEF ToSet, Handshakes

LEMMA Connected ==
  ASSUME StagesInv, NEW c \in Conn, handle_connect(c)
  PROVE  StagesInv'
<1> DEFINE r == tc[c]
<1>1. Sound(r) /\ "connect" \in Stage /\ ~Idle(r, "connect")
  BY DEF StagesInv, handle_connect, Ready, Idle, Stage
<1>2. PICK sni \in Sni(c) :
        Turns(c, IF Abandoned(r, "connect", "connect") THEN Done(r, "connect")
                 ELSE CallConnect(InTime(r, "connect", "connect"), r.op["connect"], sni))
  BY DEF handle_connect
<1>3. sni \in BOOLEAN
  BY DEF Sni
<1>4. CASE Abandoned(r, "connect", "connect")
  BY <1>1, <1>2, <1>4, DoneSound, TurnRule
<1>5. CASE ~Abandoned(r, "connect", "connect")
  <2>1. r.op["connect"] \in Result
    <3>1. "connect" \notin ToSet(PostInit)
      BY PostInitSet DEF Handshakes
    <3> QED
      BY <1>5, <3>1 DEF handle_connect, Ready, Abandoned, Result
  <2>2. Sound(CallConnect(InTime(r, "connect", "connect"), r.op["connect"], sni))
    BY <1>1, <1>3, <2>1, ConnectReported
  <2> QED
    BY <1>2, <1>5, <2>2, TurnRule
<1> QED
  BY <1>4, <1>5

\* An operation of init() fails in time.
LEMMA InitFailed ==
  ASSUME NEW r, Sound(r), NEW s \in Opening, ~Idle(r, s)
  PROVE  Sound(CallInit(InTime(r, s, TimerOf(s)), "error"))
<1> DEFINE t == TimerOf(s)
           d == InTime(r, s, t)
           k == CallInit(d, "error")
<1>1. s \in Stage /\ t \in Timer /\ r \in Transport /\ "error" \in Result /\ "error" # "ok"
  BY StageFacts DEF Sound, Result
<1>11. ~r.badSni => t \in {"proxy", "post_init"}
  <2>1. ~r.badSni => s \notin Second
    BY DEF Sound, Whole, Single
  <2> QED
    BY <2>1 DEF Opening, Proxied, Handshakes, Second, TimerOf
<1>2. /\ d \in Transport /\ Whole(d) /\ d.started = r.started /\ d.used = r.used
      /\ d.told = r.told /\ d.closed = r.closed /\ d.badSni = r.badSni
      /\ ~d.exact /\ ~d.badSni => Standing(r) /\ t \in Live(r) /\ Guarded(d) /\ Live(d) = {}
  BY <1>1, TakenInTime
<1> HIDE DEF t, d
<1>3. ~d.exact /\ ~d.badSni => Free(d) /\ d.used /\ Names(d.told) = <<"connect">>
  <2> SUFFICES ASSUME ~d.exact, ~d.badSni PROVE Free(d) /\ d.used /\ Names(d.told) = <<"connect">>
    OBVIOUS
  <2>1. r.started /\ r.used /\ ~r.closed /\ Names(r.told) = <<"connect">>
    BY <1>1, <1>11, <1>2, StandsAt
  <2> QED
    BY <1>2, <2>1 DEF Free
<1>4. /\ k \in Transport /\ Kept(d, k) /\ Whole(k)
      /\ Free(d) /\ d.used /\ Names(d.told) = <<"connect">> => Orderly(k)
  BY <1>1, <1>2, CallInitRule
<1> HIDE DEF k
<1>5. Sound(k)
  BY <1>3, <1>4 DEF Sound, Kept
<1> QED
  BY <1>5 DEF k, d, t

\* A handler finds m_proxy_data gone: init() is run twice.
LEMMA CrashSound ==
  ASSUME NEW r, Sound(r), NEW s \in Proxied, ~Idle(r, s), NoProxyData(r, s)
  PROVE  Sound(Crash(r, s))
<1> DEFINE k == Done(r, s)
           d == Crash(r, s)
<1>1. r \in Transport /\ Whole(r) /\ s \in Stage
  BY StageFacts DEF Sound
<1>2. r.badSni /\ r.proxy
  BY <1>1 DEF Whole, Single, NoProxyData
<1>3. k \in Transport /\ Kept(r, k) /\ Whole(k)
  BY <1>1, DoneFacts
<1>4. d = [k EXCEPT !.crashed = TRUE]
  BY DEF Crash
<1> HIDE DEF k
<1>5. /\ d \in Transport /\ d.secure = k.secure /\ d.proxy = k.proxy /\ d.used = k.used
      /\ d.badSni = k.badSni /\ d.secured = k.secured /\ d.tunnel = k.tunnel
      /\ d.op = k.op /\ d.told = k.told
  BY <1>3, <1>4 DEF Transport
<1> HIDE DEF d
<1>6. d.badSni /\ d.proxy
  BY <1>2, <1>3, <1>5 DEF Kept
<1>7. \A u : Idle(d, u) <=> Idle(k, u)
  BY <1>5 DEF Idle
<1>8. NotOpening(d) <=> NotOpening(k)
  BY <1>7 DEF NotOpening
<1>9. Whole(d)
  BY <1>3, <1>5, <1>6, <1>7, <1>8 DEF Whole, Complete
<1>10. Sound(d)
  BY <1>5, <1>6, <1>9 DEF Sound
<1> QED
  BY <1>10 DEF d

LEMMA ProxyWritten ==
  ASSUME StagesInv, NEW c \in Conn, NEW n \in Round, handle_proxy_write(c, n)
  PROVE  StagesInv'
<1> DEFINE r == tc[c]
           s == ProxyWrite[n]
           q == ProxyRead[n]
           k == Done(r, s)
           d == BeginOp(k, q)
<1>1. /\ Sound(r) /\ r \in Transport /\ Whole(r) /\ ~Idle(r, s)
      /\ s \in Proxied /\ q \in Proxied /\ s # q
      /\ (s \notin Second => q \notin Second)
  BY RoundFacts DEF StagesInv, Sound, handle_proxy_write, Ready, Idle, Proxied, Second
<1>11. /\ s \in Stage /\ q \in Stage /\ s \in Opening /\ q \in Opening
       /\ "shutdown" \in Stage /\ "shutdown" \notin Opening /\ Opening \subseteq Stage
       /\ TimerOf(s) = "proxy" /\ TimerOf(q) = "proxy" /\ q \notin Handshakes
       /\ Proxied \subseteq Opening /\ Handshakes \subseteq Opening
  BY <1>1, StageFacts
<1>2. \/ NoProxyData(r, s) /\ Turns(c, Crash(r, s))
      \/ Turns(c, k) \/ Turns(c, CallInit(InTime(r, s, TimerOf(s)), "error"))
      \/ ~NoProxyData(r, s) /\ r.op[s] # "aborted" /\ Turns(c, d)
  <2>1. s \notin ToSet(PostInit)
    BY <1>1, PostInitSet, StageFacts
  <2>2. TimerOf(s) = "proxy"
    BY <1>11
  <2> QED
    BY <2>1, <2>2 DEF handle_proxy_write, Abandoned
<1> HIDE DEF s, q
<1>3. Sound(k) /\ Sound(CallInit(InTime(r, s, TimerOf(s)), "error"))
      /\ (NoProxyData(r, s) => Sound(Crash(r, s)))
  BY <1>1, <1>11, DoneSound, InitFailed, CrashSound
<1>4. /\ k \in Transport /\ Kept(r, k) /\ k.timer = r.timer /\ k.told = r.told
      /\ k.closed = r.closed /\ k.op[s] = "none"
      /\ \A u \in Stage : u # s => k.op[u] = r.op[u]
  BY <1>1, <1>11, DoneFacts
<1> HIDE DEF k
<1>5. /\ d \in Transport /\ Kept(k, d) /\ d.timer = k.timer /\ d.told = k.told
      /\ d.closed = k.closed
      /\ \A u \in Stage : u # q => d.op[u] = k.op[u]
      /\ Live(d) = Live(k)
      /\ Guarded(k) /\ k.timer[TimerOf(q)].wait \in {"waiting", "posted", "fired"} => Guarded(d)
  BY <1>1, <1>11, <1>4, BeginFacts
<1> HIDE DEF d
<1>51. Kept(r, d) /\ d.told = r.told
  BY <1>4, <1>5 DEF Kept
<1>52. \A u \in Stage : u # q => (Idle(r, u) => Idle(d, u))
  BY <1>4, <1>5 DEF Idle
<1>53. Idle(d, s)
  BY <1>1, <1>11, <1>4, <1>5 DEF Idle
<1>6. Whole(d)
  <2>1. d.used /\ d.proxy
    BY <1>1, <1>11, <1>51 DEF Whole, NotOpening, Kept
  <2>2. /\ \A u \in Proxied : ~Idle(d, u) => d.proxy
        /\ \A u \in Handshakes : ~Idle(d, u) => d.secure /\ (d.proxy => d.tunnel)
    <3>1. \A u \in Handshakes : ~Idle(d, u) => ~Idle(r, u)
      BY <1>11, <1>52
    <3> QED
      BY <1>1, <1>51, <2>1, <3>1 DEF Whole, Kept
  <2>3. ~Idle(d, "shutdown") => d.secure
    <3>1. ~Idle(d, "shutdown") => ~Idle(r, "shutdown")
      BY <1>11, <1>52
    <3> QED
      BY <1>1, <1>51, <3>1 DEF Whole, Kept
  <2>4. d.badSni \/ Single(d)
    <3> SUFFICES ASSUME ~d.badSni PROVE Single(d)
      OBVIOUS
    <3>1. Single(r)
      BY <1>1, <1>51 DEF Whole, Kept
    <3>2. \A u \in Opening : u # q => Idle(d, u)
      BY <1>1, <1>11, <1>52, <1>53, <3>1 DEF Single
    <3>3. s \notin Second /\ ~r.tunnel /\ ~InitOk(r.told)
      BY <1>1, <1>11, <3>1 DEF Single, NotOpening
    <3>4. q \notin Second /\ Second \subseteq Opening /\ Proxied \subseteq Opening
      BY <1>1, <3>3 DEF Second, Opening, Proxied, Handshakes
    <3> QED
      BY <1>51, <3>2, <3>3, <3>4 DEF Single, Kept
  <2>5. (InitOk(d.told) => d.used /\ Complete(d)) /\ (d.crashed => d.badSni /\ d.proxy)
    BY <1>1, <1>51 DEF Whole, Complete, Kept
  <2> QED
    BY <2>1, <2>2, <2>3, <2>4, <2>5 DEF Whole
<1>7. ~d.exact /\ ~d.badSni => Orderly(d)
  <2> SUFFICES ASSUME ~d.exact, ~d.badSni PROVE Orderly(d)
    OBVIOUS
  <2>1. Guarded(r) /\ Guarded(k) /\ Standing(k)
    BY <1>1, <1>3, <1>4, <1>5 DEF Sound, Orderly, Kept
  <2>2. k.timer["proxy"].wait \in {"waiting", "posted", "fired"}
    BY <1>1, <1>11, <1>4, <2>1 DEF Guarded
  <2>3. Standing(d)
    BY <1>5, <2>1 DEF Standing, Kept
  <2> QED
    BY <1>11, <1>5, <2>1, <2>2, <2>3 DEF Orderly
<1>8. Sound(d)
  BY <1>5, <1>6, <1>7 DEF Sound
<1> QED
  BY <1>2, <1>3, <1>8, TurnRule

LEMMA ProxyAnswered ==
  ASSUME StagesInv, NEW c \in Conn, NEW n \in Round, handle_proxy_read(c, n)
  PROVE  StagesInv'
<1> DEFINE r == tc[c]
           s == ProxyRead[n]
           d == InTime(r, s, TimerOf(s))
           k == [d EXCEPT !.tunnel = TRUE]
           p == post_init(k, n)
<1>1. /\ Sound(r) /\ r \in Transport /\ Whole(r) /\ ~Idle(r, s) /\ s \in Proxied
      /\ (s \notin Second => n = 1)
  BY RoundFacts DEF StagesInv, Sound, handle_proxy_read, Ready, Idle, Proxied, Second
<1>11. s \in Stage /\ s \in Opening /\ Opening \subseteq Stage /\ TimerOf(s) = "proxy" /\ "proxy" \in Timer
       /\ "shutdown" \in Stage /\ s # "shutdown"
  BY <1>1, StageFacts
<1>2. \/ NoProxyData(r, s) /\ Turns(c, Crash(r, s))
      \/ Turns(c, Done(r, s))
      \/ Turns(c, CallInit(d, "error")) \/ Turns(c, p)
  BY <1>11 DEF handle_proxy_read
<1> HIDE DEF s
<1>3. Sound(Done(r, s)) /\ Sound(CallInit(d, "error"))
      /\ (NoProxyData(r, s) => Sound(Crash(r, s)))
  BY <1>1, <1>11, DoneSound, InitFailed, CrashSound
<1>4. /\ d \in Transport /\ Whole(d) /\ d.started = r.started /\ d.used = r.used
      /\ d.told = r.told /\ d.closed = r.closed /\ d.op[s] = "none" /\ d.badSni = r.badSni
      /\ \A u \in Stage : u # s => d.op[u] = r.op[u]
      /\ ~d.exact /\ ~d.badSni => Standing(r) /\ "proxy" \in Live(r) /\ Guarded(d) /\ Live(d) = {}
  BY <1>1, <1>11, TakenInTime
<1> HIDE DEF d
<1>5. /\ k \in Transport /\ k.secure = d.secure /\ k.proxy = d.proxy /\ k.started = d.started
      /\ k.used = d.used /\ k.exact = d.exact /\ k.badSni = d.badSni /\ k.tunnel = TRUE
      /\ k.op = d.op /\ k.told = d.told /\ k.timer = d.timer /\ k.closed = d.closed
      /\ k.secured = d.secured /\ k.crashed = d.crashed
  BY <1>4 DEF Transport
<1> HIDE DEF k
<1>6. d.used /\ (d.badSni \/ (Fresh(d) /\ n = 1))
  <2>1. r.used
    BY <1>1, <1>11 DEF Whole, NotOpening
  <2>2. ASSUME ~d.badSni PROVE Fresh(d) /\ n = 1
    <3>1. Single(r)
      BY <1>1, <1>4, <2>2 DEF Whole
    <3>2. \A u \in Opening : Idle(d, u)
      BY <1>1, <1>11, <1>4, <3>1 DEF Single, Idle
    <3>3. ~InitOk(r.told) /\ s \notin Second
      BY <1>1, <1>11, <3>1 DEF Single, NotOpening
    <3> QED
      BY <1>1, <1>4, <3>2, <3>3 DEF Fresh, NotOpening
  <2> QED
    BY <1>4, <2>1, <2>2
<1>7. k.used /\ (k.badSni \/ (Fresh(k) /\ n = 1)) /\ (k.proxy => k.tunnel)
  BY <1>5, <1>6 DEF Fresh, NotOpening, Idle
<1>8. Whole(k)
  <2>1. \A u : Idle(k, u) <=> Idle(d, u)
    BY <1>5 DEF Idle
  <2>2. k.badSni \/ Single(k)
    <3>1. Fresh(k) => Single(k)
      BY StageFacts DEF Fresh, NotOpening, Single, Second, Opening, Proxied, Handshakes
    <3> QED
      BY <1>7, <3>1
  <2>3. InitOk(k.told) => k.used /\ Complete(k)
    BY <1>4, <1>5 DEF Whole, Complete
  <2> QED
    BY <1>4, <1>5, <1>7, <2>1, <2>2, <2>3 DEF Whole
<1>9. ~k.exact /\ ~k.badSni => Free(k) /\ Names(k.told) = <<"connect">>
  <2> SUFFICES ASSUME ~k.exact, ~k.badSni PROVE Free(k) /\ Names(k.told) = <<"connect">>
    OBVIOUS
  <2>1. Standing(r) /\ "proxy" \in Live(r) /\ Guarded(d) /\ Live(d) = {}
    BY <1>4, <1>5
  <2>2. r.started /\ ~r.closed /\ Names(r.told) = <<"connect">>
    BY <1>1, <1>11, <2>1, StandsAt
  <2>3. Guarded(k) /\ Live(k) = {}
    BY <1>5, <2>1 DEF Guarded, Live, Idle
  <2> QED
    BY <1>4, <1>5, <2>2, <2>3 DEF Free
<1>10. /\ p \in Transport /\ Kept(k, p) /\ Whole(p)
       /\ Free(k) /\ Names(k.told) = <<"connect">> /\ ~k.badSni => Orderly(p)
  BY <1>5, <1>7, <1>8, PostInitRule
<1> HIDE DEF p
<1>12. Sound(p)
  BY <1>9, <1>10 DEF Sound, Kept
<1> QED
  BY <1>2, <1>3, <1>12, TurnRule

LEMMA Secured ==
  ASSUME StagesInv, NEW c \in Conn, NEW n \in Round, handle_post_init(c, n)
  PROVE  StagesInv'
<1> DEFINE r == tc[c]
           s == PostInit[n]
           ok == r.op[s] = "ok"
           ec == IF ok THEN "ok" ELSE "error"
           d == InTime(r, s, s)
           k == [d EXCEPT !.secured = @ \/ ok]
           p == CallInit(k, ec)
<1>1. /\ Sound(r) /\ r \in Transport /\ Whole(r) /\ ~Idle(r, s) /\ s \in Handshakes
  BY RoundFacts DEF StagesInv, Sound, handle_post_init, Ready, Idle, Handshakes
<1>11. /\ s \in Stage /\ s \in Opening /\ Opening \subseteq Stage
       /\ TimerOf(s) = s /\ s \in Timer
  BY <1>1, StageFacts
<1>2. CASE Abandoned(r, s, s)
  <2>1. Turns(c, Done(r, s))
    BY <1>2 DEF handle_post_init
  <2> QED
    BY <1>1, <1>11, <2>1, DoneSound, TurnRule
<1>3. CASE ~Abandoned(r, s, s)
  <2>1. Turns(c, p) /\ ec \in Result /\ (ec = "ok" <=> ok) /\ ok \in BOOLEAN
    BY <1>3 DEF handle_post_init, Result
  <2> HIDE DEF s, ok, ec
  <2>2. /\ d \in Transport /\ Whole(d) /\ d.started = r.started /\ d.used = r.used
        /\ d.secure = r.secure /\ d.proxy = r.proxy /\ d.tunnel = r.tunnel /\ d.badSni = r.badSni
        /\ d.told = r.told /\ d.closed = r.closed /\ d.op[s] = "none"
        /\ \A u \in Stage : u # s => d.op[u] = r.op[u]
        /\ ~d.exact /\ ~d.badSni => Standing(r) /\ s \in Live(r) /\ Guarded(d) /\ Live(d) = {}
    BY <1>1, <1>11, TakenInTime
  <2> HIDE DEF d
  <2>3. (d.secured \/ ok) \in BOOLEAN
    OBVIOUS
  <2>4. /\ k \in Transport /\ k.secure = d.secure /\ k.proxy = d.proxy /\ k.started = d.started
        /\ k.used = d.used /\ k.exact = d.exact /\ k.badSni = d.badSni /\ k.tunnel = d.tunnel
        /\ k.op = d.op /\ k.told = d.told /\ k.timer = d.timer /\ k.closed = d.closed
        /\ k.crashed = d.crashed
    BY <2>2, <2>3 DEF Transport
  <2>5. (ok => k.secured) /\ (d.secured => k.secured)
    BY <2>2, <2>3 DEF Transport
  <2> HIDE DEF k
  <2>6. r.used /\ (r.proxy => r.tunnel)
    BY <1>1, <1>11 DEF Whole, NotOpening
  <2>7. k.used /\ (k.badSni \/ Fresh(k))
    <3>1. ASSUME ~k.badSni PROVE Fresh(k)
      <4>1. Single(r)
        BY <1>1, <2>2, <2>4, <3>1 DEF Whole
      <4>2. \A u \in Opening : Idle(k, u)
        BY <1>1, <1>11, <2>2, <2>4, <4>1 DEF Single, Idle
      <4>3. ~InitOk(r.told)
        BY <1>1, <1>11, <4>1 DEF Single, NotOpening
      <4> QED
        BY <2>2, <2>4, <4>2, <4>3 DEF Fresh, NotOpening
    <3> QED
      BY <2>2, <2>4, <2>6, <3>1
  <2>8. ec = "ok" => k.used /\ Complete(k) /\ (k.badSni \/ NotOpening(k))
    BY <2>1, <2>2, <2>4, <2>5, <2>6, <2>7 DEF Complete, Fresh
  <2>9. Whole(k)
    <3>1. \A u : Idle(k, u) <=> Idle(d, u)
      BY <2>4 DEF Idle
    <3>2. k.badSni \/ Single(k)
      <4>1. Fresh(k) => Single(k)
        BY StageFacts DEF Fresh, NotOpening, Single, Second, Opening, Proxied, Handshakes
      <4> QED
        BY <2>7, <4>1
    <3>3. InitOk(k.told) => k.used /\ Complete(k)
      BY <2>2, <2>4, <2>5 DEF Whole, Complete
    <3> QED
      BY <2>2, <2>4, <2>7, <3>1, <3>2, <3>3 DEF Whole
  <2>10. ~k.exact /\ ~k.badSni => Free(k) /\ Names(k.told) = <<"connect">>
    <3> SUFFICES ASSUME ~k.exact, ~k.badSni PROVE Free(k) /\ Names(k.told) = <<"connect">>
      OBVIOUS
    <3>1. Standing(r) /\ s \in Live(r) /\ Guarded(d) /\ Live(d) = {}
      BY <2>2, <2>4
    <3>11. s = "post_init"
      <4>1. s \notin Second
        BY <1>1, <2>2, <2>4 DEF Whole, Single
      <4> QED
        BY <1>1, <4>1 DEF Handshakes, Second
    <3>2. r.started /\ ~r.closed /\ Names(r.told) = <<"connect">>
      BY <1>1, <1>11, <3>1, <3>11, StandsAt
    <3>3. Guarded(k) /\ Live(k) = {}
      BY <2>4, <3>1 DEF Guarded, Live, Idle
    <3> QED
      BY <2>2, <2>4, <3>2, <3>3 DEF Free
  <2>11. /\ p \in Transport /\ Kept(k, p) /\ Whole(p)
         /\ Free(k) /\ k.used /\ Names(k.told) = <<"connect">> => Orderly(p)
    BY <2>1, <2>4, <2>8, <2>9, CallInitRule
  <2> HIDE DEF p
  <2>12. Sound(p)
    BY <2>7, <2>10, <2>11 DEF Sound, Kept
  <2> QED
    BY <2>1, <2>12, TurnRule
<1> QED
  BY <1>2, <1>3

\* The end is reported.
LEMMA ShutdownReported ==
  ASSUME NEW c \in Transport, Whole(c), NEW ec \in Result,
         ~c.exact /\ ~c.badSni => /\ Guarded(c) /\ Live(c) = {} /\ c.started /\ c.used /\ c.closed
                                  /\ Names(c.told) \in {<<"connect">>, <<"connect", "init">>}
  PROVE  Sound(Tell(c, "shutdown", ec))
<1> DEFINE d == Tell(c, "shutdown", ec)
<1>1. "shutdown" \in Told
  BY DEF Told
<1>2. /\ d \in Transport /\ Kept(c, d) /\ d.timer = c.timer /\ d.op = c.op
      /\ d.closed = c.closed /\ Live(d) = Live(c) /\ (Guarded(c) => Guarded(d))
      /\ Names(d.told) = Append(Names(c.told), "shutdown")
      /\ InitOk(d.told) => InitOk(c.told)
  BY <1>1, TellFacts
<1> HIDE DEF d
<1>3. Whole(d)
  BY <1>2, WholeKept
<1>4. ~d.exact /\ ~d.badSni => Orderly(d)
  <2> SUFFICES ASSUME ~d.exact, ~d.badSni PROVE Orderly(d)
    OBVIOUS
  <2>1. /\ Guarded(c) /\ Live(c) = {} /\ c.started /\ c.used /\ c.closed
        /\ Names(c.told) \in {<<"connect">>, <<"connect", "init">>}
    BY <1>2 DEF Kept
  <2>2. Names(d.told) \in {<<"connect", "shutdown">>, <<"connect", "init", "shutdown">>}
    BY <1>2, <2>1, NamesGrow
  <2> QED
    BY <1>2, <2>1, <2>2 DEF Orderly, Standing, Kept
<1>5. Sound(d)
  BY <1>2, <1>3, <1>4 DEF Sound
<1> QED
  BY <1>5 DEF d

LEMMA ShutDown ==
  ASSUME StagesInv, NEW c \in Conn, handle_async_shutdown(c)
  PROVE  StagesInv'
<1> DEFINE r == tc[c]
           ec == r.op["shutdown"]
           d == InTime(r, "shutdown", "shutdown")
<1>1. /\ Sound(r) /\ r \in Transport /\ ~Idle(r, "shutdown")
      /\ "shutdown" \in Stage /\ TimerOf("shutdown") = "shutdown" /\ "shutdown" \in Timer
  BY DEF StagesInv, Sound, handle_async_shutdown, Ready, Idle, Stage, TimerOf, Timer, Proxied
<1>2. CASE Abandoned(r, "shutdown", "shutdown")
  <2>1. Turns(c, Done(r, "shutdown"))
    BY <1>2 DEF handle_async_shutdown
  <2> QED
    BY <1>1, <2>1, DoneSound, TurnRule
<1>3. CASE ~Abandoned(r, "shutdown", "shutdown")
  <2>1. Turns(c, Tell(d, "shutdown", ec)) /\ ec \in Result
    <3>1. "shutdown" \notin ToSet(PostInit)
      BY PostInitSet DEF Handshakes
    <3> QED
      BY <1>3, <3>1 DEF handle_async_shutdown, Ready, Abandoned, Result
  <2>2. /\ d \in Transport /\ Whole(d) /\ d.started = r.started /\ d.used = r.used
        /\ d.told = r.told /\ d.closed = r.closed
        /\ ~d.exact /\ ~d.badSni => Standing(r) /\ "shutdown" \in Live(r) /\ Guarded(d) /\ Live(d) = {}
    BY <1>1, TakenInTime
  <2> HIDE DEF d, ec
  <2>3. ~d.exact /\ ~d.badSni => /\ Guarded(d) /\ Live(d) = {} /\ d.started /\ d.used /\ d.closed
                                 /\ Names(d.told) \in {<<"connect">>, <<"connect", "init">>}
    BY <1>1, <2>2, StandsAt
  <2>4. Sound(Tell(d, "shutdown", ec))
    BY <2>1, <2>2, <2>3, ShutdownReported
  <2> QED
    BY <2>1, <2>4, TurnRule
<1> QED
  BY <1>2, <1>3

LEMMA SocketCancelled ==
  ASSUME NEW c \in Transport
  PROVE  LET d == cancel_socket_checked(c)
         IN /\ d \in Transport /\ Kept(c, d) /\ d.timer = c.timer /\ d.told = c.told
            /\ d.closed = c.closed /\ \A s \in Stage : Idle(d, s) <=> Idle(c, s)
<1> DEFINE f == [s \in Stage |-> IF s # "dns" /\ c.op[s] = "pending" THEN "aborted" ELSE c.op[s]]
           d == cancel_socket_checked(c)
<1>1. c.op \in [Stage -> OpState] /\ "aborted" \in OpState /\ "aborted" # "none" /\ "pending" # "none"
  BY DEF Transport, OpState
<1>2. f \in [Stage -> OpState]
  BY <1>1
<1>3. \A s \in Stage : f[s] = "none" <=> c.op[s] = "none"
  BY <1>1
<1>4. d = [c EXCEPT !.op = f]
  BY DEF cancel_socket_checked
<1> HIDE DEF f
<1>5. d \in Transport
  BY <1>2, <1>4 DEF Transport
<1>6. d.op = f /\ d.timer = c.timer /\ d.told = c.told /\ d.closed = c.closed /\ Kept(c, d)
  BY <1>4 DEF Transport, Kept
<1> QED
  BY <1>3, <1>5, <1>6 DEF Idle

LEMMA ResolverCancelled ==
  ASSUME NEW c, Sound(c)
  PROVE  Sound(CancelResolver(c))
<1> DEFINE f == [c.op EXCEPT !["dns"] = "aborted"]
           d == [c EXCEPT !.op = f]
<1>1. c \in Transport /\ c.op \in [Stage -> OpState] /\ "aborted" \in OpState /\ "dns" \in Stage
  BY DEF Sound, Transport, OpState, Stage
<1>2. CASE c.op["dns"] = "pending"
  <2>1. CancelResolver(c) = d
    BY <1>2 DEF CancelResolver
  <2>2. f \in [Stage -> OpState] /\ \A s \in Stage : f[s] = "none" <=> c.op[s] = "none"
    BY <1>1, <1>2
  <2> HIDE DEF f
  <2>3. d \in Transport
    BY <1>1, <2>2 DEF Transport
  <2>4. d.op = f /\ d.timer = c.timer /\ d.told = c.told /\ d.closed = c.closed /\ Kept(c, d)
    BY <1>1 DEF Transport, Kept
  <2>5. \A s \in Stage : Idle(d, s) <=> Idle(c, s)
    BY <2>2, <2>4 DEF Idle
  <2> HIDE DEF d
  <2>6. Sound(d)
    BY <1>1, <2>3, <2>4, <2>5, OpsRelabelled
  <2> QED
    BY <2>1, <2>6
<1>3. CASE c.op["dns"] # "pending"
  BY <1>3 DEF CancelResolver
<1> QED
  BY <1>2, <1>3

\* handle_timer() is called: its timer is no longer alive.
LEMMA TimerFired ==
  ASSUME NEW r, Sound(r), NEW t \in Timer, r.timer[t].wait = "posted"
  PROVE  LET k == [r EXCEPT !.timer[t].wait = "fired"]
         IN /\ k \in Transport /\ Kept(r, k) /\ k.op = r.op /\ k.told = r.told
            /\ k.closed = r.closed /\ Whole(k)
            /\ Orderly(r) => t \in Live(r) /\ Guarded(k) /\ Live(k) = {}
<1> DEFINE m == [r.timer[t] EXCEPT !.wait = "fired"]
           k == [r EXCEPT !.timer[t].wait = "fired"]
<1>1. r \in Transport /\ Whole(r) /\ r.timer \in [Timer -> TimerState]
  BY DEF Sound, Transport
<1>2. m \in TimerState /\ m.wait = "fired"
  BY <1>1 DEF TimerState
<1>3. k = [r EXCEPT !.timer = [r.timer EXCEPT ![t] = m]]
  BY <1>1
<1> HIDE DEF m
<1>4. [r.timer EXCEPT ![t] = m] \in [Timer -> TimerState]
  BY <1>1, <1>2
<1>5. k \in Transport
  BY <1>1, <1>3, <1>4 DEF Transport
<1>6. /\ k.timer = [r.timer EXCEPT ![t] = m] /\ k.op = r.op /\ k.told = r.told
      /\ k.closed = r.closed /\ Kept(r, k)
  BY <1>1, <1>3 DEF Transport, Kept
<1> HIDE DEF k
<1>7. k.timer[t] = m /\ \A u \in Timer : u # t => k.timer[u] = r.timer[u]
  BY <1>1, <1>6
<1>8. Whole(k)
  BY <1>1, <1>6, WholeKept
<1>9. ASSUME Orderly(r) PROVE t \in Live(r) /\ Guarded(k) /\ Live(k) = {}
  <2>1. t \in Live(r)
    BY DEF Live
  <2>2. Live(r) = {t}
    BY <1>1, <1>9, <2>1, StandsAt DEF Orderly
  <2>3. Live(k) = {}
    BY <1>2, <1>7, <2>2 DEF Live
  <2>4. \A s \in Stage : TimerOf(s) \in Timer
    BY DEF Stage, TimerOf, Timer
  <2>5. Guarded(k)
    BY <1>2, <1>6, <1>7, <1>9, <2>4 DEF Orderly, Guarded, Idle
  <2> QED
    BY <2>1, <2>3, <2>5
<1> QED
  BY <1>5, <1>6, <1>8, <1>9 DEF k

LEMMA TimedOut ==
  ASSUME StagesInv, NEW c \in Conn, NEW t \in Timer, handle_timer(c, t)
  PROVE  StagesInv'
<1> DEFINE r == tc[c]
           k == [r EXCEPT !.timer[t].wait = "fired"]
           b == cancel_socket_checked(k)
<1>1. r \in Transport /\ Sound(r) /\ r.timer[t].wait = "posted" /\ "timeout" \in Result
      /\ TRUE \in BOOLEAN /\ "timeout" # "ok"
  BY DEF StagesInv, Sound, handle_timer, Result
<1>2. /\ k \in Transport /\ Kept(r, k) /\ k.op = r.op /\ k.told = r.told
      /\ k.closed = r.closed /\ Whole(k)
      /\ Orderly(r) => t \in Live(r) /\ Guarded(k) /\ Live(k) = {}
  BY <1>1, TimerFired
<1>3. /\ t = "dns" => tc' = [d \in Conn |-> Released(CancelResolver(
                               IF d = c THEN handle_resolve_timeout(k) ELSE tc[d]))]
      /\ t = "connect" => Turns(c, CallConnect(b, "timeout", TRUE))
      /\ t \in {"proxy", "overwritten"} \cup Handshakes => Turns(c, CallInit(b, "timeout"))
      /\ t = "shutdown" => Turns(c, Tell(b, "shutdown", "timeout"))
  BY PostInitSet DEF Handshakes, handle_timer, handle_connect_timeout, handle_proxy_timeout, handle_post_init_timeout,
         handle_async_shutdown_timeout
<1> HIDE DEF r, k
<1>4. /\ b \in Transport /\ Kept(k, b) /\ b.timer = k.timer /\ b.told = k.told
      /\ b.closed = k.closed /\ \A s \in Stage : Idle(b, s) <=> Idle(k, s)
  BY <1>2, SocketCancelled
<1> HIDE DEF b
<1>5. Whole(b) /\ Live(b) = Live(k) /\ (Guarded(k) => Guarded(b))
  BY <1>2, <1>4, OpsRelabelled
<1>6. ~k.exact /\ ~k.badSni => /\ Standing(r) /\ t \in Live(r)
                               /\ Guarded(k) /\ Live(k) = {} /\ Guarded(b) /\ Live(b) = {}
  BY <1>1, <1>2, <1>5 DEF Sound, Orderly, Kept
<1>7. /\ k.exact = r.exact /\ k.badSni = r.badSni /\ k.started = r.started /\ k.used = r.used
      /\ b.exact = r.exact /\ b.badSni = r.badSni /\ b.started = r.started /\ b.used = r.used
      /\ b.told = r.told /\ b.closed = r.closed
  BY <1>2, <1>4 DEF Kept
<1>8. CASE t = "dns"
  <2> DEFINE j == CallConnect(k, "timeout", TRUE)
  <2>1. /\ j \in Transport /\ Whole(j) /\ j.exact = k.exact /\ (k.badSni => j.badSni)
        /\ Free(k) /\ ~k.used /\ Names(k.told) = << >> /\ ~j.badSni => Orderly(j)
    BY <1>1, <1>2, CallConnectRule
  <2>2. ~k.exact /\ ~k.badSni => Free(k) /\ ~k.used /\ Names(k.told) = << >>
    BY <1>1, <1>2, <1>6, <1>7, <1>8, StandsAt DEF Free
  <2>3. handle_resolve_timeout(k) = j
    BY DEF handle_resolve_timeout
  <2> HIDE DEF j
  <2>4. Sound(j)
    BY <2>1, <2>2 DEF Sound
  <2> DEFINE x(d) == IF d = c THEN j ELSE tc[d]
             y(d) == Released(CancelResolver(x(d)))
  <2>5. tc' = [d \in Conn |-> y(d)]
    BY <1>3, <1>8, <2>3
  <2>6. \A d \in Conn : Sound(x(d))
    BY <2>4 DEF StagesInv
  <2> HIDE DEF x
  <2>7. \A d \in Conn : Sound(y(d))
    BY <2>6, ResolverCancelled, ReleasedSound
  <2>8. \A d \in Conn : y(d) \in Transport
    BY <2>7 DEF Sound
  <2> HIDE DEF y
  <2> QED
    BY <2>5, <2>7, <2>8 DEF StagesInv
<1>9. CASE t = "connect"
  <2> DEFINE j == CallConnect(b, "timeout", TRUE)
  <2>1. /\ j \in Transport /\ Whole(j) /\ j.exact = b.exact /\ (b.badSni => j.badSni)
        /\ Free(b) /\ ~b.used /\ Names(b.told) = << >> /\ ~j.badSni => Orderly(j)
    BY <1>1, <1>4, <1>5, CallConnectRule
  <2>2. ~b.exact /\ ~b.badSni => Free(b) /\ ~b.used /\ Names(b.told) = << >>
    BY <1>1, <1>6, <1>7, <1>9, StandsAt DEF Free
  <2>3. Turns(c, j)
    BY <1>3, <1>9
  <2> HIDE DEF j
  <2>4. Sound(j)
    BY <2>1, <2>2 DEF Sound
  <2> QED
    BY <2>3, <2>4, TurnRule
<1>10. CASE t \in {"proxy", "overwritten"} \cup Handshakes
  <2> DEFINE j == CallInit(b, "timeout")
  <2>1. /\ j \in Transport /\ Kept(b, j) /\ Whole(j)
        /\ Free(b) /\ b.used /\ Names(b.told) = <<"connect">> => Orderly(j)
    BY <1>1, <1>4, <1>5, CallInitRule
  <2>2. ~b.exact /\ ~b.badSni => Free(b) /\ b.used /\ Names(b.told) = <<"connect">>
    <3>1. Standing(r) /\ t \in Live(r) => t \in {"proxy", "post_init"}
      BY <1>10 DEF Standing, Handshakes
    <3> QED
      BY <1>1, <1>6, <1>7, <3>1, StandsAt DEF Free
  <2>3. Turns(c, j)
    BY <1>3, <1>10
  <2> HIDE DEF j
  <2>4. Sound(j)
    BY <2>1, <2>2 DEF Sound, Kept
  <2> QED
    BY <2>3, <2>4, TurnRule
<1>11. CASE t = "shutdown"
  <2>1. ~b.exact /\ ~b.badSni => /\ Guarded(b) /\ Live(b) = {} /\ b.started /\ b.used /\ b.closed
                                 /\ Names(b.told) \in {<<"connect">>, <<"connect", "init">>}
    BY <1>1, <1>6, <1>7, <1>11, StandsAt
  <2>2. Sound(Tell(b, "shutdown", "timeout"))
    BY <1>1, <1>4, <1>5, <2>1, ShutdownReported
  <2> QED
    BY <1>3, <1>11, <2>2, TurnRule
<1> QED
  BY <1>8, <1>9, <1>10, <1>11 DEF Timer, Handshakes

LEMMA NoInitYet ==
  ASSUME NEW r \in Transport, InitOk(r.told)
  PROVE  Names(r.told) # << >> /\ Names(r.told) # <<"connect">>
<1>1. PICK i \in 1..Len(r.told) : r.told[i] = <<"init", "ok">>
  BY DEF InitOk
<1>2. r.told \in Seq(Told \X Result) /\ Len(r.told) \in Nat
  BY DEF Transport
<1>3. r.told[i][1] = "init"
  BY <1>1
<1>4. \A j \in 1..Len(r.told) : r.told[j][1] \in Told
  BY <1>2
<1>5. Names(r.told) \in Seq(Told) /\ Len(Names(r.told)) = Len(r.told) /\ Names(r.told)[i] = "init"
  BY <1>2, <1>3, <1>4 DEF Names
<1>6. ASSUME Names(r.told) = <<"connect">> PROVE FALSE
  <2>1. Len(<<"connect">>) = 1 /\ <<"connect">>[1] = "connect"
    OBVIOUS
  <2>2. i = 1
    <3>1. Len(r.told) = 1
      BY <1>5, <1>6, <2>1
    <3> QED
      BY <3>1
  <2> QED
    BY <1>5, <1>6, <2>1, <2>2
<1> QED
  BY <1>2, <1>5, <1>6

LEMMA ClosedByApplication ==
  ASSUME StagesInv, NEW c \in Conn, Close(c)
  PROVE  StagesInv'
<1> DEFINE r == tc[c]
           d == Terminate(r)
<1>1. r \in Transport /\ Sound(r) /\ Whole(r) /\ InitOk(r.told) /\ ~r.closed /\ Turns(c, d)
  BY DEF StagesInv, Sound, Close, InitOk
<1>2. /\ d \in Transport /\ Kept(r, d) /\ Whole(d)
      /\ Free(r) /\ r.used /\ Names(r.told) \in {<<"connect">>, <<"connect", "init">>} => Orderly(d)
  BY <1>1, TerminateRule
<1> HIDE DEF r, d
<1>3. ~r.exact /\ ~r.badSni => Free(r) /\ r.used /\ Names(r.told) = <<"connect", "init">>
  BY <1>1, NoInitYet DEF Sound, Orderly, Standing, Free
<1>4. Sound(d)
  BY <1>2, <1>3 DEF Sound, Kept
<1> QED
  BY <1>1, <1>4, TurnRule

LEMMA Completed ==
  ASSUME StagesInv, NEW c \in Conn, Completes(c)
  PROVE  StagesInv'
<1> DEFINE r == tc[c]
<1>1. PICK s \in Stage, result \in {"ok", "error"} :
        r.op[s] = "pending" /\ Turns(c, [r EXCEPT !.op[s] = result])
  BY DEF Completes
<1> DEFINE f == [r.op EXCEPT ![s] = result]
           d == [r EXCEPT !.op = f]
<1>2. r \in Transport /\ Sound(r) /\ r.op \in [Stage -> OpState] /\ result \in OpState
  BY DEF StagesInv, Sound, Transport, OpState
<1>3. f \in [Stage -> OpState] /\ \A u \in Stage : f[u] = "none" <=> r.op[u] = "none"
  BY <1>1, <1>2
<1>4. Turns(c, d)
  BY <1>1
<1> HIDE DEF r, f
<1>5. d \in Transport
  BY <1>2, <1>3 DEF Transport
<1>6. d.op = f /\ d.timer = r.timer /\ d.told = r.told /\ d.closed = r.closed /\ Kept(r, d)
  BY <1>2 DEF Transport, Kept
<1>7. \A u \in Stage : Idle(d, u) <=> Idle(r, u)
  BY <1>3, <1>6 DEF Idle
<1> HIDE DEF d
<1>8. Sound(d)
  BY <1>2, <1>5, <1>6, <1>7, OpsRelabelled
<1> QED
  BY <1>4, <1>8, TurnRule

LEMMA TimePasses ==
  ASSUME StagesInv, NEW c \in Conn, NEW t \in Timer, Tick(c, t) \/ Rings(c, t)
  PROVE  StagesInv'
<1> DEFINE r == tc[c]
<1>1. r \in Transport /\ Sound(r) /\ r.timer \in [Timer -> TimerState]
  BY DEF StagesInv, Sound, Transport
<1>2. \E m \in TimerState :
        /\ Turns(c, [r EXCEPT !.timer = [r.timer EXCEPT ![t] = m]])
        /\ m.wait = r.timer[t].wait \/ (m.wait = "posted" /\ r.timer[t].wait = "waiting")
  <2> DEFINE a == [r.timer[t] EXCEPT !.clock = "due"]
             p == [r.timer[t] EXCEPT !.clock = "past"]
             w == [r.timer[t] EXCEPT !.wait = "posted"]
  <2>1. /\ a \in TimerState /\ p \in TimerState /\ w \in TimerState
        /\ a.wait = r.timer[t].wait /\ p.wait = r.timer[t].wait /\ w.wait = "posted"
    BY <1>1 DEF TimerState
  <2>2. \/ Turns(c, [r EXCEPT !.timer = [r.timer EXCEPT ![t] = a]])
        \/ Turns(c, [r EXCEPT !.timer = [r.timer EXCEPT ![t] = p]])
        \/ /\ Turns(c, [r EXCEPT !.timer = [r.timer EXCEPT ![t] = w]])
           /\ r.timer[t].wait = "waiting"
    BY <1>1 DEF Tick, Rings
  <2> HIDE DEF a, p, w
  <2> QED
    BY <2>1, <2>2
<1>3. PICK m \in TimerState :
        /\ Turns(c, [r EXCEPT !.timer = [r.timer EXCEPT ![t] = m]])
        /\ m.wait = r.timer[t].wait \/ (m.wait = "posted" /\ r.timer[t].wait = "waiting")
  BY <1>2
<1> DEFINE f == [r.timer EXCEPT ![t] = m]
           d == [r EXCEPT !.timer = f]
<1>4. f \in [Timer -> TimerState] /\ f[t] = m /\ \A u \in Timer : u # t => f[u] = r.timer[u]
  BY <1>1
<1>5. Turns(c, d)
  BY <1>3
<1> HIDE DEF r, f
<1>6. d \in Transport
  BY <1>1, <1>4 DEF Transport
<1>7. d.timer = f /\ d.op = r.op /\ d.told = r.told /\ d.closed = r.closed /\ Kept(r, d)
  BY <1>1 DEF Transport, Kept
<1> HIDE DEF d
<1>8. Live(d) = Live(r)
  BY <1>3, <1>4, <1>7 DEF Live
<1>9. Guarded(r) => Guarded(d)
  <2>1. \A s \in Stage : TimerOf(s) \in Timer
    BY DEF Stage, TimerOf, Timer
  <2> QED
    BY <1>3, <1>4, <1>7, <2>1 DEF Guarded, Idle
<1>10. Sound(d)
  BY <1>1, <1>6, <1>7, <1>8, <1>9, TimersRelabelled
<1> QED
  BY <1>5, <1>10, TurnRule

AsioSpec == AsioInit /\ [][AsioNext]_tc

LEMMA StagesBegin ==
  ASSUME AsioInit
  PROVE  StagesInv
<1>1. ASSUME NEW s \in BOOLEAN, NEW p \in BOOLEAN PROVE Sound(NewTransport(s, p))
  <2> DEFINE r == NewTransport(s, p)
  <2>1. "none" \in OpState /\ NoTimer \in TimerState /\ NoTimer.wait = "none"
    BY DEF OpState, TimerState, NoTimer
  <2>2. r \in Transport
    BY <2>1 DEF NewTransport, Transport
  <2>3. /\ r.op = [u \in Stage |-> "none"] /\ r.timer = [t \in Timer |-> NoTimer] /\ r.told = << >>
        /\ ~r.started /\ ~r.used /\ ~r.closed /\ ~r.tunnel /\ ~r.crashed
    BY DEF NewTransport
  <2> HIDE DEF r
  <2>4. \A u \in Stage : Idle(r, u)
    BY <2>3 DEF Idle
  <2>5. /\ Opening \subseteq Stage /\ "shutdown" \in Stage /\ Second \subseteq Stage
        /\ Proxied \subseteq Stage /\ Handshakes \subseteq Stage
    BY StageFacts DEF Second, Stage, Proxied
  <2>6. ~InitOk(r.told) /\ Names(r.told) = << >>
    BY <2>3 DEF InitOk, Names
  <2>7. Whole(r)
    BY <2>3, <2>4, <2>5, <2>6 DEF Whole, NotOpening, Single
  <2>8. Live(r) = {}
    BY <2>1, <2>3 DEF Live
  <2>9. Orderly(r)
    BY <2>3, <2>4, <2>6, <2>8 DEF Orderly, Guarded, Standing
  <2> QED
    BY <2>2, <2>7, <2>9 DEF Sound, r
<1>2. \A c \in Conn : Sound(tc[c])
  BY <1>1 DEF AsioInit
<1>3. tc \in [Conn -> {NewTransport(s, p) : s, p \in BOOLEAN}]
  BY DEF AsioInit
<1>4. {NewTransport(s, p) : s, p \in BOOLEAN} \subseteq Transport
  BY <1>1 DEF Sound
<1> QED
  BY <1>2, <1>3, <1>4 DEF StagesInv

LEMMA StagesStep ==
  ASSUME StagesInv, [AsioNext]_tc
  PROVE  StagesInv'
<1>1. CASE UNCHANGED tc
  BY <1>1 DEF StagesInv
<1>2. ASSUME NEW c \in Conn, Handler(c) PROVE StagesInv'
  BY <1>2, Resolved, Connected, ProxyWritten, ProxyAnswered, Secured, ShutDown DEF Handler
<1>3. ASSUME NEW c \in Conn, async_connect(c) \/ Completes(c) \/ Close(c) PROVE StagesInv'
  BY <1>3, Started, Completed, ClosedByApplication
<1>4. ASSUME NEW c \in Conn, NEW t \in Timer, handle_timer(c, t) \/ Tick(c, t) \/ Rings(c, t)
      PROVE  StagesInv'
  BY <1>4, TimedOut, TimePasses
<1> QED
  BY <1>1, <1>2, <1>3, <1>4 DEF AsioNext

(* Of every connection of a client endpoint: connect, init and shutdown are *)
(* reported at most once each and in this order, however each operation and *)
(* its timer race and whatever the other connections do to the resolver;    *)
(* and it is reported open only when the tunnel and the TLS handshake are   *)
(* done, also after a tie of an operation and its timer or a name that      *)
(* could not be set, where handle_pre_init() begins the stages twice; and   *)
(* only there does a handler find m_proxy_data gone.                        *)
THEOREM StagesAreReported == AsioSpec => []StagesReported
<1>1. AsioInit => StagesInv
  BY StagesBegin
<1>2. StagesInv /\ [AsioNext]_tc => StagesInv'
  BY StagesStep
<1>3. StagesInv => StagesReported
  <2> SUFFICES ASSUME StagesInv, NEW c \in Conn
               PROVE  /\ ~tc[c].exact /\ ~tc[c].badSni =>
                           Names(tc[c].told) \in {<< >>, <<"connect">>, <<"connect", "init">>,
                                                  <<"connect", "shutdown">>,
                                                  <<"connect", "init", "shutdown">>}
                      /\ <<"init", "ok">> \in ToSet(tc[c].told) =>
                           /\ tc[c].proxy => tc[c].tunnel
                           /\ tc[c].secure => tc[c].secured
                      /\ tc[c].crashed => tc[c].badSni /\ tc[c].proxy
    BY DEF StagesReported, CalledOnce, OpenIsComplete, CrashOnlyOfBadSni, Names
  <2>1. Sound(tc[c]) /\ tc[c] \in Transport
    BY DEF StagesInv
  <2>2. tc[c].told \in Seq(Told \X Result)
    BY <2>1 DEF Transport
  <2>3. <<"init", "ok">> \in ToSet(tc[c].told) => InitOk(tc[c].told)
    BY <2>2 DEF ToSet, InitOk
  <2>4. ~tc[c].exact /\ ~tc[c].badSni => Standing(tc[c])
    BY <2>1 DEF Sound, Orderly
  <2> QED
    BY <2>1, <2>3, <2>4 DEF Standing, Sound, Whole, Complete
<1> QED
  BY <1>1, <1>2, <1>3, PTL DEF AsioSpec
=============================================================================
