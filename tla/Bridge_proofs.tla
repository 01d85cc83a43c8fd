--------------------------- MODULE Bridge_proofs ----------------------------
(***************************************************************************)
(* The bridge between gateway and business side, for any number of         *)
(* messages, requests, connections and restarts: what its senders may rely *)
(* on, and that files are transferred whole.                               *)
(***************************************************************************)
EXTENDS GatewayBridge, BridgeRequests, Induction

(***************************************************************************)
(* Inbound messages and their acknowledgements: GatewayBridge.             *)
(***************************************************************************)

(* What a sequence holds after it was appended to, joined or shortened.    *)
LEMMA ElemsOfAppend ==
    ASSUME NEW S, NEW s \in Seq(S), NEW e \in S
    PROVE  Append(s, e) \in Seq(S) /\ Elems(Append(s, e)) = Elems(s) \cup {e}
<1> DEFINE a == Append(s, e)
<1>1. /\ a \in Seq(S) /\ Len(s) \in Nat /\ Len(a) = Len(s) + 1
      /\ DOMAIN s = 1..Len(s) /\ DOMAIN a = 1..Len(a)
      /\ \A i \in 1..Len(s) : a[i] = s[i]
      /\ a[Len(s) + 1] = e
  OBVIOUS
<1> HIDE DEF a
<1>2. ASSUME NEW i \in DOMAIN a PROVE a[i] \in Elems(s) \cup {e}
  BY <1>1 DEF Elems
<1>3. ASSUME NEW i \in DOMAIN s PROVE s[i] \in Elems(a)
  BY <1>1 DEF Elems
<1>4. e \in Elems(a)
  BY <1>1 DEF Elems
<1> QED BY <1>1, <1>2, <1>3, <1>4 DEF Elems, a

LEMMA ElemsOfTail ==
    ASSUME NEW S, NEW s \in Seq(S), s # <<>>
    PROVE  /\ Tail(s) \in Seq(S) /\ Head(s) \in S
           /\ Head(s) \in Elems(s)
           /\ Elems(Tail(s)) \subseteq Elems(s)
<1>1. /\ Tail(s) \in Seq(S) /\ Head(s) \in S /\ Head(s) = s[1]
      /\ Len(s) \in Nat /\ Len(s) > 0 /\ Len(Tail(s)) = Len(s) - 1
      /\ DOMAIN s = 1..Len(s) /\ DOMAIN Tail(s) = 1..Len(Tail(s))
      /\ \A i \in 1..Len(Tail(s)) : Tail(s)[i] = s[i + 1]
  OBVIOUS
<1>2. ASSUME NEW i \in DOMAIN Tail(s) PROVE Tail(s)[i] \in Elems(s)
  <2>1. i + 1 \in DOMAIN s /\ Tail(s)[i] = s[i + 1]
    BY <1>1
  <2> QED BY <2>1 DEF Elems
<1>3. Head(s) \in Elems(s)
  BY <1>1 DEF Elems
<1> QED BY <1>1, <1>2, <1>3 DEF Elems

LEMMA ElemsOfAnswer ==
    ASSUME NEW S, NEW s \in Seq(S), NEW e \in S
    PROVE  s \o <<e>> \in Seq(S) /\ Elems(s \o <<e>>) = Elems(s) \cup {e}
<1>1. s \o <<e>> = Append(s, e)
  OBVIOUS
<1>2. Append(s, e) \in Seq(S) /\ Elems(Append(s, e)) = Elems(s) \cup {e}
  BY ElemsOfAppend
<1> QED BY <1>1, <1>2, Zenon

(* Popping a key from an ordered dictionary.                               *)
Distinct(s) == \A i, k \in DOMAIN s : s[i] = s[k] => i = k

LEMMA ElemsOfWithout ==
    ASSUME NEW S, NEW s \in Seq(S), NEW e
    PROVE  /\ Without(s, e) \in Seq(S)
           /\ Len(Without(s, e)) <= Len(s)
           /\ Elems(Without(s, e)) \subseteq Elems(s)
           /\ Elems(s) \ {e} \subseteq Elems(Without(s, e))
           /\ Distinct(s) => Distinct(Without(s, e)) /\ e \notin Elems(Without(s, e))
<1>1. CASE e \notin Elems(s)
  BY <1>1 DEF Without
<1>2. CASE e \in Elems(s)
  <2> DEFINE k == CHOOSE i \in DOMAIN s : s[i] = e
             w == [i \in 1..(Len(s) - 1) |-> s[IF i < k THEN i ELSE i + 1]]
  <2>1. k \in DOMAIN s /\ s[k] = e
    BY <1>2 DEF Elems
  <2>2. w = Without(s, e)
    BY <1>2 DEF Without
  <2>3. Len(s) \in Nat /\ Len(s) > 0 /\ DOMAIN s = 1..Len(s) /\ \A i \in DOMAIN s : s[i] \in S
    BY <2>1
  <2> HIDE DEF k
  <2>4. \A i \in 1..(Len(s) - 1) : (IF i < k THEN i ELSE i + 1) \in DOMAIN s
    BY <2>1, <2>3
  <2>5. w \in [1..(Len(s) - 1) -> S]
    BY <2>3, <2>4
  <2>6. Len(s) - 1 \in Nat
    BY <2>3
  <2>7. w \in Seq(S) /\ Len(w) = Len(s) - 1 /\ DOMAIN w = 1..(Len(s) - 1)
    BY <2>5, <2>6
  <2>8. \A i \in DOMAIN w : w[i] = s[IF i < k THEN i ELSE i + 1]
    BY <2>7
  <2> HIDE DEF w
  <2>9. \A i \in DOMAIN w : w[i] \in Elems(s)
    BY <2>4, <2>7, <2>8 DEF Elems
  <2>10. ASSUME NEW i \in DOMAIN s, s[i] # e PROVE s[i] \in Elems(w)
    <3>1. i # k
      BY <2>1, <2>10
    <3>2. CASE i < k
      <4>1. i \in DOMAIN w /\ w[i] = s[i]
        BY <2>1, <2>3, <2>7, <2>8, <3>2
      <4> QED BY <4>1 DEF Elems
    <3>3. CASE i > k
      <4>1. i - 1 \in DOMAIN w /\ ~(i - 1 < k) /\ (i - 1) + 1 = i
        BY <2>1, <2>3, <2>7, <3>3
      <4>2. w[i - 1] = s[i]
        BY <2>8, <4>1
      <4> QED BY <4>1, <4>2 DEF Elems
    <3> QED BY <2>1, <2>3, <3>1, <3>2, <3>3
  <2>11. ASSUME Distinct(s) PROVE Distinct(w) /\ e \notin Elems(w)
    <3> DEFINE r(i) == IF i < k THEN i ELSE i + 1
    <3>1. \A i, j \in DOMAIN w : r(i) = r(j) => i = j
      BY <2>1, <2>3, <2>7
    <3>2. \A i \in DOMAIN w : r(i) \in DOMAIN s /\ r(i) # k /\ w[i] = s[r(i)]
      BY <2>1, <2>3, <2>4, <2>7, <2>8
    <3> HIDE DEF r
    <3>3. Distinct(w)
      BY <2>11, <3>1, <3>2 DEF Distinct
    <3>4. \A i \in DOMAIN w : w[i] # e
      BY <2>1, <2>11, <3>2 DEF Distinct
    <3> QED BY <3>3, <3>4 DEF Elems
  <2>12. Elems(w) \subseteq Elems(s) /\ Elems(s) \ {e} \subseteq Elems(w)
    BY <2>9, <2>10 DEF Elems
  <2> QED BY <2>2, <2>3, <2>7, <2>11, <2>12
<1> QED BY <1>1, <1>2

(* _RecentFrameSet holds as many frames as it may, the latest among them,  *)
(* and all of them when it may hold all there are.                         *)
LEMMA RememberOne ==
    ASSUME processed \in Seq(Inbound), Len(processed) <= ProcessedLimit,
           NEW m \in Inbound
    PROVE  /\ Remember(m) \in Seq(Inbound)
           /\ Len(Remember(m)) <= ProcessedLimit
           /\ Elems(Remember(m)) \subseteq Elems(processed) \cup {m}
<1> DEFINE w == Without(processed, m)
           a == Append(w, m)
<1>1. /\ w \in Seq(Inbound) /\ Len(w) <= Len(processed)
      /\ Elems(w) \subseteq Elems(processed)
  BY ElemsOfWithout
<1> HIDE DEF w
<1>2. a \in Seq(Inbound) /\ Elems(a) = Elems(w) \cup {m}
  BY <1>1, ElemsOfAppend
<1>3. Len(a) = Len(w) + 1 /\ Len(w) \in Nat /\ Len(processed) \in Nat /\ a # <<>>
  BY <1>1
<1> HIDE DEF a
<1>4. Remember(m) = IF Len(a) > ProcessedLimit THEN Tail(a) ELSE a
  BY DEF Remember, a, w
<1>5. Tail(a) \in Seq(Inbound) /\ Elems(Tail(a)) \subseteq Elems(a)
  BY <1>2, <1>3, ElemsOfTail
<1>6. Len(Tail(a)) = Len(a) - 1 /\ Len(a) \in Nat
  BY <1>2, <1>3
<1>7. ProcessedLimit \in Nat
  BY BridgeAssumption
<1>8. Elems(Remember(m)) \subseteq Elems(processed) \cup {m}
  BY <1>1, <1>2, <1>4, <1>5
<1>9. Remember(m) \in Seq(Inbound) /\ Len(Remember(m)) <= ProcessedLimit
  BY <1>1, <1>2, <1>3, <1>4, <1>5, <1>6, <1>7
<1> QED BY <1>8, <1>9
-----------------------------------------------------------------------------
(* What the parts of the actions do to the types of the variables.         *)

LEMMA FrameTypes ==
    /\ Hello \in UpFrame /\ Resume \in UpFrame /\ HelloAck \in DownFrame
    /\ \A m \in Inbound : Carry(m) \in UpFrame
    /\ \A o \in Outbound : Ack(o, "ok") \in UpFrame /\ Carry(o) \in DownFrame
    /\ \A m \in Inbound : \A s \in {"ok", "duplicate", "failed"} : Ack(m, s) \in DownFrame
BY DEF UpFrame, DownFrame

LEMMA UpTypes ==
    ASSUME TypeOK, NEW f \in UpFrame, Up(f)
    PROVE  up' \in [Conn -> Seq(UpFrame)]
<1>1. up \in [Conn -> Seq(UpFrame)]
  BY DEF TypeOK
<1>2. \A c \in Conn : Append(up[c], f) \in Seq(UpFrame)
  BY <1>1
<1> QED BY <1>1, <1>2 DEF Up

LEMMA AnswerTypes ==
    ASSUME TypeOK, NEW c \in Conn, NEW f \in DownFrame, Answer(c, <<f>>)
    PROVE  /\ down' \in [Conn -> Seq(DownFrame)]
           /\ \A d \in Conn : Elems(down'[d]) \subseteq Elems(down[d]) \cup
                                (IF d = c THEN {f} ELSE {})
<1>1. down \in [Conn -> Seq(DownFrame)]
  BY DEF TypeOK
<1>2. down[c] \o <<f>> \in Seq(DownFrame) /\ Elems(down[c] \o <<f>>) = Elems(down[c]) \cup {f}
  BY <1>1, ElemsOfAnswer
<1>3. down' = [down EXCEPT ![c] = down[c] \o <<f>>] \/ down' = down
  BY DEF Answer
<1> DEFINE q == down[c] \o <<f>>
<1> HIDE DEF q
<1>4. q \in Seq(DownFrame) /\ Elems(q) = Elems(down[c]) \cup {f}
  BY <1>2 DEF q
<1>5. down' = [down EXCEPT ![c] = q] \/ down' = down
  BY <1>3 DEF q
<1>6. down' \in [Conn -> Seq(DownFrame)]
  BY <1>1, <1>4, <1>5
<1>7. ASSUME NEW d \in Conn
      PROVE  Elems(down'[d]) \subseteq Elems(down[d]) \cup (IF d = c THEN {f} ELSE {})
  <2>1. CASE d = c
    <3>1. down'[d] = q \/ down'[d] = down[d]
      BY <1>1, <1>5, <2>1
    <3> QED BY <1>4, <2>1, <3>1
  <2>2. CASE d # c
    <3>1. down'[d] = down[d]
      BY <1>1, <1>5, <2>2
    <3> QED BY <2>2, <3>1
  <2> QED BY <2>1, <2>2
<1> QED BY <1>6, <1>7

LEMMA TakenTypes ==
    ASSUME TypeOK, NEW c \in Conn, NEW f, Taken(c, f)
    PROVE  up' \in [Conn -> Seq(UpFrame)]
<1>1. up \in [Conn -> Seq(UpFrame)] /\ up[c] # <<>>
  BY DEF TypeOK, Taken
<1>2. Tail(up[c]) \in Seq(UpFrame)
  BY <1>1
<1> QED BY <1>1, <1>2 DEF Taken

(* The client reads from its connection.                                   *)
LEMMA ReadTypes ==
    ASSUME TypeOK, phase # "down", down' = [down EXCEPT ![last] = Tail(@)],
           down[last] # <<>>
    PROVE  /\ down' \in [Conn -> Seq(DownFrame)]
           /\ \A d \in Conn : Elems(down'[d]) \subseteq Elems(down[d])
<1>1. down \in [Conn -> Seq(DownFrame)]
  BY DEF TypeOK
<1>2. CASE last \in Conn
  <2>1. Tail(down[last]) \in Seq(DownFrame) /\ Elems(Tail(down[last])) \subseteq Elems(down[last])
    BY <1>1, <1>2, ElemsOfTail
  <2>2. \A d \in Conn : down'[d] = IF d = last THEN Tail(down[last]) ELSE down[d]
    BY <1>1, <1>2
  <2>3. down' \in [Conn -> Seq(DownFrame)]
    BY <1>1, <1>2, <2>1
  <2> QED BY <2>1, <2>2, <2>3
<1>3. CASE last \notin Conn
  BY <1>1, <1>3
<1> QED BY <1>2, <1>3

LEMMA WorkTypes ==
    ASSUME TypeOK, NEW c \in Conn, NEW where \in Stage, NEW s \in Seq(Inbound \cup Outbound),
           Work(c, where, s),
           \/ where \in {"none", "idle", "ended"} /\ s = <<>>
           \/ where \in {"store", "publish"} /\ \E m \in Inbound : s = <<m>>
    PROVE  /\ stage' \in [Conn -> Stage]
           /\ todo' \in [Conn -> Seq(Inbound \cup Outbound)]
           /\ skip' \in [Conn -> SUBSET Outbound]
           /\ \A d \in Conn : HoldsItsWork(d)'
<1>1. /\ stage \in [Conn -> Stage] /\ todo \in [Conn -> Seq(Inbound \cup Outbound)]
      /\ skip \in [Conn -> SUBSET Outbound] /\ \A d \in Conn : HoldsItsWork(d)
  BY DEF TypeOK
<1>2. /\ stage'[c] = where /\ todo'[c] = s
      /\ \A d \in Conn \ {c} : stage'[d] = stage[d] /\ todo'[d] = todo[d]
  BY <1>1 DEF Work
<1>3. HoldsItsWork(c)'
  BY <1>2 DEF HoldsItsWork
<1>4. \A d \in Conn \ {c} : HoldsItsWork(d)'
  BY <1>1, <1>2 DEF HoldsItsWork
<1> QED BY <1>1, <1>3, <1>4 DEF Work

LEMMA ReplayingTypes ==
    ASSUME TypeOK, NEW c \in Conn, NEW s \in Seq(Outbound), Replaying(c, s)
    PROVE  /\ stage' \in [Conn -> Stage]
           /\ todo' \in [Conn -> Seq(Inbound \cup Outbound)]
           /\ \A d \in Conn : HoldsItsWork(d)'
<1>1. /\ stage \in [Conn -> Stage] /\ todo \in [Conn -> Seq(Inbound \cup Outbound)]
      /\ \A d \in Conn : HoldsItsWork(d)
  BY DEF TypeOK
<1>2. /\ stage'[c] = (IF s = <<>> THEN "idle" ELSE "replay") /\ todo'[c] = s
      /\ \A d \in Conn \ {c} : stage'[d] = stage[d] /\ todo'[d] = todo[d]
  BY <1>1 DEF Replaying
<1>3. HoldsItsWork(c)'
  BY <1>2 DEF HoldsItsWork
<1>4. \A d \in Conn \ {c} : HoldsItsWork(d)'
  BY <1>1, <1>2 DEF HoldsItsWork
<1>5. s \in Seq(Inbound \cup Outbound)
  OBVIOUS
<1>6. stage' \in [Conn -> Stage]
  BY <1>1 DEF Replaying, Stage
<1>7. todo' \in [Conn -> Seq(Inbound \cup Outbound)]
  BY <1>1, <1>5 DEF Replaying
<1> QED BY <1>3, <1>4, <1>6, <1>7
-----------------------------------------------------------------------------
(* The types, in parts.                                                    *)
ClientTypes == /\ phase \in Phase
               /\ resend \in Seq(Inbound)
               /\ pending \in Seq(Inbound)
               /\ caller \in [Inbound -> Caller]
               /\ dispatching \in [Outbound -> Nat]

WireTypes == /\ last \in Conn \cup {NoConn}
             /\ open \in BOOLEAN
             /\ open => phase # "down"
             /\ up \in [Conn -> Seq(UpFrame)]
             /\ down \in [Conn -> Seq(DownFrame)]

HandlerTypes == /\ stage \in [Conn -> Stage]
                /\ todo \in [Conn -> Seq(Inbound \cup Outbound)]
                /\ skip \in [Conn -> SUBSET Outbound]
                /\ \A c \in Conn : HoldsItsWork(c)

DedupTypes == /\ processed \in Seq(Inbound)
              /\ Len(processed) <= ProcessedLimit
              /\ stored \in [Inbound -> Nat]
              /\ published \in [Inbound -> Nat]

OutboxTypes == /\ active \in Conn \cup {NoConn}
               /\ backlog \in Seq(Outbound)
               /\ Len(backlog) <= BacklogSize
               /\ acked \in SUBSET Outbound
               /\ pushed \in SUBSET Outbound
               /\ gone \in SUBSET pushed

DispatchTypes == /\ dispatched \in [Outbound -> Nat]
                 /\ refused \in SUBSET Outbound
                 /\ restarts \in 0..MaxRestarts

(* A connection that was not opened yet has no handler, a client that is   *)
(* not down has opened one, and the backlog holds what was pushed.         *)
Fresh == /\ \A c \in Conn : c > last => stage[c] = "none"
         /\ phase # "down" => last # NoConn
         /\ Elems(backlog) \subseteq pushed

Inv == TypeOK /\ Fresh

LEMMA TypeParts ==
    TypeOK <=> /\ ClientTypes /\ WireTypes /\ HandlerTypes
               /\ DedupTypes /\ OutboxTypes /\ DispatchTypes
BY DEF TypeOK, ClientTypes, WireTypes, HandlerTypes, DedupTypes, OutboxTypes,
       DispatchTypes

LEMMA TypePartsNext ==
    TypeOK' <=> /\ ClientTypes' /\ WireTypes' /\ HandlerTypes'
                /\ DedupTypes' /\ OutboxTypes' /\ DispatchTypes'
BY DEF TypeOK, ClientTypes, WireTypes, HandlerTypes, DedupTypes, OutboxTypes,
       DispatchTypes

LEMMA InitInv == Init => Inv
<1> SUFFICES ASSUME Init PROVE Inv
  OBVIOUS
<1>1. ClientTypes /\ WireTypes
  <2>1. ClientTypes
    BY DEF Init, ClientTypes, Phase, Caller
  <2>2. up \in [Conn -> Seq(UpFrame)] /\ down \in [Conn -> Seq(DownFrame)]
    BY DEF Init
  <2>3. last \in Conn \cup {NoConn} /\ open \in BOOLEAN /\ (open => phase # "down")
    BY DEF Init
  <2> QED BY <2>1, <2>2, <2>3, Zenon DEF WireTypes
<1>2. HandlerTypes
  BY DEF Init, HandlerTypes, Stage, HoldsItsWork
<1>3. DedupTypes /\ OutboxTypes /\ DispatchTypes
  BY BridgeAssumption DEF Init, DedupTypes, OutboxTypes, DispatchTypes, NoConn
<1>4. Fresh
  BY DEF Init, Fresh, Elems
<1> QED BY <1>1, <1>2, <1>3, <1>4, TypeParts DEF Inv

(* What a step leaves alone keeps its types.                               *)
LEMMA UnchangedTypes ==
    ASSUME TypeOK
    PROVE  /\ UNCHANGED client => ClientTypes'
           /\ UNCHANGED handlers => HandlerTypes'
           /\ UNCHANGED dedup => DedupTypes'
           /\ UNCHANGED outbox => OutboxTypes'
           /\ UNCHANGED <<dispatches, restarts>> => DispatchTypes'
<1>1. UNCHANGED client => ClientTypes'
  BY TypeParts DEF ClientTypes, client
<1>2. UNCHANGED handlers => HandlerTypes'
  BY TypeParts DEF HandlerTypes, handlers, HoldsItsWork
<1>3. UNCHANGED dedup => DedupTypes'
  BY TypeParts DEF DedupTypes, dedup
<1>4. UNCHANGED outbox => OutboxTypes'
  BY TypeParts DEF OutboxTypes, outbox
<1>5. UNCHANGED <<dispatches, restarts>> => DispatchTypes'
  BY TypeParts DEF DispatchTypes, dispatches
<1> QED BY <1>1, <1>2, <1>3, <1>4, <1>5
-----------------------------------------------------------------------------
(* The client keeps the types.                                             *)
LEMMA ClientKeepsTypes ==
    ASSUME Inv, \/ ClientStep \/ Cut
                \/ \E m \in Inbound : SendInbound(m)
                \/ \E o \in Outbound : Dispatch(o)
    PROVE  TypeOK'
<1> USE DEF Inv
<1>1. CASE Connect
  <2>1. PICK n \in Conn : n = last' /\ n > last
    BY <1>1, BridgeAssumption DEF Connect, TypeOK, Conn, NoConn
  <2>2. <<Hello>> \in Seq(UpFrame)
    BY FrameTypes
  <2>3. up' \in [Conn -> Seq(UpFrame)]
    BY <1>1, <2>1, <2>2 DEF Connect, TypeOK
  <2>4. WireTypes'
    BY <1>1, <2>1, <2>3, TypeParts DEF Connect, WireTypes
  <2>5. stage' \in [Conn -> Stage]
    BY <1>1, <2>1 DEF Connect, TypeOK, Stage
  <2>6. \A c \in Conn : HoldsItsWork(c)'
    <3>1. stage[n] = "none" /\ todo[n] = <<>>
      BY <2>1 DEF Fresh, TypeOK, HoldsItsWork
    <3>2. HoldsItsWork(n)'
      BY <1>1, <2>1, <3>1 DEF Connect, HoldsItsWork, TypeOK
    <3>3. ASSUME NEW c \in Conn, c # n PROVE HoldsItsWork(c)'
      <4>1. stage'[c] = stage[c] /\ todo'[c] = todo[c]
        BY <1>1, <2>1, <3>3 DEF Connect, TypeOK
      <4> QED BY <4>1 DEF HoldsItsWork, TypeOK
    <3> QED BY <3>2, <3>3
  <2>7. HandlerTypes'
    BY <1>1, <2>5, <2>6, TypeParts DEF Connect, HandlerTypes
  <2>8. ClientTypes'
    BY <1>1, TypeParts DEF Connect, ClientTypes, Phase
  <2>9. DedupTypes' /\ OutboxTypes' /\ DispatchTypes'
    BY <1>1, UnchangedTypes DEF Connect
  <2> QED BY <2>4, <2>7, <2>8, <2>9, TypePartsNext
<1>2. CASE Cut
  <2>1. WireTypes'
    BY <1>2, TypeParts DEF Cut, WireTypes
  <2>2. ClientTypes' /\ HandlerTypes' /\ DedupTypes' /\ OutboxTypes' /\ DispatchTypes'
    BY <1>2, UnchangedTypes DEF Cut
  <2> QED BY <2>1, <2>2, TypePartsNext
<1>3. CASE Drop
  <2>1. WireTypes'
    <3>1. last' = last /\ up' = up /\ open' = open /\ ~open
      BY <1>3, Zenon DEF Drop
    <3>2. down' \in [Conn -> Seq(DownFrame)]
      <4>1. down \in [Conn -> Seq(DownFrame)] /\ <<>> \in Seq(DownFrame)
        BY DEF TypeOK
      <4> QED BY <1>3, <4>1 DEF Drop
    <3>3. WireTypes
      BY TypeParts
    <3> QED BY <3>1, <3>2, <3>3, Zenon DEF WireTypes
  <2>2. ClientTypes'
    BY <1>3, TypeParts DEF Drop, ClientTypes, Phase
  <2>3. HandlerTypes' /\ DedupTypes' /\ OutboxTypes' /\ DispatchTypes'
    BY <1>3, UnchangedTypes DEF Drop
  <2> QED BY <2>1, <2>2, <2>3, TypePartsNext
<1>4. CASE Handshake
  <2>1. up' \in [Conn -> Seq(UpFrame)]
    BY <1>4, FrameTypes, UpTypes DEF Handshake
  <2>2. down' \in [Conn -> Seq(DownFrame)]
    BY <1>4, ReadTypes DEF Handshake
  <2>3. WireTypes'
    BY <1>4, <2>1, <2>2, TypeParts DEF Handshake, WireTypes
  <2>4. ClientTypes'
    BY <1>4, TypeParts DEF Handshake, ClientTypes, Phase
  <2>5. HandlerTypes' /\ DedupTypes' /\ OutboxTypes' /\ DispatchTypes'
    BY <1>4, UnchangedTypes DEF Handshake
  <2> QED BY <2>3, <2>4, <2>5, TypePartsNext
<1>5. CASE StartResend
  <2>1. WireTypes'
    <3>1. /\ last' = last /\ open' = open /\ up' = up /\ down' = down
          /\ phase' = "up"
      BY <1>5, Zenon DEF StartResend, wire
    <3>2. phase' # "down"
      BY <3>1
    <3>3. WireTypes
      BY TypeParts
    <3> QED BY <3>1, <3>2, <3>3, Zenon DEF WireTypes
  <2>2. ClientTypes'
    BY <1>5, TypeParts DEF StartResend, ClientTypes, Phase
  <2>3. HandlerTypes' /\ DedupTypes' /\ OutboxTypes' /\ DispatchTypes'
    BY <1>5, UnchangedTypes DEF StartResend
  <2> QED BY <2>1, <2>2, <2>3, TypePartsNext
<1>6. CASE Resend
  <2>1. Head(resend) \in Inbound /\ Tail(resend) \in Seq(Inbound)
    BY <1>6 DEF Resend, TypeOK
  <2>2. up' \in [Conn -> Seq(UpFrame)]
    <3>1. Carry(Head(resend)) \in UpFrame
      BY <2>1, FrameTypes
    <3> QED BY <1>6, <3>1, UpTypes DEF Resend
  <2>3. WireTypes'
    BY <1>6, <2>2, TypeParts DEF Resend, WireTypes
  <2>4. ClientTypes'
    BY <1>6, <2>1, TypeParts DEF Resend, ClientTypes
  <2>5. HandlerTypes' /\ DedupTypes' /\ OutboxTypes' /\ DispatchTypes'
    BY <1>6, UnchangedTypes DEF Resend
  <2> QED BY <2>3, <2>4, <2>5, TypePartsNext
<1>7. ASSUME NEW m \in Inbound, NEW s \in {"ok", "duplicate", "failed"}, ReceiveAck(m, s)
      PROVE  TypeOK'
  <2>1. down' \in [Conn -> Seq(DownFrame)]
    BY <1>7, ReadTypes DEF ReceiveAck, Receives
  <2>2. WireTypes'
    BY <1>7, <2>1, TypeParts DEF ReceiveAck, WireTypes
  <2>3. pending' \in Seq(Inbound)
    <3>1. pending \in Seq(Inbound)
      BY DEF TypeOK
    <3>2. Without(pending, m) \in Seq(Inbound)
      BY <3>1, ElemsOfWithout
    <3> QED BY <1>7, <3>1, <3>2 DEF ReceiveAck
  <2>4. caller' \in [Inbound -> Caller]
    BY <1>7 DEF ReceiveAck, TypeOK, Caller
  <2>5. ClientTypes'
    BY <1>7, <2>3, <2>4, TypeParts DEF ReceiveAck, ClientTypes
  <2>6. HandlerTypes' /\ DedupTypes' /\ OutboxTypes' /\ DispatchTypes'
    BY <1>7, UnchangedTypes DEF ReceiveAck
  <2> QED BY <2>2, <2>5, <2>6, TypePartsNext
<1>8. ASSUME NEW o \in Outbound, ReceiveOutbound(o) PROVE TypeOK'
  <2>1. down' \in [Conn -> Seq(DownFrame)]
    BY <1>8, ReadTypes DEF ReceiveOutbound, Receives
  <2>2. WireTypes'
    BY <1>8, <2>1, TypeParts DEF ReceiveOutbound, WireTypes
  <2>3. ClientTypes'
    BY <1>8, TypeParts DEF ReceiveOutbound, ClientTypes
  <2>4. HandlerTypes' /\ DedupTypes' /\ OutboxTypes' /\ DispatchTypes'
    BY <1>8, UnchangedTypes DEF ReceiveOutbound
  <2> QED BY <2>2, <2>3, <2>4, TypePartsNext
<1>9. ASSUME NEW m \in Inbound, SendInbound(m) PROVE TypeOK'
  <2>1. up' \in [Conn -> Seq(UpFrame)]
    <3>1. Carry(m) \in UpFrame
      BY FrameTypes
    <3> QED BY <1>9, <3>1, UpTypes DEF SendInbound
  <2>2. WireTypes'
    BY <1>9, <2>1, TypeParts DEF SendInbound, WireTypes
  <2>3. caller' \in [Inbound -> Caller]
    BY <1>9 DEF SendInbound, TypeOK, Caller
  <2>4. ClientTypes'
    BY <1>9, <2>3, TypeParts DEF SendInbound, ClientTypes
  <2>5. HandlerTypes' /\ DedupTypes' /\ OutboxTypes' /\ DispatchTypes'
    BY <1>9, UnchangedTypes DEF SendInbound
  <2> QED BY <2>2, <2>4, <2>5, TypePartsNext
<1>10. ASSUME NEW o \in Outbound, Dispatch(o) PROVE TypeOK'
  <2>1. up' \in [Conn -> Seq(UpFrame)]
    <3>1. Ack(o, "ok") \in UpFrame
      BY FrameTypes
    <3> QED BY <1>10, <3>1, UpTypes DEF Dispatch, TypeOK
  <2>2. WireTypes'
    BY <1>10, <2>1, TypeParts DEF Dispatch, WireTypes
  <2>3. ClientTypes'
    <3>1. dispatching' \in [Outbound -> Nat]
      BY <1>10, SMTT(20) DEF Dispatch, TypeOK
    <3> QED BY <1>10, <3>1, TypeParts DEF Dispatch, ClientTypes
  <2>4. DispatchTypes'
    <3>1. \/ dispatched' = [dispatched EXCEPT ![o] = @ + 1]
          \/ dispatched' = dispatched
      BY <1>10 DEF Dispatch
    <3>2. refused' \in SUBSET Outbound /\ restarts' = restarts
      BY <1>10 DEF Dispatch, TypeOK
    <3>3. dispatched' \in [Outbound -> Nat]
      <4>1. dispatched \in [Outbound -> Nat]
        BY DEF TypeOK
      <4>2. dispatched[o] + 1 \in Nat
        BY <4>1
      <4> QED BY <3>1, <4>1, <4>2
    <3> QED BY <3>2, <3>3, TypeParts DEF DispatchTypes
  <2>5. HandlerTypes' /\ DedupTypes' /\ OutboxTypes'
    BY <1>10, UnchangedTypes DEF Dispatch
  <2> QED BY <2>2, <2>3, <2>4, <2>5, TypePartsNext
<1> QED BY <1>1, <1>2, <1>3, <1>4, <1>5, <1>6, <1>7, <1>8, <1>9, <1>10 DEF ClientStep
-----------------------------------------------------------------------------
(* The server keeps the types.                                             *)
LEMMA WireKept ==
    ASSUME TypeOK, phase' = phase, last' = last, open' = open,
           up' \in [Conn -> Seq(UpFrame)], down' \in [Conn -> Seq(DownFrame)]
    PROVE  WireTypes'
<1>1. WireTypes
  BY TypeParts
<1> QED BY <1>1, Zenon DEF WireTypes

LEMMA HandlerKeepsTypes ==
    ASSUME Inv, NEW c \in Conn, Handler(c)
    PROVE  TypeOK'
<1> USE DEF Inv
<1>0. up \in [Conn -> Seq(UpFrame)] /\ down \in [Conn -> Seq(DownFrame)]
  BY DEF TypeOK
<1>a. <<>> \in Seq(Inbound \cup Outbound)
  OBVIOUS
<1>1. CASE ServeHello(c)
  <2>1. up' \in [Conn -> Seq(UpFrame)]
    BY <1>1, TakenTypes DEF ServeHello
  <2>2. down' \in [Conn -> Seq(DownFrame)]
    BY <1>1, FrameTypes, AnswerTypes DEF ServeHello
  <2>3. WireTypes'
    BY <1>1, <2>1, <2>2, WireKept DEF ServeHello, client
  <2>4. OutboxTypes'
    BY <1>1, TypeParts DEF ServeHello, OutboxTypes
  <2>5. ClientTypes' /\ HandlerTypes' /\ DedupTypes' /\ DispatchTypes'
    BY <1>1, UnchangedTypes DEF ServeHello
  <2> QED BY <2>3, <2>4, <2>5, TypePartsNext
<1>2. CASE ServeResume(c)
  <2>1. up' \in [Conn -> Seq(UpFrame)]
    BY <1>2, TakenTypes DEF ServeResume
  <2>2. WireTypes'
    BY <1>0, <1>2, <2>1, WireKept DEF ServeResume, client
  <2>3. backlog \in Seq(Outbound) /\ Replaying(c, backlog)
    BY <1>2 DEF ServeResume, TypeOK
  <2>4. skip' \in [Conn -> SUBSET Outbound]
    BY <1>2 DEF ServeResume, TypeOK
  <2>5. HandlerTypes'
    BY <2>3, <2>4, ReplayingTypes DEF HandlerTypes
  <2>6. ClientTypes' /\ DedupTypes' /\ OutboxTypes' /\ DispatchTypes'
    BY <1>2, UnchangedTypes DEF ServeResume
  <2> QED BY <2>2, <2>5, <2>6, TypePartsNext
<1>3. CASE Replay(c)
  <2>1. todo[c] \in Seq(Outbound) /\ todo[c] # <<>>
    BY <1>3 DEF Replay, TypeOK, HoldsItsWork
  <2>2. Head(todo[c]) \in Outbound /\ Tail(todo[c]) \in Seq(Outbound)
    BY <2>1
  <2>3. down' \in [Conn -> Seq(DownFrame)]
    <3>1. Carry(Head(todo[c])) \in DownFrame
      BY <2>2, FrameTypes
    <3>2. down' = down \/ Answer(c, <<Carry(Head(todo[c]))>>)
      BY <1>3 DEF Replay
    <3> QED BY <1>0, <3>1, <3>2, AnswerTypes
  <2>4. WireTypes'
    BY <1>0, <1>3, <2>3, WireKept DEF Replay, client
  <2>5. skip' \in [Conn -> SUBSET Outbound]
    BY <1>3 DEF Replay, TypeOK
  <2>6. HandlerTypes'
    <3>1. Replaying(c, Tail(todo[c]))
      BY <1>3 DEF Replay
    <3> QED BY <2>2, <2>5, <3>1, ReplayingTypes DEF HandlerTypes
  <2>7. ClientTypes' /\ DedupTypes' /\ OutboxTypes' /\ DispatchTypes'
    BY <1>3, UnchangedTypes DEF Replay
  <2> QED BY <2>4, <2>6, <2>7, TypePartsNext
<1>4. ASSUME NEW o \in Outbound, ServeAck(c, o) PROVE TypeOK'
  <2>1. up' \in [Conn -> Seq(UpFrame)]
    BY <1>4, TakenTypes DEF ServeAck
  <2>2. WireTypes'
    BY <1>0, <1>4, <2>1, WireKept DEF ServeAck, client
  <2>3. OutboxTypes'
    BY <1>4, TypeParts DEF ServeAck, OutboxTypes
  <2>4. ClientTypes' /\ HandlerTypes' /\ DedupTypes' /\ DispatchTypes'
    BY <1>4, UnchangedTypes DEF ServeAck
  <2> QED BY <2>2, <2>3, <2>4, TypePartsNext
<1>5. ASSUME NEW m \in Inbound, ServeInbound(c, m) PROVE TypeOK'
  <2>1. up' \in [Conn -> Seq(UpFrame)]
    BY <1>5, TakenTypes DEF ServeInbound
  <2>2. down' \in [Conn -> Seq(DownFrame)]
    <3>1. Ack(m, "duplicate") \in DownFrame
      BY FrameTypes
    <3>2. down' = down \/ Answer(c, <<Ack(m, "duplicate")>>)
      BY <1>5 DEF ServeInbound
    <3> QED BY <1>0, <3>1, <3>2, AnswerTypes
  <2>3. WireTypes'
    BY <1>5, <2>1, <2>2, WireKept DEF ServeInbound, client
  <2>4. HandlerTypes'
    <3>1. UNCHANGED handlers \/ Work(c, "store", <<m>>)
      BY <1>5 DEF ServeInbound
    <3>2. ASSUME Work(c, "store", <<m>>) PROVE HandlerTypes'
      <4>1. <<m>> \in Seq(Inbound \cup Outbound) /\ "store" \in Stage
        BY DEF Stage
      <4> QED BY <3>2, <4>1, WorkTypes DEF HandlerTypes
    <3> QED BY <3>1, <3>2, UnchangedTypes
  <2>5. ClientTypes' /\ DedupTypes' /\ OutboxTypes' /\ DispatchTypes'
    BY <1>5, UnchangedTypes DEF ServeInbound
  <2> QED BY <2>3, <2>4, <2>5, TypePartsNext
<1>6. CASE Store(c)
  <2>1. PICK m \in Inbound : todo[c] = <<m>>
    BY <1>6 DEF Store, TypeOK, HoldsItsWork
  <2>2. WireTypes'
    BY <1>0, <1>6, WireKept DEF Store, client, wire
  <2>3. Work(c, "publish", <<m>>)
    BY <1>6, <2>1 DEF Store, Work, TypeOK
  <2>4. HandlerTypes'
    <3>1. <<m>> \in Seq(Inbound \cup Outbound) /\ "publish" \in Stage
      BY DEF Stage
    <3> QED BY <2>3, <3>1, WorkTypes DEF HandlerTypes
  <2>5. DedupTypes'
    <3>1. Head(todo[c]) = m
      BY <2>1
    <3>2. stored' = [stored EXCEPT ![m] = @ + 1]
      BY <1>6, <3>1 DEF Store
    <3>3. stored' \in [Inbound -> Nat]
      BY <3>2, SMTT(20) DEF TypeOK
    <3> QED BY <1>6, <3>3, TypeParts DEF Store, DedupTypes
  <2>6. ClientTypes' /\ OutboxTypes' /\ DispatchTypes'
    BY <1>6, UnchangedTypes DEF Store
  <2> QED BY <2>2, <2>4, <2>5, <2>6, TypePartsNext
<1>7. CASE Reject(c)
  <2>1. PICK m \in Inbound : todo[c] = <<m>>
    BY <1>7 DEF Reject, TypeOK, HoldsItsWork
  <2>2. Ack(m, "failed") \in DownFrame /\ Head(todo[c]) = m
    BY <2>1, FrameTypes
  <2>3. down' \in [Conn -> Seq(DownFrame)]
    BY <1>7, <2>2, AnswerTypes DEF Reject
  <2>4. WireTypes'
    BY <1>0, <1>7, <2>3, WireKept DEF Reject, client
  <2>5. HandlerTypes'
    BY <1>a, <1>7, WorkTypes DEF Reject, HandlerTypes, Stage
  <2>6. ClientTypes' /\ DedupTypes' /\ OutboxTypes' /\ DispatchTypes'
    BY <1>7, UnchangedTypes DEF Reject
  <2> QED BY <2>4, <2>5, <2>6, TypePartsNext
<1>8. CASE Publish(c)
  <2>1. PICK m \in Inbound : todo[c] = <<m>>
    BY <1>8 DEF Publish, TypeOK, HoldsItsWork
  <2>2. Ack(m, "ok") \in DownFrame /\ Head(todo[c]) = m
    BY <2>1, FrameTypes
  <2>3. down' \in [Conn -> Seq(DownFrame)]
    BY <1>8, <2>2, AnswerTypes DEF Publish
  <2>4. WireTypes'
    BY <1>0, <1>8, <2>3, WireKept DEF Publish, client
  <2>5. HandlerTypes'
    BY <1>a, <1>8, WorkTypes DEF Publish, HandlerTypes, Stage
  <2>6. DedupTypes'
    <3>1. processed' = Remember(m) /\ published' = [published EXCEPT ![m] = @ + 1]
      BY <1>8, <2>2 DEF Publish
    <3>2. processed' \in Seq(Inbound) /\ Len(processed') <= ProcessedLimit
      BY <3>1, RememberOne DEF TypeOK
    <3>3. published' \in [Inbound -> Nat]
      BY <3>1, SMTT(20) DEF TypeOK
    <3> QED BY <1>8, <3>2, <3>3, TypeParts DEF Publish, DedupTypes
  <2>7. ClientTypes' /\ OutboxTypes' /\ DispatchTypes'
    BY <1>8, UnchangedTypes DEF Publish
  <2> QED BY <2>4, <2>5, <2>6, <2>7, TypePartsNext
<1>9. CASE Disconnect(c)
  <2>1. up' \in [Conn -> Seq(UpFrame)]
    <3>1. <<>> \in Seq(UpFrame)
      OBVIOUS
    <3> QED BY <1>0, <1>9, <3>1 DEF Disconnect
  <2>2. WireTypes'
    BY <1>0, <1>9, <2>1, WireKept DEF Disconnect, client
  <2>3. HandlerTypes'
    BY <1>a, <1>9, WorkTypes DEF Disconnect, HandlerTypes, Stage
  <2>4. OutboxTypes'
    BY <1>9, TypeParts DEF Disconnect, OutboxTypes
  <2>5. ClientTypes' /\ DedupTypes' /\ DispatchTypes'
    BY <1>9, UnchangedTypes DEF Disconnect
  <2> QED BY <2>2, <2>3, <2>4, <2>5, TypePartsNext
<1> QED BY <1>1, <1>2, <1>3, <1>4, <1>5, <1>6, <1>7, <1>8, <1>9 DEF Handler

(* The backlog keeps to its size, and so does what it gives up.            *)
LEMMA KeepTypes ==
    ASSUME Inv, NEW o \in Outbound, Keep(o), pushed' = pushed \cup {o}
    PROVE  /\ backlog' \in Seq(Outbound) /\ Len(backlog') <= BacklogSize
           /\ Elems(backlog') \subseteq pushed'
           /\ gone' \in SUBSET pushed'
<1>1. /\ backlog \in Seq(Outbound) /\ Len(backlog) <= BacklogSize
      /\ Elems(backlog) \subseteq pushed /\ gone \in SUBSET pushed
      /\ BacklogSize \in Nat \ {0}
  BY BridgeAssumption DEF Inv, TypeOK, Fresh
<1>2. CASE Len(backlog) = BacklogSize
  <2>1. backlog # <<>>
    BY <1>1, <1>2
  <2> DEFINE b == Tail(backlog)
  <2>2. b \in Seq(Outbound) /\ Elems(b) \subseteq Elems(backlog)
        /\ Head(backlog) \in Elems(backlog)
    BY <1>1, <2>1, ElemsOfTail
  <2>3. Len(b) = BacklogSize - 1
    BY <1>1, <1>2, <2>1
  <2>4. backlog' = Append(b, o) /\ gone' = gone \cup ({Head(backlog)} \ acked)
    BY <1>2 DEF Keep
  <2> HIDE DEF b
  <2>5. backlog' \in Seq(Outbound) /\ Elems(backlog') = Elems(b) \cup {o}
    BY <2>2, <2>4, ElemsOfAppend
  <2>6. Len(backlog') = Len(b) + 1
    BY <2>2, <2>4
  <2>7. Len(backlog') <= BacklogSize
    BY <1>1, <2>3, <2>6
  <2> QED BY <1>1, <2>2, <2>4, <2>5, <2>7
<1>3. CASE Len(backlog) # BacklogSize
  <2>1. backlog' = Append(backlog, o) /\ gone' = gone
    BY <1>3 DEF Keep
  <2>2. backlog' \in Seq(Outbound) /\ Elems(backlog') = Elems(backlog) \cup {o}
    BY <1>1, <2>1, ElemsOfAppend
  <2>3. Len(backlog') = Len(backlog) + 1 /\ Len(backlog) \in Nat
    BY <1>1, <2>1
  <2> QED BY <1>1, <1>3, <2>1, <2>2, <2>3
<1> QED BY <1>2, <1>3

LEMMA PushKeepsTypes ==
    ASSUME Inv, NEW o \in Outbound, PushOutbound(o)
    PROVE  TypeOK'
<1> USE DEF Inv
<1>1. down' \in [Conn -> Seq(DownFrame)]
  <2>1. active \in Conn \cup {NoConn} /\ down \in [Conn -> Seq(DownFrame)]
    BY DEF TypeOK
  <2>2. Carry(o) \in DownFrame
    BY FrameTypes
  <2>3. down' = down \/ (active \in Conn /\ Answer(active, <<Carry(o)>>))
    BY <2>1 DEF PushOutbound
  <2> QED BY <2>1, <2>2, <2>3, AnswerTypes
<1>2. WireTypes'
  BY <1>1, WireKept DEF PushOutbound, TypeOK, client
<1>3. OutboxTypes'
  <2>1. Keep(o) /\ pushed' = pushed \cup {o} /\ active' = active /\ acked' = acked
    BY DEF PushOutbound
  <2> QED BY <2>1, KeepTypes, TypeParts DEF OutboxTypes
<1>4. ClientTypes' /\ HandlerTypes' /\ DedupTypes' /\ DispatchTypes'
  BY UnchangedTypes DEF PushOutbound
<1> QED BY <1>2, <1>3, <1>4, TypePartsNext

LEMMA RestartKeepsTypes ==
    ASSUME Inv, Restart
    PROVE  TypeOK'
<1> USE DEF Inv
<1>1. WireTypes'
  <2>1. last' = last /\ open' = FALSE /\ down' = down /\ up' = [c \in Conn |-> <<>>]
    BY DEF Restart
  <2>2. up' \in [Conn -> Seq(UpFrame)]
    BY <2>1
  <2>3. WireTypes
    BY TypeParts
  <2> QED BY <2>1, <2>2, <2>3, Zenon DEF WireTypes
<1>2. HandlerTypes'
  <2>1. /\ stage' = [c \in Conn |-> IF stage[c] = "none" THEN "none" ELSE "ended"]
        /\ todo' = [c \in Conn |-> <<>>] /\ skip' = [c \in Conn |-> {}]
    BY DEF Restart
  <2>2. stage' \in [Conn -> Stage] /\ skip' \in [Conn -> SUBSET Outbound]
    BY <2>1 DEF Stage
  <2>3. todo' \in [Conn -> Seq(Inbound \cup Outbound)]
    BY <2>1
  <2>4. \A c \in Conn : HoldsItsWork(c)'
    BY <2>1 DEF HoldsItsWork
  <2> QED BY <2>2, <2>3, <2>4 DEF HandlerTypes
<1>3. DedupTypes'
  BY BridgeAssumption, TypeParts DEF Restart, DedupTypes
<1>4. OutboxTypes'
  <2>1. Unacked \subseteq pushed
    BY DEF Unacked, Fresh
  <2> QED BY <2>1, BridgeAssumption, TypeParts DEF Restart, OutboxTypes
<1>5. DispatchTypes'
  BY BridgeAssumption, TypeParts DEF Restart, DispatchTypes, dispatches
<1>6. ClientTypes'
  BY UnchangedTypes DEF Restart
<1> QED BY <1>1, <1>2, <1>3, <1>4, <1>5, <1>6, TypePartsNext

LEMMA NextKeepsFresh ==
    ASSUME Inv, Next
    PROVE  Fresh'
<1> USE DEF Inv
<1>0. /\ stage \in [Conn -> Stage] /\ last \in Nat
      /\ \A c \in Conn : c \in Nat /\ c # NoConn
      /\ \A c \in Conn : c > last => stage[c] = "none"
  BY DEF TypeOK, Conn, NoConn, Fresh
<1> DEFINE Opened == phase' # "down" => last' # NoConn
           Handled == \A c \in Conn : c > last' => stage'[c] = "none"
<1>1. CASE ClientStep
  <2>1. CASE Connect
    <3>1. last' = last + 1
      BY <2>1 DEF Connect
    <3>2. PICK n \in Nat : n = last' /\ n > last /\ n # NoConn
      BY <1>0, <3>1 DEF NoConn
    <3>3. stage' = [stage EXCEPT ![n] = "idle"] /\ UNCHANGED <<backlog, pushed>>
      BY <2>1, <3>2 DEF Connect, outbox
    <3>4. Handled
      BY <1>0, <3>2, <3>3
    <3> QED BY <3>2, <3>3, <3>4 DEF Fresh, Elems
  <2>2. CASE ~Connect
    <3>1. UNCHANGED <<last, stage, backlog, pushed>>
      BY <1>1, <2>2
         DEF ClientStep, Drop, Handshake, StartResend, Resend, ReceiveAck, ReceiveOutbound,
             outbox, handlers, wire
    <3>2. phase' # "down" => phase # "down"
      BY <1>1, <2>2
         DEF ClientStep, Drop, Handshake, StartResend, Resend, ReceiveAck, ReceiveOutbound
    <3> QED BY <3>1, <3>2 DEF Fresh, Elems
  <2> QED BY <2>1, <2>2
<1>2. CASE \/ Cut
           \/ \E m \in Inbound : SendInbound(m)
           \/ \E o \in Outbound : Dispatch(o)
  <2>1. UNCHANGED <<last, stage, phase, backlog, pushed>>
    BY <1>2 DEF Cut, SendInbound, Dispatch, client, outbox, handlers
  <2> QED BY <2>1 DEF Fresh, Elems
<1>3. ASSUME NEW o \in Outbound, PushOutbound(o) PROVE Fresh'
  <2>1. UNCHANGED <<last, stage, phase>>
    BY <1>3 DEF PushOutbound, client, handlers
  <2>2. Elems(backlog') \subseteq pushed'
    BY <1>3, KeepTypes DEF PushOutbound
  <2> QED BY <2>1, <2>2 DEF Fresh, Elems
<1>4. ASSUME NEW c \in Conn, Handler(c) PROVE Fresh'
  <2>1. UNCHANGED <<last, phase, backlog, pushed>>
    BY <1>4 DEF Handler, ServeHello, ServeResume, Replay, ServeInbound, ServeAck, Store,
                Reject, Publish, Disconnect, client, wire, outbox
  <2>2. stage[c] # "none"
    BY <1>4 DEF Handler, ServeHello, ServeResume, Replay, ServeInbound, ServeAck, Store,
                Reject, Publish, Disconnect, Taken
  <2>3. \A d \in Conn \ {c} : stage'[d] = stage[d]
    BY <1>0, <1>4 DEF Handler, ServeHello, ServeResume, Replay, ServeInbound, ServeAck, Store,
                Reject, Publish, Disconnect, Work, Replaying, handlers
  <2>4. Handled
    BY <1>0, <2>1, <2>2, <2>3
  <2> QED BY <2>1, <2>4 DEF Fresh, Elems
<1>5. CASE Restart
  <2>1. UNCHANGED <<last, phase, pushed>> /\ backlog' = <<>>
    BY <1>5 DEF Restart, client
  <2>2. Handled
    BY <1>0, <1>5, <2>1 DEF Restart
  <2>3. Elems(backlog') = {}
    BY <2>1 DEF Elems
  <2> QED BY <2>1, <2>2, <2>3 DEF Fresh, Elems
<1> QED BY <1>1, <1>2, <1>3, <1>4, <1>5 DEF Next

(* The inductive invariant.                                                *)
LEMMA NextKeepsInv ==
    ASSUME Inv, [Next]_vars
    PROVE  Inv'
<1>1. CASE Next
  <2>1. TypeOK'
    BY <1>1, ClientKeepsTypes, HandlerKeepsTypes, PushKeepsTypes, RestartKeepsTypes DEF Next
  <2> QED BY <1>1, <2>1, NextKeepsFresh DEF Inv
<1>2. CASE UNCHANGED vars
  <2>1. /\ UNCHANGED <<client, wire, dedup, outbox, handlers, dispatches>>
        /\ restarts' = restarts
    BY <1>2, Zenon DEF vars
  <2>2. /\ phase' = phase /\ last' = last /\ open' = open /\ up' = up /\ down' = down
        /\ stage' = stage /\ backlog' = backlog /\ pushed' = pushed
    BY <2>1, Zenon DEF client, wire, outbox, handlers
  <2>3. WireTypes'
    BY <2>2, WireKept DEF Inv, TypeOK
  <2>4. TypeOK'
    BY <2>1, <2>3, UnchangedTypes, TypePartsNext DEF Inv
  <2>5. Fresh'
    BY <2>2 DEF Inv, Fresh, Elems
  <2> QED BY <2>4, <2>5 DEF Inv
<1> QED BY <1>1, <1>2

(* The variables of the bridge keep to their types: the memory of both     *)
(* sides is bounded (_RecentFrameSet and the outbound backlog), and the    *)
(* handler of a connection holds what its next step needs.                 *)
THEOREM BridgeTypesHold == SafeSpec => []TypeOK
<1>1. Inv /\ [Next]_vars => Inv'
  BY NextKeepsInv
<1>2. Inv => TypeOK
  BY DEF Inv
<1> QED BY InitInv, <1>1, <1>2, PTL DEF SafeSpec
-----------------------------------------------------------------------------
(* Whoever takes m for submitted - its caller, the frames the server       *)
(* remembers, a handler that has stored it, an answer under way - is       *)
(* right.                                                                  *)
Told(m) == caller[m] = "ok"
Remembered(m) == m \in Elems(processed)
HeldStored(m) == \E c \in Conn : stage[c] = "publish" /\ todo[c] = <<m>>
Answered(m) == \E c \in Conn : \/ Ack(m, "ok") \in Elems(down[c])
                               \/ Ack(m, "duplicate") \in Elems(down[c])
Known(m) == Told(m) \/ Remembered(m) \/ HeldStored(m) \/ Answered(m)

KnownIsStored == \A m \in Inbound : Known(m) => stored[m] > 0

LEMMA FramesDiffer ==
    /\ \A m, s : Ack(m, s) # HelloAck
    /\ \A m, s, o : Ack(m, s) # Carry(o)
    /\ \A m, n, s, r : Ack(m, s) = Ack(n, r) => m = n /\ s = r
<1>1. ASSUME NEW m, NEW s PROVE Ack(m, s) # HelloAck
  <2>1. Ack(m, s).type = "ack" /\ HelloAck.type = "hello_ack"
    BY DEF Ack, HelloAck
  <2> QED BY <2>1
<1>2. ASSUME NEW m, NEW s, NEW o PROVE Ack(m, s) # Carry(o)
  <2>1. Ack(m, s).type = "ack" /\ Carry(o).type = "message"
    BY DEF Ack, Carry
  <2> QED BY <2>1
<1>3. ASSUME NEW m, NEW n, NEW s, NEW r, Ack(m, s) = Ack(n, r)
      PROVE  m = n /\ s = r
  <2>1. Ack(m, s).id = m /\ Ack(n, r).id = n /\ Ack(m, s).status = s /\ Ack(n, r).status = r
    BY DEF Ack
  <2> QED BY <1>3, <2>1
<1> QED BY <1>1, <1>2, <1>3

(* A step of which nobody learns anything.                                 *)
LEMMA NothingLearnt ==
    ASSUME NEW m \in Inbound,
           Told(m)' => Known(m),
           Elems(processed)' \subseteq Elems(processed),
           HeldStored(m)' => HeldStored(m),
           Answered(m)' => Answered(m)
    PROVE  Known(m)' => Known(m)
BY DEF Known, Remembered

(* A handler that goes on with other work, or that sends another answer.   *)
LEMMA HeldKept ==
    ASSUME TypeOK, NEW m \in Inbound, NEW c \in Conn, NEW where, where # "publish", NEW s,
           stage' = [stage EXCEPT ![c] = where], todo' = [todo EXCEPT ![c] = s]
    PROVE  HeldStored(m)' => HeldStored(m)
<1>1. stage'[c] = where /\ \A d \in Conn \ {c} : stage'[d] = stage[d] /\ todo'[d] = todo[d]
  BY DEF TypeOK
<1> QED BY <1>1 DEF HeldStored

LEMMA AnsweredKept ==
    ASSUME TypeOK, NEW m \in Inbound, NEW c \in Conn, NEW f \in DownFrame, Answer(c, <<f>>),
           f # Ack(m, "ok"), f # Ack(m, "duplicate")
    PROVE  Answered(m)' => Answered(m)
<1>1. \A d \in Conn : Elems(down'[d]) \subseteq Elems(down[d]) \cup {f}
  BY AnswerTypes
<1>2. \A d \in Conn : /\ Ack(m, "ok") \in Elems(down'[d]) => Ack(m, "ok") \in Elems(down[d])
                      /\ Ack(m, "duplicate") \in Elems(down'[d])
                            => Ack(m, "duplicate") \in Elems(down[d])
  BY <1>1
<1>3. Answered(m)' <=> \E d \in Conn : \/ Ack(m, "ok") \in Elems(down'[d])
                                       \/ Ack(m, "duplicate") \in Elems(down'[d])
  BY DEF Answered, Elems, Ack
<1> QED BY <1>2, <1>3 DEF Answered

LEMMA ReadAnswered ==
    ASSUME TypeOK, NEW m \in Inbound,
           \A d \in Conn : Elems(down'[d]) \subseteq Elems(down[d])
    PROVE  Answered(m)' => Answered(m)
<1>1. Answered(m)' <=> \E d \in Conn : \/ Ack(m, "ok") \in Elems(down'[d])
                                       \/ Ack(m, "duplicate") \in Elems(down'[d])
  BY DEF Answered, Elems, Ack
<1> QED BY <1>1 DEF Answered

LEMMA ClientLearns ==
    ASSUME Inv, NEW m \in Inbound,
           \/ ClientStep \/ Cut
           \/ \E n \in Inbound : SendInbound(n)
           \/ \E o \in Outbound : Dispatch(o)
    PROVE  (Known(m)' => Known(m)) /\ stored' = stored
<1> USE DEF Inv
<1>0. /\ stage \in [Conn -> Stage] /\ caller \in [Inbound -> Caller]
      /\ down \in [Conn -> Seq(DownFrame)]
  BY DEF TypeOK
<1>1. UNCHANGED <<processed, stored>>
  BY DEF ClientStep, Connect, Cut, Drop, Handshake, StartResend, Resend, ReceiveAck,
         ReceiveOutbound, SendInbound, Dispatch, dedup
<1>2. Elems(processed)' \subseteq Elems(processed)
  BY <1>1 DEF Elems
<1>3. HeldStored(m)' => HeldStored(m)
  <2>1. CASE Connect
    <3>1. PICK n \in Conn : n = last' /\ n > last
      BY <2>1, BridgeAssumption DEF Connect, TypeOK, Conn, NoConn
    <3>2. stage' = [stage EXCEPT ![n] = "idle"] /\ todo' = todo
      BY <2>1, <3>1 DEF Connect
    <3> QED BY <1>0, <3>2 DEF HeldStored
  <2>2. CASE ~Connect
    <3>1. UNCHANGED <<stage, todo>>
      BY <2>2 DEF ClientStep, Cut, Drop, Handshake, StartResend, Resend, ReceiveAck,
                  ReceiveOutbound, SendInbound, Dispatch, handlers
    <3> QED BY <3>1 DEF HeldStored
  <2> QED BY <2>1, <2>2
<1>4. Answered(m)' => Answered(m)
  <2>1. CASE Drop
    <3>1. down' = [down EXCEPT ![last] = <<>>]
      BY <2>1 DEF Drop
    <3>2. \A d \in Conn : down'[d] = down[d] \/ down'[d] = <<>>
      BY <1>0, <3>1
    <3>3. \A d \in Conn : Elems(down'[d]) \subseteq Elems(down[d])
      BY <3>2 DEF Elems
    <3> QED BY <3>3, ReadAnswered
  <2>2. CASE phase # "down" /\ down[last] # <<>> /\ down' = [down EXCEPT ![last] = Tail(@)]
    BY <2>2, ReadTypes, ReadAnswered
  <2>3. CASE down' = down
    BY <2>3 DEF Answered, Elems, Ack
  <2> QED BY <2>1, <2>2, <2>3
          DEF ClientStep, Connect, Cut, Handshake, StartResend, Resend, ReceiveAck,
              ReceiveOutbound, Receives, SendInbound, Dispatch, wire
<1>5. Told(m)' => Known(m)
  <2>1. ASSUME NEW n \in Inbound, NEW s \in {"ok", "duplicate", "failed"}, ReceiveAck(n, s),
               Told(m)', ~Told(m)
        PROVE  Answered(m)
    <3>1. n = m /\ s # "failed"
      BY <1>0, <2>1 DEF ReceiveAck, Told
    <3>2. phase = "up" /\ down[last] # <<>> /\ Head(down[last]) = Ack(m, s)
      BY <2>1, <3>1 DEF ReceiveAck, Receives
    <3>3. last \in Conn
      BY <3>2 DEF Fresh, TypeOK
    <3>4. Ack(m, s) \in Elems(down[last])
      BY <1>0, <3>2, <3>3, ElemsOfTail
    <3> QED BY <3>1, <3>3, <3>4 DEF Answered
  <2>2. ASSUME NEW n \in Inbound, SendInbound(n), Told(m)' PROVE Told(m)
    BY <1>0, <2>2 DEF SendInbound, Told
  <2>3. CASE caller' = caller
    BY <2>3 DEF Told, Known
  <2> QED BY <2>1, <2>2, <2>3
          DEF Known, ClientStep, Connect, Drop, Cut, Handshake, StartResend, Resend,
              ReceiveOutbound, Dispatch, client
<1> QED BY <1>1, <1>2, <1>3, <1>4, <1>5, NothingLearnt

LEMMA HandlerLearns ==
    ASSUME Inv, KnownIsStored, NEW c \in Conn, Handler(c), NEW m \in Inbound, Known(m)'
    PROVE  stored'[m] > 0
<1> USE DEF Inv
<1>0. /\ stage \in [Conn -> Stage] /\ todo \in [Conn -> Seq(Inbound \cup Outbound)]
      /\ down \in [Conn -> Seq(DownFrame)] /\ stored \in [Inbound -> Nat]
      /\ processed \in Seq(Inbound)
  BY DEF TypeOK
<1>1. SUFFICES ASSUME ~Known(m) PROVE stored'[m] > 0
  <2>1. Known(m) => stored[m] > 0
    BY DEF KnownIsStored
  <2>2. stored'[m] >= stored[m]
    <3>1. CASE Store(c)
      <4>1. PICK n \in Inbound : todo[c] = <<n>>
        BY <3>1 DEF Store, TypeOK, HoldsItsWork
      <4>2. Head(todo[c]) = n
        BY <4>1
      <4>3. stored' = [stored EXCEPT ![n] = @ + 1]
        BY <3>1, <4>2 DEF Store
      <4> QED BY <1>0, <4>3
    <3>2. CASE ~Store(c)
      <4>1. stored' = stored
        BY <3>2 DEF Handler, ServeHello, ServeResume, Replay, ServeInbound, ServeAck,
                    Reject, Publish, Disconnect, dedup
      <4> QED BY <1>0, <4>1
    <3> QED BY <3>1, <3>2
  <2>3. stored'[m] \in Nat /\ stored[m] \in Nat
    BY <1>0, HandlerKeepsTypes DEF TypeOK
  <2> QED BY <1>1, <2>1, <2>2, <2>3
<1>2. ~Told(m)'
  <2>1. caller' = caller
    BY DEF Handler, ServeHello, ServeResume, Replay, ServeInbound, ServeAck, Store,
           Reject, Publish, Disconnect, client
  <2> QED BY <1>1, <2>1 DEF Told, Known
<1>a. CASE ServeHello(c)
  <2>1. Answered(m)' => Answered(m)
    BY <1>a, AnsweredKept, FramesDiffer, FrameTypes DEF ServeHello
  <2>2. UNCHANGED <<processed, stage, todo>>
    BY <1>a DEF ServeHello, dedup, handlers
  <2> QED BY <1>1, <1>2, <2>1, <2>2 DEF Known, Remembered, HeldStored, Elems
<1>b. CASE ServeResume(c)
  <2>1. UNCHANGED <<processed, down>>
    BY <1>b DEF ServeResume, dedup
  <2>2. HeldStored(m)' => HeldStored(m)
    <3> DEFINE where == IF backlog = <<>> THEN "idle" ELSE "replay"
    <3>1. stage' = [stage EXCEPT ![c] = where] /\ todo' = [todo EXCEPT ![c] = backlog]
      BY <1>b DEF ServeResume, Replaying
    <3>2. where # "publish"
      OBVIOUS
    <3> HIDE DEF where
    <3> QED BY <3>1, <3>2, HeldKept
  <2>3. Answered(m)' => Answered(m)
    BY <2>1 DEF Answered, Elems, Ack
  <2> QED BY <1>1, <1>2, <2>1, <2>2, <2>3 DEF Known, Remembered, Elems
<1>c. CASE Replay(c)
  <2>1. HeldStored(m)' => HeldStored(m)
    BY <1>c, HeldKept DEF Replay, Replaying
  <2>2. Head(todo[c]) \in Outbound
    <3>1. todo[c] \in Seq(Outbound) /\ todo[c] # <<>>
      BY <1>c DEF Replay, TypeOK, HoldsItsWork
    <3> QED BY <3>1
  <2>3. down' = down \/ Answer(c, <<Carry(Head(todo[c]))>>)
    BY <1>c DEF Replay
  <2>4. Carry(Head(todo[c])) \in DownFrame
    BY <2>2, FrameTypes
  <2>5. Answered(m)' => Answered(m)
    <3>1. CASE down' = down
      BY <3>1 DEF Answered, Elems, Ack
    <3>2. CASE Answer(c, <<Carry(Head(todo[c]))>>)
      BY <2>4, <3>2, AnsweredKept, FramesDiffer
    <3> QED BY <2>3, <3>1, <3>2
  <2>6. processed' = processed
    BY <1>c DEF Replay, dedup
  <2> QED BY <1>1, <1>2, <2>1, <2>5, <2>6 DEF Known, Remembered, Elems
<1>d. ASSUME NEW o \in Outbound, ServeAck(c, o) PROVE FALSE
  <2>1. UNCHANGED <<processed, down, stage, todo>>
    BY <1>d DEF ServeAck, dedup, handlers
  <2>2. Answered(m)' => Answered(m)
    BY <2>1 DEF Answered, Elems, Ack
  <2> QED BY <1>1, <1>2, <2>1, <2>2 DEF Known, Remembered, HeldStored, Elems
<1>e. ASSUME NEW n \in Inbound, ServeInbound(c, n) PROVE stored'[m] > 0
  <2>1. UNCHANGED <<processed, stored>>
    BY <1>e DEF ServeInbound, dedup
  <2>2. HeldStored(m)' => HeldStored(m)
    <3>1. CASE n \in Elems(processed)
      BY <1>e, <3>1 DEF ServeInbound, handlers, HeldStored
    <3>2. CASE n \notin Elems(processed)
      BY <1>e, <3>2, HeldKept DEF ServeInbound, Work
    <3> QED BY <3>1, <3>2
  <2>3. Answered(m)' => Answered(m)
    <3>1. CASE n \in Elems(processed)
      <4>1. n # m
        BY <1>1, <3>1 DEF Known, Remembered
      <4>2. Ack(n, "duplicate") \in DownFrame /\ Answer(c, <<Ack(n, "duplicate")>>)
        BY <1>e, <3>1, FrameTypes DEF ServeInbound
      <4> QED BY <4>1, <4>2, AnsweredKept, FramesDiffer
    <3>2. CASE n \notin Elems(processed)
      <4>1. down' = down
        BY <1>e, <3>2 DEF ServeInbound
      <4> QED BY <4>1 DEF Answered, Elems, Ack
    <3> QED BY <3>1, <3>2
  <2> QED BY <1>1, <1>2, <2>1, <2>2, <2>3 DEF Known, Remembered, Elems
<1>f. CASE Store(c)
  <2>1. PICK n \in Inbound : todo[c] = <<n>>
    BY <1>f DEF Store, TypeOK, HoldsItsWork
  <2>2. stored' = [stored EXCEPT ![n] = @ + 1]
    <3>1. Head(todo[c]) = n
      BY <2>1
    <3> QED BY <1>f, <3>1 DEF Store
  <2>3. UNCHANGED <<processed, down, todo>> /\ stage' = [stage EXCEPT ![c] = "publish"]
    BY <1>f DEF Store, wire
  <2>4. CASE n = m
    BY <1>0, <2>2, <2>4
  <2>5. CASE n # m
    <3>1. <<n>> # <<m>>
      BY <2>5
    <3>2. HeldStored(m)' => HeldStored(m)
      BY <1>0, <2>1, <2>3, <3>1 DEF HeldStored
    <3>3. Answered(m)' => Answered(m)
      BY <2>3 DEF Answered, Elems, Ack
    <3> QED BY <1>1, <1>2, <2>3, <3>2, <3>3 DEF Known, Remembered, Elems
  <2> QED BY <2>4, <2>5
<1>g. CASE Reject(c)
  <2>1. PICK n \in Inbound : todo[c] = <<n>>
    BY <1>g DEF Reject, TypeOK, HoldsItsWork
  <2>2. Ack(n, "failed") \in DownFrame /\ Head(todo[c]) = n
    BY <2>1, FrameTypes
  <2>3. Answered(m)' => Answered(m)
    <3>1. Answer(c, <<Ack(n, "failed")>>)
      BY <1>g, <2>2 DEF Reject
    <3>2. Ack(n, "failed") # Ack(m, "ok") /\ Ack(n, "failed") # Ack(m, "duplicate")
      <4>1. "failed" # "ok" /\ "failed" # "duplicate"
        OBVIOUS
      <4> QED BY <4>1, FramesDiffer
    <3> QED BY <2>2, <3>1, <3>2, AnsweredKept
  <2>4. HeldStored(m)' => HeldStored(m)
    BY <1>g, HeldKept DEF Reject, Work
  <2>5. processed' = processed
    BY <1>g DEF Reject, dedup
  <2> QED BY <1>1, <1>2, <2>3, <2>4, <2>5 DEF Known, Remembered, Elems
<1>h. CASE Publish(c)
  <2>1. PICK n \in Inbound : todo[c] = <<n>>
    BY <1>h DEF Publish, TypeOK, HoldsItsWork
  <2>2. n # m
    BY <1>1, <1>h, <2>1 DEF Publish, Known, HeldStored
  <2>3. Ack(n, "ok") \in DownFrame /\ Head(todo[c]) = n
    BY <2>1, FrameTypes
  <2>4. processed' = Remember(n) /\ Answer(c, <<Ack(n, "ok")>>)
    BY <1>h, <2>3 DEF Publish
  <2>5. Answered(m)' => Answered(m)
    <3>1. Ack(n, "ok") # Ack(m, "ok") /\ Ack(n, "ok") # Ack(m, "duplicate")
      BY <2>2, FramesDiffer
    <3> QED BY <2>3, <2>4, <3>1, AnsweredKept
  <2>6. m \notin Elems(Remember(n))
    <3>1. Elems(Remember(n)) \subseteq Elems(processed) \cup {n}
      BY RememberOne DEF TypeOK
    <3> QED BY <1>1, <2>2, <3>1 DEF Known, Remembered
  <2>7. ~Remembered(m)'
    BY <2>4, <2>6 DEF Remembered, Elems
  <2>8. HeldStored(m)' => HeldStored(m)
    BY <1>h, HeldKept DEF Publish, Work
  <2> QED BY <1>1, <1>2, <2>5, <2>7, <2>8 DEF Known
<1>i. CASE Disconnect(c)
  <2>1. UNCHANGED <<processed, down>>
    BY <1>i DEF Disconnect, dedup
  <2>2. HeldStored(m)' => HeldStored(m)
    BY <1>i, HeldKept DEF Disconnect, Work
  <2>3. Answered(m)' => Answered(m)
    BY <2>1 DEF Answered, Elems, Ack
  <2> QED BY <1>1, <1>2, <2>1, <2>2, <2>3 DEF Known, Remembered, Elems
<1> QED BY <1>a, <1>b, <1>c, <1>d, <1>e, <1>f, <1>g, <1>h, <1>i DEF Handler

LEMMA KnownIsStoredKept ==
    ASSUME Inv, KnownIsStored, [Next]_vars
    PROVE  KnownIsStored'
<1> SUFFICES ASSUME NEW m \in Inbound, Known(m)' PROVE stored'[m] > 0
  BY DEF KnownIsStored, Known, Told, Remembered, HeldStored, Answered, Elems
<1> USE DEF Inv
<1>1. CASE \/ ClientStep \/ Cut
           \/ \E n \in Inbound : SendInbound(n)
           \/ \E o \in Outbound : Dispatch(o)
  BY <1>1, ClientLearns DEF KnownIsStored
<1>2. ASSUME NEW c \in Conn, Handler(c) PROVE stored'[m] > 0
  BY <1>2, HandlerLearns
<1>3. ASSUME NEW o \in Outbound, PushOutbound(o) PROVE stored'[m] > 0
  <2>1. UNCHANGED <<caller, processed, stored, stage, todo>>
    BY <1>3 DEF PushOutbound, client, dedup, handlers
  <2>2. Answered(m)' => Answered(m)
    <3>1. Carry(o) \in DownFrame /\ active \in Conn \cup {NoConn}
      BY FrameTypes DEF TypeOK
    <3>2. CASE down' = down
      BY <3>2 DEF Answered, Elems, Ack
    <3>3. CASE active \in Conn /\ Answer(active, <<Carry(o)>>)
      BY <3>1, <3>3, AnsweredKept, FramesDiffer
    <3> QED BY <1>3, <3>1, <3>2, <3>3 DEF PushOutbound
  <2>3. Known(m)
    BY <2>1, <2>2 DEF Known, Told, Remembered, HeldStored, Elems
  <2> QED BY <2>1, <2>3 DEF KnownIsStored
<1>4. CASE Restart
  <2>1. UNCHANGED <<caller, stored, down>> /\ processed' = <<>>
    BY <1>4 DEF Restart, client
  <2>2. ~HeldStored(m)' /\ ~Remembered(m)'
    BY <1>4, <2>1 DEF Restart, HeldStored, Remembered, Elems
  <2>3. Answered(m)' => Answered(m)
    BY <2>1 DEF Answered, Elems, Ack
  <2>4. Known(m)
    BY <2>1, <2>2, <2>3 DEF Known, Told
  <2> QED BY <2>1, <2>4 DEF KnownIsStored
<1>5. CASE UNCHANGED vars
  <2>1. /\ caller' = caller /\ processed' = processed /\ stored' = stored /\ stage' = stage
        /\ todo' = todo /\ down' = down
    <3>1. UNCHANGED client /\ UNCHANGED wire /\ UNCHANGED dedup /\ UNCHANGED handlers
      BY <1>5, Zenon DEF vars
    <3> QED BY <3>1, Zenon DEF client, wire, dedup, handlers
  <2>2. Known(m)
    BY <2>1 DEF Known, Told, Remembered, HeldStored, Answered, Elems, Ack
  <2> QED BY <2>1, <2>2 DEF KnownIsStored
<1> QED BY <1>1, <1>2, <1>3, <1>4, <1>5 DEF Next

(* A caller of send_inbound that is told its message was submitted finds   *)
(* it in the history of the session, whatever connections broke, frames    *)
(* were sent again and processes restarted before.                         *)
THEOREM OkIsStoredHolds == SafeSpec => []OkIsStored
<1>1. Init => KnownIsStored
  BY DEF Init, KnownIsStored, Known, Told, Remembered, HeldStored, Answered, Elems
<1>2. Inv /\ KnownIsStored /\ [Next]_vars => Inv' /\ KnownIsStored'
  BY NextKeepsInv, KnownIsStoredKept
<1>3. KnownIsStored => OkIsStored
  BY DEF KnownIsStored, OkIsStored, Known, Told
<1> QED BY InitInv, <1>1, <1>2, <1>3, PTL DEF SafeSpec
-----------------------------------------------------------------------------
(* A memory without repetitions, of which there is room for every frame,   *)
(* forgets none.                                                           *)
LEMMA RoomForAll ==
    ASSUME NEW S, IsFiniteSet(S), NEW s \in Seq(S), Distinct(s)
    PROVE  Len(s) <= Cardinality(S)
<1>1. s \in [1..Len(s) -> S] /\ Len(s) \in Nat
  OBVIOUS
<1>2. s \in Injection(1..Len(s), S)
  BY <1>1 DEF Injection, IsInjective, Distinct
<1>3. Cardinality(1..Len(s)) <= Cardinality(S)
  BY <1>2, FS_Injection
<1>4. Cardinality(1..Len(s)) = Len(s)
  <2>1. PICK n \in Nat : n = Len(s)
    BY <1>1
  <2>2. Cardinality(1..n) = IF 1 > n THEN 0 ELSE n - 1 + 1
    <3>1. n \in Int /\ 1 \in Int
      OBVIOUS
    <3> QED BY ONLY <3>1, FS_Interval, Zenon
  <2>3. Cardinality(1..n) = n
    BY <2>2
  <2> QED BY <2>1, <2>3
<1> QED BY <1>3, <1>4

LEMMA DistinctAppend ==
    ASSUME NEW S, NEW s \in Seq(S), NEW e \in S, Distinct(s), e \notin Elems(s)
    PROVE  Distinct(Append(s, e))
<1> DEFINE a == Append(s, e)
<1>1. /\ Len(s) \in Nat /\ DOMAIN s = 1..Len(s) /\ DOMAIN a = 1..(Len(s) + 1)
      /\ \A i \in 1..Len(s) : a[i] = s[i]
      /\ a[Len(s) + 1] = e
  OBVIOUS
<1>2. \A i \in 1..Len(s) : s[i] # e
  BY <1>1 DEF Elems
<1> HIDE DEF a
<1>3. Distinct(a)
  BY <1>1, <1>2 DEF Distinct
<1> QED BY <1>3 DEF a

LEMMA DistinctTail ==
    ASSUME NEW S, NEW s \in Seq(S), s # <<>>, Distinct(s)
    PROVE  Distinct(Tail(s))
<1>1. /\ Len(s) \in Nat /\ DOMAIN s = 1..Len(s) /\ DOMAIN Tail(s) = 1..(Len(s) - 1)
      /\ \A i \in 1..(Len(s) - 1) : Tail(s)[i] = s[i + 1]
  OBVIOUS
<1> QED BY <1>1 DEF Distinct

LEMMA RememberDistinct ==
    ASSUME processed \in Seq(Inbound), Distinct(processed), NEW m \in Inbound,
           IsFiniteSet(Inbound)
    PROVE  /\ Distinct(Remember(m))
           /\ Cardinality(Inbound) <= ProcessedLimit
                 => Elems(processed) \cup {m} \subseteq Elems(Remember(m))
<1> DEFINE w == Without(processed, m)
           a == Append(w, m)
<1>1. /\ w \in Seq(Inbound) /\ Distinct(w) /\ m \notin Elems(w)
      /\ Elems(processed) \ {m} \subseteq Elems(w)
  BY ElemsOfWithout
<1> HIDE DEF w
<1>2. a \in Seq(Inbound) /\ Elems(a) = Elems(w) \cup {m} /\ Distinct(a) /\ a # <<>>
  BY <1>1, ElemsOfAppend, DistinctAppend
<1> HIDE DEF a
<1>3. Remember(m) = IF Len(a) > ProcessedLimit THEN Tail(a) ELSE a
  BY DEF Remember, a, w
<1>4. Distinct(Remember(m))
  BY <1>2, <1>3, DistinctTail
<1>5. ASSUME Cardinality(Inbound) <= ProcessedLimit
      PROVE  Elems(processed) \cup {m} \subseteq Elems(Remember(m))
  <2>1. Len(a) <= Cardinality(Inbound)
    BY <1>2, RoomForAll
  <2>2. Len(a) \in Nat /\ Cardinality(Inbound) \in Nat /\ ProcessedLimit \in Nat
    BY <1>2, FS_CardinalityType, BridgeAssumption
  <2>3. Remember(m) = a
    BY <1>3, <1>5, <2>1, <2>2
  <2> QED BY <1>1, <1>2, <2>3
<1> QED BY <1>4, <1>5

Remembers == /\ Distinct(processed)
             /\ SubmittedIsRemembered

LEMMA RemembersKept ==
    ASSUME IsFiniteSet(Inbound), Inv, Remembers, [Next]_vars
    PROVE  Remembers'
<1>1. CASE UNCHANGED <<processed, published>>
  BY <1>1 DEF Remembers, SubmittedIsRemembered, Distinct, Elems
<1>2. ASSUME NEW c \in Conn, Publish(c) PROVE Remembers'
  <2>1. PICK n \in Inbound : todo[c] = <<n>>
    BY <1>2 DEF Publish, Inv, TypeOK, HoldsItsWork
  <2>2. processed' = Remember(n) /\ published' = [published EXCEPT ![n] = @ + 1]
    <3>1. Head(todo[c]) = n
      BY <2>1
    <3> QED BY <1>2, <3>1 DEF Publish
  <2>3. /\ processed \in Seq(Inbound) /\ Distinct(processed) /\ published \in [Inbound -> Nat]
    BY DEF Inv, TypeOK, Remembers
  <2>4. /\ Distinct(Remember(n))
        /\ Cardinality(Inbound) <= ProcessedLimit
              => Elems(processed) \cup {n} \subseteq Elems(Remember(n))
    BY <2>3, RememberDistinct
  <2>5. ASSUME Cardinality(Inbound) <= ProcessedLimit, NEW m \in Inbound, published'[m] > 0
        PROVE  m \in Elems(Remember(n))
    <3>1. CASE m = n
      BY <2>4, <2>5, <3>1
    <3>2. CASE m # n
      <4>1. published[m] > 0
        BY <2>2, <2>3, <2>5, <3>2
      <4> QED BY <2>4, <2>5, <4>1 DEF Remembers, SubmittedIsRemembered
    <3> QED BY <3>1, <3>2
  <2>6. Distinct(processed)'
    BY <2>2, <2>4 DEF Distinct
  <2>7. SubmittedIsRemembered'
    BY <2>2, <2>5 DEF SubmittedIsRemembered, Elems
  <2> QED BY <2>6, <2>7 DEF Remembers
<1>3. CASE Restart
  <2>1. processed' = <<>> /\ published' = [m \in Inbound |-> 0]
    BY <1>3 DEF Restart
  <2> QED BY <2>1 DEF Remembers, SubmittedIsRemembered, Distinct
<1>4. CASE UNCHANGED vars
  BY <1>1, <1>4 DEF vars, dedup
<1>5. ASSUME NEW c \in Conn, Handler(c), ~Publish(c) PROVE UNCHANGED <<processed, published>>
  BY <1>5 DEF Handler, ServeHello, ServeResume, Replay, ServeInbound, ServeAck, Store,
              Reject, Disconnect, dedup
<1>6. CASE \/ ClientStep \/ Cut
           \/ \E m \in Inbound : SendInbound(m)
           \/ \E o \in Outbound : Dispatch(o) \/ PushOutbound(o)
  <2>1. UNCHANGED <<processed, published>>
    BY <1>6 DEF ClientStep, Connect, Cut, Drop, Handshake, StartResend, Resend, ReceiveAck,
                ReceiveOutbound, SendInbound, Dispatch, PushOutbound, dedup
  <2> QED BY <1>1, <2>1
<1> QED BY <1>1, <1>2, <1>3, <1>4, <1>5, <1>6 DEF Next

(* A frame that was submitted since the process started is recognised when *)
(* it comes again, when there are no more frames than _RecentFrameSet      *)
(* holds: a frame that is sent again, or that is handled by two            *)
(* connections at once, never pushes another one out.                      *)
THEOREM SubmittedIsRememberedHolds ==
    ASSUME IsFiniteSet(Inbound)
    PROVE  SafeSpec => []SubmittedIsRemembered
<1>1. Init => Remembers
  BY DEF Init, Remembers, SubmittedIsRemembered, Distinct
<1>2. Inv /\ Remembers /\ [Next]_vars => Inv' /\ Remembers'
  BY NextKeepsInv, RemembersKept
<1>3. Remembers => SubmittedIsRemembered
  BY DEF Remembers
<1> QED BY InitInv, <1>1, <1>2, <1>3, PTL DEF SafeSpec

-----------------------------------------------------------------------------
(* What is carried: WaitingIsCarried and BacklogIsCarried.                 *)

(* The hello is the first frame of its connection.                         *)
HelloFirst == \A c \in Conn : up[c] # <<>> => Hello \notin Elems(Tail(up[c]))

(* Nothing was sent on a connection that was not opened yet.               *)
FreshQueues == \A c \in Conn : c > last => up[c] = <<>> /\ down[c] = <<>>

(* Once the server has answered the hello of the latest connection, it     *)
(* sends to that one, and no earlier hello is left to change it.           *)
Greeted == open /\ (phase \in {"resume", "up"} \/ HelloAck \in Elems(down[last]))
           => active = last /\ \A c \in Conn : Hello \notin Elems(up[c])

(* What a replay leaves out was acknowledged.                              *)
SkipsAreAcked == \A c \in Conn : skip[c] \subseteq acked

LinkInv == HelloFirst /\ FreshQueues /\ Greeted /\ SkipsAreAcked

LEMMA FramesApart ==
    /\ Hello # Resume
    /\ \A f : Carry(f) # Hello /\ Carry(f) # Resume /\ Carry(f) # HelloAck
    /\ \A f, s : Ack(f, s) # Hello /\ Ack(f, s) # Resume /\ Ack(f, s) # HelloAck
    /\ \A f, g, s : Ack(f, s) # Carry(g)
    /\ \A f, g : Carry(f) = Carry(g) => f = g
    /\ \A f, g, s, r : Ack(f, s) = Ack(g, r) => f = g /\ s = r
<1>1. Hello.type = "hello" /\ Resume.type = "resume" /\ HelloAck.type = "hello_ack"
  BY DEF Hello, Resume, HelloAck
<1>2. \A f : Carry(f).type = "message" /\ Carry(f).id = f
  BY DEF Carry
<1>3. \A f, s : Ack(f, s).type = "ack" /\ Ack(f, s).id = f /\ Ack(f, s).status = s
  BY DEF Ack
<1>4. /\ Hello # Resume
      /\ \A f : Carry(f) # Hello /\ Carry(f) # Resume /\ Carry(f) # HelloAck
  BY <1>1, <1>2
<1>5. /\ \A f, s : Ack(f, s) # Hello /\ Ack(f, s) # Resume /\ Ack(f, s) # HelloAck
      /\ \A f, g, s : Ack(f, s) # Carry(g)
  BY <1>1, <1>2, <1>3
<1>6. \A f, g : Carry(f) = Carry(g) => f = g
  BY <1>2
<1>7. \A f, g, s, r : Ack(f, s) = Ack(g, r) => f = g /\ s = r
  BY <1>3
<1> QED BY <1>4, <1>5, <1>6, <1>7

(* The first of a sequence and the rest are all of it.                     *)
LEMMA ElemsOfHead ==
    ASSUME NEW S, NEW s \in Seq(S), s # <<>>
    PROVE  Elems(s) = {Head(s)} \cup Elems(Tail(s))
<1>1. /\ Len(s) \in Nat /\ Len(s) > 0 /\ DOMAIN s = 1..Len(s) /\ Head(s) = s[1]
      /\ DOMAIN Tail(s) = 1..(Len(s) - 1)
      /\ \A i \in 1..(Len(s) - 1) : Tail(s)[i] = s[i + 1]
  OBVIOUS
<1>2. ASSUME NEW e \in Elems(s), e # Head(s) PROVE e \in Elems(Tail(s))
  <2>1. PICK i \in 1..Len(s) : e = s[i]
    BY <1>1, <1>2 DEF Elems
  <2>2. i - 1 \in 1..(Len(s) - 1) /\ s[(i - 1) + 1] = e
    BY <1>1, <1>2, <2>1
  <2> QED BY <1>1, <2>2 DEF Elems
<1> QED BY <1>2, ElemsOfTail

LEMMA TakenElems ==
    ASSUME TypeOK, NEW c \in Conn, NEW f, Taken(c, f)
    PROVE  /\ Elems(up[c]) = {f} \cup Elems(up'[c])
           /\ up'[c] = Tail(up[c]) /\ up[c] # <<>> /\ Head(up[c]) = f
           /\ \A d \in Conn \ {c} : up'[d] = up[d]
           /\ stage[c] = "idle" /\ todo[c] = <<>>
<1>1. /\ up[c] \in Seq(UpFrame) /\ up[c] # <<>> /\ Head(up[c]) = f
      /\ up'[c] = Tail(up[c]) /\ \A d \in Conn \ {c} : up'[d] = up[d]
  BY DEF Taken, TypeOK
<1> QED BY <1>1, ElemsOfHead DEF Taken, TypeOK, HoldsItsWork

LEMMA AnswerElems ==
    ASSUME TypeOK, NEW c \in Conn, NEW f \in DownFrame, Answer(c, <<f>>)
    PROVE  /\ \A d \in Conn \ {c} : down'[d] = down[d]
           /\ Open(c) => Elems(down'[c]) = Elems(down[c]) \cup {f}
           /\ ~Open(c) => down' = down
<1>1. down \in [Conn -> Seq(DownFrame)] /\ down[c] \in Seq(DownFrame)
  BY DEF TypeOK
<1>2. Elems(down[c] \o <<f>>) = Elems(down[c]) \cup {f}
  BY <1>1, ElemsOfAnswer
<1> QED BY <1>1, <1>2 DEF Answer

LEMMA UpElems ==
    ASSUME Inv, NEW f \in UpFrame, Up(f)
    PROVE  /\ open => /\ last \in Conn
                      /\ Elems(up'[last]) = Elems(up[last]) \cup {f}
                      /\ up'[last] = Append(up[last], f)
                      /\ \A d \in Conn \ {last} : up'[d] = up[d]
           /\ ~open => up' = up
<1>1. CASE open
  <2>1. last \in Conn /\ up[last] \in Seq(UpFrame)
    BY <1>1 DEF Inv, TypeOK, Fresh
  <2>2. up'[last] = Append(up[last], f) /\ \A d \in Conn \ {last} : up'[d] = up[d]
    BY <1>1, <2>1 DEF Up, Inv, TypeOK
  <2> QED BY <1>1, <2>1, <2>2, ElemsOfAppend
<1> QED BY <1>1 DEF Up

LEMMA ReadElems ==
    ASSUME TypeOK, last \in Conn, down[last] # <<>>, down' = [down EXCEPT ![last] = Tail(@)]
    PROVE  /\ Elems(down[last]) = {Head(down[last])} \cup Elems(down'[last])
           /\ \A d \in Conn \ {last} : down'[d] = down[d]
<1>1. down[last] \in Seq(DownFrame) /\ down'[last] = Tail(down[last])
  BY DEF TypeOK
<1> QED BY <1>1, ElemsOfHead DEF TypeOK

(* The frames of a handler are on their way when its connection is intact. *)
LEMMA HandlerEffects ==
    ASSUME Inv, NEW c \in Conn, Handler(c)
    PROVE  /\ UNCHANGED <<client, last, open, backlog>>
           /\ acked \subseteq acked'
           /\ \A d \in Conn \ {c} : /\ up'[d] = up[d] /\ down'[d] = down[d]
                                    /\ stage'[d] = stage[d] /\ todo'[d] = todo[d]
                                    /\ skip'[d] = skip[d]
           /\ ~Open(c) => down' = down
           /\ Elems(down[c]) \subseteq Elems(down'[c])
           /\ up'[c] = up[c] \/ up'[c] = <<>> \/ (up[c] # <<>> /\ up'[c] = Tail(up[c]))
           /\ skip'[c] \in {skip[c], acked, {}}
<1> USE DEF Inv
<1>0. /\ up \in [Conn -> Seq(UpFrame)] /\ down \in [Conn -> Seq(DownFrame)]
      /\ stage \in [Conn -> Stage] /\ todo \in [Conn -> Seq(Inbound \cup Outbound)]
      /\ skip \in [Conn -> SUBSET Outbound]
  BY DEF TypeOK
<1>w. ASSUME NEW where, NEW s, Work(c, where, s)
      PROVE  /\ \A d \in Conn \ {c} : stage'[d] = stage[d] /\ todo'[d] = todo[d]
             /\ skip' = skip
  BY <1>0, <1>w DEF Work
<1>r. ASSUME NEW s, Replaying(c, s)
      PROVE  \A d \in Conn \ {c} : stage'[d] = stage[d] /\ todo'[d] = todo[d]
  BY <1>0, <1>r DEF Replaying
<1>1. CASE ServeHello(c)
  <2>1. Taken(c, Hello) /\ Answer(c, <<HelloAck>>) /\ HelloAck \in DownFrame
    BY <1>1, FrameTypes DEF ServeHello
  <2> QED BY <1>1, <2>1, TakenElems, AnswerElems DEF ServeHello, handlers, client
<1>2. CASE ServeResume(c)
  <2>1. Taken(c, Resume) /\ Replaying(c, backlog) /\ skip' = [skip EXCEPT ![c] = acked]
        /\ UNCHANGED <<client, last, open, down, outbox>>
    BY <1>2 DEF ServeResume
  <2>2. \A d \in Conn \ {c} : stage'[d] = stage[d] /\ todo'[d] = todo[d]
    BY <2>1, <1>r
  <2>3. skip'[c] = acked /\ \A d \in Conn \ {c} : skip'[d] = skip[d]
    BY <1>0, <2>1
  <2> QED BY <2>1, <2>2, <2>3, TakenElems DEF client, outbox
<1>3. CASE Replay(c)
  <2>1. /\ Replaying(c, Tail(todo[c]))
        /\ UNCHANGED <<client, last, open, up, skip, outbox>>
        /\ UNCHANGED down \/ Answer(c, <<Carry(Head(todo[c]))>>)
    BY <1>3 DEF Replay
  <2>2. Carry(Head(todo[c])) \in DownFrame
    <3>1. todo[c] \in Seq(Outbound) /\ todo[c] # <<>>
      BY <1>3 DEF Replay, TypeOK, HoldsItsWork
    <3>2. Head(todo[c]) \in Outbound
      BY <3>1
    <3> QED BY <3>2, FrameTypes
  <2>3. \A d \in Conn \ {c} : stage'[d] = stage[d] /\ todo'[d] = todo[d]
    BY <2>1, <1>r
  <2>4. /\ \A d \in Conn \ {c} : down'[d] = down[d]
        /\ ~Open(c) => down' = down
        /\ Elems(down[c]) \subseteq Elems(down'[c])
    BY <2>1, <2>2, AnswerElems
  <2> QED BY <2>1, <2>3, <2>4 DEF client, outbox
<1>4. ASSUME NEW m \in Inbound, ServeInbound(c, m)
      PROVE  /\ UNCHANGED <<client, last, open, outbox, skip>> /\ Taken(c, Carry(m))
             /\ \A d \in Conn \ {c} : stage'[d] = stage[d] /\ todo'[d] = todo[d]
             /\ UNCHANGED down \/ Answer(c, <<Ack(m, "duplicate")>>)
  BY <1>4, <1>w DEF ServeInbound, handlers
<1>5. ASSUME NEW m \in Inbound, ServeInbound(c, m)
      PROVE  /\ \A d \in Conn \ {c} : down'[d] = down[d]
             /\ ~Open(c) => down' = down
             /\ Elems(down[c]) \subseteq Elems(down'[c])
  BY <1>4, <1>5, FrameTypes, AnswerElems
<1>6. CASE \E m \in Inbound : ServeInbound(c, m)
  BY <1>4, <1>5, <1>6, TakenElems DEF client, outbox
<1>7. CASE \E o \in Outbound : ServeAck(c, o)
  BY <1>7, TakenElems DEF ServeAck, handlers, client
<1>8. CASE Store(c)
  BY <1>0, <1>8 DEF Store, client, wire, outbox
<1>9. ASSUME NEW s \in {"failed", "ok"}, Answer(c, <<Ack(Head(todo[c]), s)>>),
             stage[c] \in {"store", "publish"}
      PROVE  /\ \A d \in Conn \ {c} : down'[d] = down[d]
             /\ ~Open(c) => down' = down
             /\ Elems(down[c]) \subseteq Elems(down'[c])
  <2>1. PICK m \in Inbound : todo[c] = <<m>>
    BY <1>9 DEF TypeOK, HoldsItsWork
  <2>2. Head(todo[c]) = m
    BY <2>1
  <2> QED BY <1>9, <2>2, FrameTypes, AnswerElems
<1>10. CASE Reject(c)
  BY <1>10, <1>9, <1>w DEF Reject, client, outbox
<1>11. CASE Publish(c)
  BY <1>11, <1>9, <1>w DEF Publish, client, outbox
<1>12. CASE Disconnect(c)
  <2>1. /\ \A d \in Conn \ {c} : up'[d] = up[d] /\ stage'[d] = stage[d] /\ todo'[d] = todo[d]
        /\ up'[c] = <<>> /\ skip' = skip
    BY <1>0, <1>12, <1>w DEF Disconnect
  <2> QED BY <1>12, <2>1 DEF Disconnect, client
<1> QED BY <1>1, <1>2, <1>3, <1>6, <1>7, <1>8, <1>10, <1>11, <1>12 DEF Handler

LEMMA NoElems == Elems(<<>>) = {}
  BY DEF Elems

LEMMA HelloStaysFirst ==
    ASSUME NEW q \in Seq(UpFrame), q # <<>> => Hello \notin Elems(Tail(q))
    PROVE  /\ q # <<>> /\ Tail(q) # <<>> => Hello \notin Elems(Tail(Tail(q)))
           /\ \A f \in UpFrame : f # Hello => Hello \notin Elems(Tail(Append(q, f)))
<1>1. ASSUME q # <<>>, Tail(q) # <<>> PROVE Hello \notin Elems(Tail(Tail(q)))
  <2>1. Tail(q) \in Seq(UpFrame)
    BY <1>1
  <2>2. Elems(Tail(Tail(q))) \subseteq Elems(Tail(q))
    BY <1>1, <2>1, ElemsOfTail
  <2>3. Hello \notin Elems(Tail(q))
    BY <1>1
  <2> QED BY <2>2, <2>3
<1>2. ASSUME NEW f \in UpFrame, f # Hello PROVE Hello \notin Elems(Tail(Append(q, f)))
  <2>1. CASE q = <<>>
    <3>1. Tail(Append(q, f)) = <<>>
      BY <2>1
    <3> QED BY <3>1, NoElems
  <2>2. CASE q # <<>>
    <3>1. Tail(Append(q, f)) = Append(Tail(q), f) /\ Tail(q) \in Seq(UpFrame)
      BY <2>2
    <3>2. Elems(Append(Tail(q), f)) = Elems(Tail(q)) \cup {f}
      BY <3>1, ElemsOfAppend, ZenonT(40)
    <3>3. Hello \notin Elems(Tail(q)) \cup {f}
      BY <1>2, <2>2
    <3> QED BY <3>1, <3>2, <3>3, Zenon
  <2> QED BY <2>1, <2>2
<1> QED BY <1>1, <1>2

LEMMA LinkInit == Init => LinkInv
  BY NoElems DEF Init, LinkInv, HelloFirst, FreshQueues, Greeted, SkipsAreAcked

(* A step that opens no connection and serves no hello.                    *)
LEMMA LinkStays ==
    ASSUME Inv, LinkInv, UNCHANGED <<last, skip, acked, active>>,
           up' = up \/ \E f \in UpFrame : f # Hello /\ Up(f),
           \A d \in Conn \ {last} : down'[d] = down[d],
           open' => /\ open
                    /\ HelloAck \in Elems(down'[last]) => HelloAck \in Elems(down[last])
                    /\ phase' \in {"resume", "up"} => \/ phase \in {"resume", "up"}
                                                      \/ HelloAck \in Elems(down[last])
    PROVE  LinkInv'
<1>1. up \in [Conn -> Seq(UpFrame)]
  BY DEF Inv, TypeOK
<1>2. \A d \in Conn : \/ up'[d] = up[d]
                      \/ /\ d = last /\ open
                         /\ \E f \in UpFrame : f # Hello /\ up'[d] = Append(up[d], f)
  BY UpElems
<1>3. ASSUME NEW d \in Conn PROVE Hello \in Elems(up'[d]) => Hello \in Elems(up[d])
  <2>1. CASE up'[d] = up[d]
    BY <2>1
  <2>2. ASSUME NEW f \in UpFrame, f # Hello, up'[d] = Append(up[d], f)
        PROVE  Hello \in Elems(up'[d]) => Hello \in Elems(up[d])
    <3>1. Elems(Append(up[d], f)) = Elems(up[d]) \cup {f}
      BY <1>1, ElemsOfAppend
    <3> QED BY <2>2, <3>1
  <2> QED BY <1>2, <2>1, <2>2
<1>4. HelloFirst'
  BY <1>1, <1>2, HelloStaysFirst DEF LinkInv, HelloFirst
<1>5. FreshQueues'
  <2>1. ASSUME NEW c \in Conn, c > last PROVE up'[c] = <<>> /\ down'[c] = <<>>
    <3>1. c # last
      BY <2>1 DEF Conn, Inv, TypeOK, NoConn
    <3> QED BY <1>2, <2>1, <3>1 DEF LinkInv, FreshQueues
  <2> QED BY <2>1 DEF FreshQueues
<1>6. Greeted'
  BY <1>3 DEF LinkInv, Greeted
<1> QED BY <1>4, <1>5, <1>6 DEF LinkInv, SkipsAreAcked

LEMMA LinkByClient ==
    ASSUME Inv, LinkInv, \/ ClientStep \/ Cut
                         \/ \E m \in Inbound : SendInbound(m)
                         \/ \E o \in Outbound : Dispatch(o)
    PROVE  LinkInv'
<1>0. phase # "down" => last \in Conn
  BY DEF Inv, TypeOK, Fresh
<1>r. ASSUME phase # "down", down[last] # <<>>, down' = [down EXCEPT ![last] = Tail(@)]
      PROVE  /\ \A d \in Conn \ {last} : down'[d] = down[d]
             /\ HelloAck \in Elems(down'[last]) => HelloAck \in Elems(down[last])
             /\ Head(down[last]) \in Elems(down[last])
  BY <1>0, <1>r, ReadElems DEF Inv
<1>1. CASE Connect
  <2>1. /\ last < MaxConns /\ last' = last + 1 /\ open' = TRUE /\ phase' = "hello"
        /\ up' = [up EXCEPT ![last'] = <<Hello>>] /\ UNCHANGED <<down, skip, acked>>
    BY <1>1 DEF Connect, outbox
  <2>2. last' \in Conn /\ last' > last /\ last \in Nat
    BY <2>1, BridgeAssumption DEF Conn, NoConn, Inv, TypeOK
  <2>3. \A c \in Conn : c > last' => c > last /\ c # last'
    BY <2>1, <2>2 DEF Conn
  <2>4. /\ up'[last'] = <<Hello>> /\ down'[last'] = <<>>
        /\ \A c \in Conn \ {last'} : up'[c] = up[c]
    BY <2>1, <2>2 DEF LinkInv, FreshQueues, Inv, TypeOK
  <2>5. HelloFirst'
    <3>1. Tail(<<Hello>>) = <<>>
      OBVIOUS
    <3> QED BY <2>4, <3>1, NoElems DEF LinkInv, HelloFirst
  <2>6. FreshQueues'
    BY <2>1, <2>3, <2>4 DEF LinkInv, FreshQueues
  <2>7. Greeted'
    BY <2>1, <2>4, NoElems DEF Greeted
  <2> QED BY <2>1, <2>5, <2>6, <2>7 DEF LinkInv, SkipsAreAcked
<1>2. CASE Drop
  <2>1. \A d \in Conn \ {last} : down'[d] = down[d]
    BY <1>2 DEF Drop, Inv, TypeOK
  <2> QED BY <1>2, <2>1, LinkStays DEF Drop, outbox, handlers
<1>3. CASE Handshake
  <2>1. Resume \in UpFrame /\ Resume # Hello
    BY FrameTypes, FramesApart
  <2> QED BY <1>3, <1>r, <2>1, LinkStays DEF Handshake, outbox, handlers
<1>4. CASE StartResend
  BY <1>4, LinkStays DEF StartResend, wire, outbox, handlers
<1>5. CASE Resend
  <2>1. Head(resend) \in Inbound
    BY <1>5 DEF Resend, Inv, TypeOK
  <2>2. Carry(Head(resend)) \in UpFrame /\ Carry(Head(resend)) # Hello
    BY <2>1, FrameTypes, FramesApart
  <2> QED BY <1>5, <2>2, LinkStays DEF Resend, outbox, handlers
<1>6. ASSUME NEW f, Receives(f), UNCHANGED <<phase, last, open, up, outbox, handlers>>
      PROVE  LinkInv'
  BY <1>6, <1>r, LinkStays DEF Receives, outbox, handlers
<1>7. CASE \E m \in Inbound, s \in {"ok", "duplicate", "failed"} : ReceiveAck(m, s)
  BY <1>6, <1>7 DEF ReceiveAck
<1>8. CASE \E o \in Outbound : ReceiveOutbound(o)
  BY <1>6, <1>8 DEF ReceiveOutbound
<1>9. CASE \E m \in Inbound : SendInbound(m)
  BY <1>9, FrameTypes, FramesApart, LinkStays DEF SendInbound, outbox, handlers
<1>10. CASE \E o \in Outbound : Dispatch(o)
  BY <1>10, FrameTypes, FramesApart, LinkStays DEF Dispatch, outbox, handlers
<1>11. CASE Cut
  BY <1>11, LinkStays DEF Cut, outbox, handlers
<1> QED BY <1>1, <1>2, <1>3, <1>4, <1>5, <1>7, <1>8, <1>9, <1>10, <1>11 DEF ClientStep

(* Only the hello changes the connection that the server sends to, unless  *)
(* it is lost.                                                             *)
LEMMA OnlyHelloGreets ==
    ASSUME Inv, NEW c \in Conn, Handler(c), ~ServeHello(c)
    PROVE  /\ HelloAck \in Elems(down'[c]) => HelloAck \in Elems(down[c])
           /\ active' = active \/ (active = c /\ ~Open(c))
<1> USE DEF Inv
<1>1. CASE ServeResume(c)
  BY <1>1 DEF ServeResume, outbox
<1>a. ASSUME NEW f \in DownFrame, Answer(c, <<f>>), f # HelloAck
      PROVE  HelloAck \in Elems(down'[c]) => HelloAck \in Elems(down[c])
  BY <1>a, AnswerElems
<1>2. CASE Replay(c)
  <2>1. todo[c] \in Seq(Outbound) /\ todo[c] # <<>>
    BY <1>2 DEF Replay, TypeOK, HoldsItsWork
  <2>2. Head(todo[c]) \in Outbound
    BY <2>1
  <2>3. UNCHANGED down \/ Answer(c, <<Carry(Head(todo[c]))>>)
    BY <1>2 DEF Replay
  <2>4. HelloAck \in Elems(down'[c]) => HelloAck \in Elems(down[c])
    BY <1>a, <2>2, <2>3, FrameTypes, FramesApart
  <2> QED BY <1>2, <2>4 DEF Replay, outbox
<1>3. ASSUME NEW m \in Inbound, ServeInbound(c, m)
      PROVE  /\ HelloAck \in Elems(down'[c]) => HelloAck \in Elems(down[c])
             /\ active' = active
  BY <1>3, <1>a, FrameTypes, FramesApart DEF ServeInbound, outbox
<1>4. CASE \E o \in Outbound : ServeAck(c, o)
  BY <1>4 DEF ServeAck
<1>5. CASE Store(c)
  BY <1>5 DEF Store, wire, outbox
<1>6. ASSUME NEW s \in {"failed", "ok"}, Answer(c, <<Ack(Head(todo[c]), s)>>),
             stage[c] \in {"store", "publish"}
      PROVE  HelloAck \in Elems(down'[c]) => HelloAck \in Elems(down[c])
  <2>1. PICK m \in Inbound : todo[c] = <<m>>
    BY <1>6 DEF TypeOK, HoldsItsWork
  <2>2. Head(todo[c]) = m
    BY <2>1
  <2> QED BY <1>6, <1>a, <2>2, FrameTypes, FramesApart
<1>7. CASE Reject(c)
  BY <1>6, <1>7 DEF Reject, outbox
<1>8. CASE Publish(c)
  BY <1>6, <1>8 DEF Publish, outbox
<1>9. CASE Disconnect(c)
  BY <1>9 DEF Disconnect
<1> QED BY <1>1, <1>2, <1>3, <1>4, <1>5, <1>7, <1>8, <1>9 DEF Handler

LEMMA LinkByHandler ==
    ASSUME Inv, LinkInv, NEW c \in Conn, Handler(c)
    PROVE  LinkInv'
<1>1. /\ UNCHANGED <<phase, last, open>> /\ acked \subseteq acked'
      /\ \A d \in Conn \ {c} : up'[d] = up[d] /\ down'[d] = down[d] /\ skip'[d] = skip[d]
      /\ up'[c] = up[c] \/ up'[c] = <<>> \/ (up[c] # <<>> /\ up'[c] = Tail(up[c]))
      /\ skip'[c] \in {skip[c], acked, {}}
  BY HandlerEffects DEF client
<1>2. up \in [Conn -> Seq(UpFrame)] /\ up[c] \in Seq(UpFrame) /\ last \in Nat
  BY BridgeAssumption DEF Inv, TypeOK, Conn, NoConn
<1>3. \A d \in Conn : Elems(up'[d]) \subseteq Elems(up[d])
  BY <1>1, <1>2, ElemsOfTail, NoElems
<1>4. HelloFirst'
  BY <1>1, <1>2, HelloStaysFirst DEF LinkInv, HelloFirst
<1>5. FreshQueues'
  <2>1. ~(c > last)
    <3>1. stage[c] # "none"
      BY DEF Handler, ServeHello, ServeResume, Replay, ServeInbound, ServeAck, Taken, Store,
             Reject, Publish, Disconnect
    <3> QED BY <3>1 DEF Inv, Fresh
  <2> QED BY <1>1, <2>1 DEF LinkInv, FreshQueues
<1>6. SkipsAreAcked'
  BY <1>1 DEF LinkInv, SkipsAreAcked
<1>7. Greeted'
  <2> SUFFICES ASSUME open, phase \in {"resume", "up"} \/ HelloAck \in Elems(down'[last])
               PROVE  active' = last /\ \A d \in Conn : Hello \notin Elems(up'[d])
    BY <1>1 DEF Greeted
  <2>0. last \in Conn
    BY DEF Inv, TypeOK, Fresh
  <2>1. CASE phase \in {"resume", "up"} \/ HelloAck \in Elems(down[last])
    <3>1. active = last /\ \A d \in Conn : Hello \notin Elems(up[d])
      BY <2>1 DEF LinkInv, Greeted
    <3>2. ~ServeHello(c)
      <4>1. ServeHello(c) => Hello \in Elems(up[c])
        BY TakenElems DEF ServeHello, Inv
      <4> QED BY <3>1, <4>1
    <3>3. active' = last
      BY <3>1, <3>2, OnlyHelloGreets DEF Open
    <3> QED BY <1>3, <3>1, <3>3
  <2>2. CASE /\ phase \notin {"resume", "up"} /\ HelloAck \notin Elems(down[last])
             /\ HelloAck \in Elems(down'[last])
    <3>1. c = last /\ ServeHello(c)
      BY <1>1, <2>0, <2>2, OnlyHelloGreets
    <3>2. active' = last /\ Taken(c, Hello) /\ HelloInOrder(c)
      BY <3>1 DEF ServeHello
    <3>3. Hello \notin Elems(up'[c])
      <4>1. up'[c] = Tail(up[c]) /\ up[c] # <<>>
        BY <3>2, TakenElems DEF Inv
      <4> QED BY <4>1 DEF LinkInv, HelloFirst
    <3>4. ASSUME NEW d \in Conn, d # c PROVE Hello \notin Elems(up[d])
      <4>1. CASE d > c
        BY <3>1, <4>1, NoElems DEF LinkInv, FreshQueues
      <4>2. CASE ~(d > c)
        <5>1. d \in 1..(c - 1)
          BY <3>4, <4>2, BridgeAssumption DEF Conn
        <5> QED BY <3>2, <5>1 DEF HelloInOrder
      <4> QED BY <4>1, <4>2
    <3> QED BY <1>3, <3>2, <3>3, <3>4
  <2> QED BY <2>1, <2>2
<1> QED BY <1>4, <1>5, <1>6, <1>7 DEF LinkInv

LEMMA LinkKept ==
    ASSUME Inv, LinkInv, [Next]_vars
    PROVE  LinkInv'
<1>1. CASE UNCHANGED vars
  BY <1>1 DEF vars, client, wire, outbox, handlers, LinkInv, HelloFirst, FreshQueues, Greeted,
              SkipsAreAcked
<1>2. CASE \/ ClientStep \/ Cut
           \/ \E m \in Inbound : SendInbound(m)
           \/ \E o \in Outbound : Dispatch(o)
  BY <1>2, LinkByClient
<1>3. CASE \E c \in Conn : Handler(c)
  BY <1>3, LinkByHandler
<1>4. ASSUME NEW o \in Outbound, PushOutbound(o) PROVE LinkInv'
  <2>1. CASE active = NoConn
    BY <1>4, <2>1, LinkStays DEF PushOutbound, client, handlers
  <2>2. CASE active # NoConn
    <3>1. active \in Conn /\ Answer(active, <<Carry(o)>>) /\ Carry(o) \in DownFrame
          /\ Carry(o) # HelloAck
      BY <1>4, <2>2, FrameTypes, FramesApart DEF PushOutbound, Inv, TypeOK
    <3>2. /\ \A d \in Conn \ {active} : down'[d] = down[d]
          /\ Open(active) => Elems(down'[active]) = Elems(down[active]) \cup {Carry(o)}
          /\ ~Open(active) => down' = down
      BY <3>1, AnswerElems DEF Inv
    <3>3. /\ \A d \in Conn \ {last} : down'[d] = down[d]
          /\ HelloAck \in Elems(down'[last]) => HelloAck \in Elems(down[last])
      BY <3>1, <3>2 DEF Open
    <3> QED BY <1>4, <3>3, LinkStays DEF PushOutbound, client, handlers
  <2> QED BY <2>1, <2>2
<1>5. CASE Restart
  <2>1. /\ \A c \in Conn : up'[c] = <<>> /\ down'[c] = down[c] /\ skip'[c] = {}
        /\ last' = last /\ open' = FALSE
    BY <1>5 DEF Restart
  <2> QED BY <2>1 DEF LinkInv, HelloFirst, FreshQueues, Greeted, SkipsAreAcked
<1> QED BY <1>1, <1>2, <1>3, <1>4, <1>5 DEF Next

-----------------------------------------------------------------------------
(* The frame of m is where its caller may wait for it.                     *)
OnItsWay(m) == \/ m \in Elems(resend)
               \/ Carry(m) \in Elems(up[last])
               \/ InHandOf(last, m)
               \/ \E s \in {"ok", "duplicate", "failed"} : Ack(m, s) \in Elems(down[last])

Waits(m) == m \in Elems(pending) /\ (phase = "up" /\ open => OnItsWay(m))

LEMMA WaitingByClient ==
    ASSUME Inv, WaitingIsCarried, NEW m \in Inbound, caller'[m] = "waiting",
           \/ ClientStep \/ Cut
           \/ \E k \in Inbound : SendInbound(k)
           \/ \E o \in Outbound : Dispatch(o)
    PROVE  Waits(m)'
<1> USE DEF Inv
<1>0. /\ caller \in [Inbound -> Caller] /\ pending \in Seq(Inbound) /\ resend \in Seq(Inbound)
      /\ phase # "down" => last \in Conn
  BY DEF TypeOK, Fresh
<1>w. caller[m] = "waiting" => Waits(m)
  BY DEF WaitingIsCarried, Waits, OnItsWay
<1>u. ASSUME NEW f \in UpFrame, Up(f), open
      PROVE  Elems(up'[last]) = Elems(up[last]) \cup {f}
  BY <1>u, UpElems
<1>r. ASSUME NEW f, Receives(f), \A s \in {"ok", "duplicate", "failed"} : f # Ack(m, s), Waits(m),
             UNCHANGED <<resend, last, open, up, stage, todo>>
      PROVE  phase = "up" /\ open => OnItsWay(m)'
  <2>1. Elems(down[last]) = {f} \cup Elems(down'[last])
    BY <1>0, <1>r, ReadElems DEF Receives
  <2> QED BY <1>r, <2>1 DEF Waits, OnItsWay, InHandOf
<1>1. CASE Connect \/ Drop \/ Handshake \/ Cut
  BY <1>1, <1>w DEF Connect, Drop, Handshake, Cut, client, Waits
<1>2. CASE StartResend
  BY <1>2, <1>w DEF StartResend, Waits, OnItsWay
<1>3. CASE Resend
  <2>1. /\ Up(Carry(Head(resend))) /\ resend # <<>> /\ resend' = Tail(resend)
        /\ UNCHANGED <<phase, pending, caller, last, open, down, stage, todo>>
    BY <1>3 DEF Resend, handlers
  <2>2. Elems(resend) = {Head(resend)} \cup Elems(resend') /\ Head(resend) \in Inbound
    BY <1>0, <2>1, ElemsOfHead
  <2>3. open => Elems(up'[last]) = Elems(up[last]) \cup {Carry(Head(resend))}
    BY <1>u, <2>1, <2>2, FrameTypes
  <2> QED BY <1>w, <2>1, <2>2, <2>3 DEF Waits, OnItsWay, InHandOf
<1>4. ASSUME NEW k \in Inbound, NEW s \in {"ok", "duplicate", "failed"}, ReceiveAck(k, s)
      PROVE  Waits(m)'
  <2>1. k # m /\ caller[m] = "waiting"
    BY <1>0, <1>4 DEF ReceiveAck
  <2>2. m \in Elems(pending')
    <3>1. Elems(pending) \ {k} \subseteq Elems(Without(pending, k))
      BY <1>0, ElemsOfWithout
    <3> QED BY <1>4, <1>w, <2>1, <3>1 DEF ReceiveAck, Waits
  <2>3. \A r \in {"ok", "duplicate", "failed"} : Ack(k, s) # Ack(m, r)
    BY <2>1, FramesApart
  <2>4. phase = "up" /\ open => OnItsWay(m)'
    BY <1>4, <1>r, <1>w, <2>1, <2>3 DEF ReceiveAck, handlers
  <2> QED BY <1>4, <2>2, <2>4 DEF ReceiveAck, Waits
<1>5. ASSUME NEW o \in Outbound, ReceiveOutbound(o) PROVE Waits(m)'
  <2>1. \A r \in {"ok", "duplicate", "failed"} : Carry(o) # Ack(m, r)
    BY FramesApart
  <2> QED BY <1>5, <1>r, <1>w, <2>1 DEF ReceiveOutbound, handlers, Waits
<1>6. ASSUME NEW k \in Inbound, SendInbound(k) PROVE Waits(m)'
  <2>1. /\ Up(Carry(k)) /\ pending' = Append(pending, k) /\ \A n \in Inbound \ {k} : caller'[n] = caller[n]
        /\ UNCHANGED <<phase, resend, last, open, down, stage, todo>>
    BY <1>0, <1>6 DEF SendInbound, handlers
  <2>2. Elems(pending') = Elems(pending) \cup {k}
    BY <1>0, <2>1, ElemsOfAppend
  <2>3. open => Elems(up'[last]) = Elems(up[last]) \cup {Carry(k)}
    BY <1>u, <2>1, FrameTypes
  <2>4. CASE k = m
    BY <2>1, <2>2, <2>3, <2>4 DEF Waits, OnItsWay
  <2>5. CASE k # m
    BY <1>w, <2>1, <2>2, <2>3, <2>5 DEF Waits, OnItsWay, InHandOf
  <2> QED BY <2>4, <2>5
<1>7. ASSUME NEW o \in Outbound, Dispatch(o) PROVE Waits(m)'
  <2>1. UNCHANGED <<phase, resend, pending, caller, last, open, down, stage, todo>>
    BY <1>7 DEF Dispatch, handlers
  <2>2. open => Elems(up[last]) \subseteq Elems(up'[last])
    BY <1>7, <1>u, FrameTypes DEF Dispatch
  <2> QED BY <1>w, <2>1, <2>2 DEF Waits, OnItsWay, InHandOf
<1> QED BY <1>1, <1>2, <1>3, <1>4, <1>5, <1>6, <1>7 DEF ClientStep

LEMMA WaitingByHandler ==
    ASSUME Inv, WaitingIsCarried, NEW m \in Inbound, caller'[m] = "waiting",
           NEW c \in Conn, Handler(c)
    PROVE  Waits(m)'
<1> USE DEF Inv
<1>1. /\ UNCHANGED <<client, last, open>>
      /\ \A d \in Conn \ {c} : /\ up'[d] = up[d] /\ down'[d] = down[d]
                               /\ stage'[d] = stage[d] /\ todo'[d] = todo[d]
      /\ Elems(down[c]) \subseteq Elems(down'[c])
  BY HandlerEffects
<1>2. /\ UNCHANGED <<phase, resend, pending, caller>>
      /\ m \in Elems(pending) /\ (phase = "up" /\ open => OnItsWay(m))
      /\ phase # "down" => last \in Conn
  BY <1>1 DEF client, WaitingIsCarried, OnItsWay, TypeOK, Fresh
<1>3. CASE c # last
  BY <1>1, <1>2, <1>3 DEF Waits, OnItsWay, InHandOf
<1>4. CASE ~open
  BY <1>1, <1>2, <1>4 DEF Waits
<1>5. CASE c = last /\ open
  <2> SUFFICES ASSUME phase = "up" PROVE OnItsWay(m)'
    BY <1>1, <1>2 DEF Waits
  <2>0. OnItsWay(m) /\ Open(c) /\ UNCHANGED <<last, resend>>
    BY <1>1, <1>2, <1>5 DEF Open
  <2>a. ASSUME NEW s \in {"ok", "duplicate", "failed"}, Answer(c, <<Ack(m, s)>>)
        PROVE  OnItsWay(m)'
    BY <1>5, <2>0, <2>a, FrameTypes, AnswerElems DEF OnItsWay
  <2>t. ASSUME NEW f, Taken(c, f), f # Carry(m) PROVE OnItsWay(m)'
    <3>1. Elems(up[c]) = {f} \cup Elems(up'[c]) /\ stage[c] = "idle"
      BY <2>t, TakenElems
    <3>2. ~InHandOf(last, m)
      BY <1>5, <3>1 DEF InHandOf
    <3> QED BY <1>1, <1>5, <2>0, <2>t, <3>1, <3>2 DEF OnItsWay
  <2>h. ASSUME up' = up, ~InHandOf(last, m) PROVE OnItsWay(m)'
    BY <1>1, <1>5, <2>0, <2>h DEF OnItsWay
  <2>1. CASE ServeHello(c) \/ ServeResume(c) \/ \E o \in Outbound : ServeAck(c, o)
    <3>1. Hello # Carry(m) /\ Resume # Carry(m) /\ \A o \in Outbound : Ack(o, "ok") # Carry(m)
      BY FramesApart
    <3> QED BY <2>1, <2>t, <3>1 DEF ServeHello, ServeResume, ServeAck
  <2>2. CASE Replay(c)
    BY <1>5, <2>2, <2>h DEF Replay, InHandOf
  <2>3. ASSUME NEW k \in Inbound, ServeInbound(c, k) PROVE OnItsWay(m)'
    <3>1. CASE k # m
      <4>1. Carry(k) # Carry(m)
        BY <3>1, FramesApart
      <4> QED BY <2>3, <2>t, <4>1 DEF ServeInbound
    <3>2. CASE k = m /\ m \in Elems(processed)
      BY <2>3, <2>a, <3>2 DEF ServeInbound
    <3>3. CASE k = m /\ m \notin Elems(processed)
      <4>1. stage'[c] = "store" /\ todo'[c] = <<m>>
        BY <2>3, <3>3 DEF ServeInbound, Work, TypeOK
      <4>2. Head(todo'[c]) = m
        BY <4>1
      <4> QED BY <1>5, <2>0, <4>1, <4>2 DEF OnItsWay, InHandOf
    <3> QED BY <3>1, <3>2, <3>3
  <2>4. CASE Store(c)
    <3>1. stage'[c] = "publish" /\ UNCHANGED <<todo, up, down>>
      BY <2>4 DEF Store, wire, TypeOK
    <3> QED BY <1>5, <2>0, <3>1 DEF OnItsWay, InHandOf
  <2>5. ASSUME stage[c] \in {"store", "publish"}, up' = up,
               NEW s \in {"ok", "failed"}, Answer(c, <<Ack(Head(todo[c]), s)>>)
        PROVE  OnItsWay(m)'
    <3>1. CASE InHandOf(c, m)
      BY <2>a, <2>5, <3>1 DEF InHandOf
    <3>2. CASE ~InHandOf(c, m)
      BY <1>5, <2>5, <2>h, <3>2
    <3> QED BY <3>1, <3>2
  <2>6. CASE Reject(c) \/ Publish(c)
    BY <2>5, <2>6 DEF Reject, Publish
  <2>7. CASE Disconnect(c)
    BY <2>0, <2>7 DEF Disconnect
  <2> QED BY <2>1, <2>2, <2>3, <2>4, <2>6, <2>7 DEF Handler
<1> QED BY <1>3, <1>4, <1>5

(* What the server pushes is added to what is under way to the client.     *)
LEMMA PushedElems ==
    ASSUME Inv, NEW o \in Outbound, PushOutbound(o)
    PROVE  /\ UNCHANGED <<client, last, open, up, acked, active, handlers, refused>>
           /\ \A c \in Conn : Elems(down[c]) \subseteq Elems(down'[c])
           /\ active \in Conn /\ Open(active) => Carry(o) \in Elems(down'[active])
           /\ Elems(backlog') \subseteq Elems(backlog) \cup {o}
<1> USE DEF Inv
<1>1. UNCHANGED <<client, last, open, up, acked, active, handlers, refused>>
  BY DEF PushOutbound, dispatches
<1>2. ASSUME active \in Conn
      PROVE  /\ \A c \in Conn : Elems(down[c]) \subseteq Elems(down'[c])
             /\ Open(active) => Carry(o) \in Elems(down'[active])
  <2>1. Answer(active, <<Carry(o)>>) /\ Carry(o) \in DownFrame
    BY <1>2, BridgeAssumption, FrameTypes DEF PushOutbound, Conn, NoConn
  <2> QED BY <1>2, <2>1, AnswerElems
<1>3. ASSUME active \notin Conn
      PROVE  \A c \in Conn : Elems(down[c]) \subseteq Elems(down'[c])
  BY <1>3 DEF PushOutbound, TypeOK
<1>4. Elems(backlog') \subseteq Elems(backlog) \cup {o}
  <2>1. backlog \in Seq(Outbound) /\ Len(backlog) <= BacklogSize
    BY DEF TypeOK
  <2>2. CASE Len(backlog) = BacklogSize
    <3> DEFINE b == Tail(backlog)
    <3>1. backlog # <<>> /\ backlog' = Append(b, o)
      BY <2>1, <2>2, BridgeAssumption DEF PushOutbound, Keep
    <3>2. b \in Seq(Outbound) /\ Elems(b) \subseteq Elems(backlog)
      BY <2>1, <3>1, ElemsOfTail
    <3> HIDE DEF b
    <3>3. Elems(backlog') = Elems(b) \cup {o}
      BY <3>1, <3>2, ElemsOfAppend
    <3> QED BY <3>2, <3>3
  <2>3. CASE Len(backlog) # BacklogSize
    <3>1. backlog' = Append(backlog, o)
      BY <2>3 DEF PushOutbound, Keep
    <3> QED BY <2>1, <3>1, ElemsOfAppend
  <2> QED BY <2>2, <2>3
<1> QED BY <1>1, <1>2, <1>3, <1>4

LEMMA WaitingKept ==
    ASSUME Inv, WaitingIsCarried, [Next]_vars
    PROVE  WaitingIsCarried'
<1> SUFFICES ASSUME NEW m \in Inbound, caller'[m] = "waiting" PROVE Waits(m)'
  BY DEF WaitingIsCarried, Waits, OnItsWay
<1>w. caller[m] = "waiting" => Waits(m)
  BY DEF WaitingIsCarried, Waits, OnItsWay
<1>1. CASE UNCHANGED vars
  BY <1>1, <1>w DEF vars, client, wire, handlers, Waits, OnItsWay, InHandOf
<1>2. CASE \/ ClientStep \/ Cut
           \/ \E k \in Inbound : SendInbound(k)
           \/ \E o \in Outbound : Dispatch(o)
  BY <1>2, WaitingByClient
<1>3. CASE \E c \in Conn : Handler(c)
  BY <1>3, WaitingByHandler
<1>4. ASSUME NEW o \in Outbound, PushOutbound(o) PROVE Waits(m)'
  <2>1. /\ UNCHANGED <<phase, resend, pending, caller, last, open, up, stage, todo>>
        /\ \A c \in Conn : Elems(down[c]) \subseteq Elems(down'[c])
        /\ phase # "down" => last \in Conn
    BY <1>4, PushedElems DEF client, handlers, Inv, TypeOK, Fresh
  <2> QED BY <1>w, <2>1 DEF Waits, OnItsWay, InHandOf
<1>5. CASE Restart
  BY <1>5, <1>w DEF Restart, client, Waits
<1> QED BY <1>1, <1>2, <1>3, <1>4, <1>5 DEF Next

(* No caller waits on an intact connection for a frame that is lost        *)
(* (WsBridgeClient.send_inbound, _handshake and the handler of             *)
(* UserGateway).                                                           *)
THEOREM WaitingIsCarriedHolds == SafeSpec => []WaitingIsCarried
<1>1. Init => WaitingIsCarried
  BY DEF Init, WaitingIsCarried
<1> QED BY <1>1, InitInv, NextKeepsInv, WaitingKept, PTL DEF SafeSpec
-----------------------------------------------------------------------------
(* Where a frame of the backlog may be that is not acknowledged.           *)
Held(o) == \/ o \in Elems(todo[last])
           \/ Carry(o) \in Elems(down[last])
           \/ dispatching[o] > 0
           \/ Ack(o, "ok") \in Elems(up[last])
           \/ o \in refused

Holds(o) == /\ phase \in {"resume", "up"} /\ open
            /\ Resume \notin Elems(up[last])
            /\ o \in Unacked
            => Held(o)

LEMMA BacklogByClient ==
    ASSUME Inv, BacklogIsCarried, NEW o \in Outbound,
           \/ ClientStep \/ Cut
           \/ \E m \in Inbound : SendInbound(m)
           \/ \E p \in Outbound : Dispatch(p)
    PROVE  Holds(o)'
<1> USE DEF Inv
<1>0. /\ dispatching \in [Outbound -> Nat] /\ resend \in Seq(Inbound)
      /\ phase # "down" => last \in Conn
  BY DEF TypeOK, Fresh
<1>h. Holds(o)
  BY DEF BacklogIsCarried, Holds, Held
<1>u. ASSUME NEW f \in UpFrame, Up(f), open
      PROVE  Elems(up'[last]) = Elems(up[last]) \cup {f}
  BY <1>u, UpElems
<1>1. CASE Connect \/ Drop \/ Cut
  BY <1>1 DEF Connect, Drop, Cut, Holds
<1>2. CASE Handshake
  <2>1. UNCHANGED <<open, last>> /\ Up(Resume) /\ Resume \in UpFrame
    BY <1>2, FrameTypes DEF Handshake
  <2>2. open => Resume \in Elems(up'[last])
    BY <1>u, <2>1
  <2> QED BY <2>1, <2>2 DEF Holds
<1>3. CASE StartResend
  BY <1>3, <1>h DEF StartResend, wire, outbox, handlers, dispatches, Unacked, Holds, Held
<1>s. ASSUME NEW m \in Inbound, Up(Carry(m)), phase' = phase,
             UNCHANGED <<dispatching, last, open, down, todo, backlog, acked, refused>>
      PROVE  Holds(o)'
  <2>1. open => Elems(up'[last]) = Elems(up[last]) \cup {Carry(m)}
    BY <1>s, <1>u, FrameTypes
  <2> QED BY <1>h, <1>s, <2>1 DEF Unacked, Holds, Held
<1>4. CASE Resend
  <2>1. Head(resend) \in Inbound
    BY <1>0, <1>4, ElemsOfTail DEF Resend
  <2> QED BY <1>4, <1>s, <2>1 DEF Resend, outbox, handlers, dispatches
<1>5. CASE \E m \in Inbound : SendInbound(m)
  BY <1>5, <1>s DEF SendInbound, outbox, handlers, dispatches
<1>r. ASSUME NEW f, Receives(f) PROVE Elems(down[last]) = {f} \cup Elems(down'[last])
  BY <1>0, <1>r, ReadElems DEF Receives
<1>6. ASSUME NEW m \in Inbound, NEW s \in {"ok", "duplicate", "failed"}, ReceiveAck(m, s)
      PROVE  Holds(o)'
  <2>1. /\ Receives(Ack(m, s))
        /\ UNCHANGED <<phase, dispatching, last, open, up, todo, backlog, acked, refused>>
    BY <1>6 DEF ReceiveAck, outbox, handlers, dispatches
  <2>2. Ack(m, s) # Carry(o)
    BY FramesApart
  <2>3. Elems(down[last]) = {Ack(m, s)} \cup Elems(down'[last])
    BY <1>r, <2>1
  <2> QED BY <1>h, <2>1, <2>2, <2>3 DEF Unacked, Holds, Held
<1>7. ASSUME NEW p \in Outbound, ReceiveOutbound(p) PROVE Holds(o)'
  <2>1. /\ Receives(Carry(p)) /\ dispatching' = [dispatching EXCEPT ![p] = @ + 1]
        /\ UNCHANGED <<phase, last, open, up, todo, backlog, acked, refused>>
    BY <1>7 DEF ReceiveOutbound, outbox, handlers, dispatches
  <2>2. Elems(down[last]) = {Carry(p)} \cup Elems(down'[last])
    BY <1>r, <2>1
  <2>3. CASE o = p
    <3>1. dispatching'[o] > 0
      BY <1>0, <2>1, <2>3
    <3> QED BY <3>1 DEF Holds, Held
  <2>4. CASE o # p
    <3>1. dispatching'[o] = dispatching[o] /\ Carry(p) # Carry(o)
      BY <1>0, <2>1, <2>4, FramesApart
    <3> QED BY <1>h, <2>1, <2>2, <3>1 DEF Unacked, Holds, Held
  <2> QED BY <2>3, <2>4
<1>8. ASSUME NEW p \in Outbound, Dispatch(p) PROVE Holds(o)'
  <2>1. /\ dispatching' = [dispatching EXCEPT ![p] = @ - 1] /\ refused \subseteq refused'
        /\ UNCHANGED <<phase, last, open, down, todo, backlog, acked>>
        /\ Up(Ack(p, "ok")) \/ (p \in refused' /\ up' = up)
    BY <1>8 DEF Dispatch, outbox, handlers
  <2>2. Ack(p, "ok") \in UpFrame /\ Ack(p, "ok") # Resume
    BY FrameTypes, FramesApart
  <2>3. open => \/ Elems(up'[last]) = Elems(up[last]) \cup {Ack(p, "ok")}
                \/ p \in refused' /\ up' = up
    BY <1>u, <2>1, <2>2
  <2>4. CASE o = p
    BY <2>1, <2>3, <2>4 DEF Holds, Held
  <2>5. CASE o # p
    <3>1. dispatching'[o] = dispatching[o]
      BY <1>0, <2>1, <2>5
    <3> QED BY <1>h, <2>1, <2>2, <2>3, <3>1 DEF Unacked, Holds, Held
  <2> QED BY <2>4, <2>5
<1> QED BY <1>1, <1>2, <1>3, <1>4, <1>5, <1>6, <1>7, <1>8 DEF ClientStep

LEMMA BacklogByHandler ==
    ASSUME Inv, LinkInv, BacklogIsCarried, NEW o \in Outbound, NEW c \in Conn, Handler(c)
    PROVE  Holds(o)'
<1> USE DEF Inv
<1>1. /\ UNCHANGED <<client, last, open, backlog>> /\ acked \subseteq acked'
      /\ \A d \in Conn \ {c} : up'[d] = up[d] /\ down'[d] = down[d] /\ todo'[d] = todo[d]
      /\ Elems(down[c]) \subseteq Elems(down'[c])
  BY HandlerEffects
<1>2. refused' = refused
  BY DEF Handler, ServeHello, ServeResume, Replay, ServeInbound, ServeAck, Store, Reject,
         Publish, Disconnect, dispatches
<1>3. UNCHANGED <<phase, dispatching>> /\ (phase # "down" => last \in Conn)
  BY <1>1 DEF client, TypeOK, Fresh
<1> SUFFICES ASSUME phase \in {"resume", "up"}, open, Resume \notin Elems(up'[last]), o \in Unacked'
             PROVE  Held(o)'
  BY <1>1, <1>3 DEF Holds
<1>4. o \in Unacked
  BY <1>1 DEF Unacked
<1>h. Resume \notin Elems(up[last]) => Held(o)
  BY <1>4 DEF BacklogIsCarried, Held
<1>5. CASE c # last
  BY <1>1, <1>2, <1>3, <1>5, <1>h DEF Held
<1>6. CASE c = last
  <2>t. ASSUME NEW f, Taken(c, f), f # Resume, f # Ack(o, "ok"),
               todo'[c] = todo[c] \/ todo[c] = <<>>
        PROVE  Held(o)'
    <3>1. Elems(up[c]) = {f} \cup Elems(up'[c])
      BY <2>t, TakenElems
    <3>2. o \in Elems(todo[c]) => o \in Elems(todo'[c])
      BY <2>t, NoElems
    <3> QED BY <1>1, <1>2, <1>3, <1>6, <1>h, <2>t, <3>1, <3>2 DEF Held
  <2>h. ASSUME up' = up, o \in Elems(todo[c]) => o \in Elems(todo'[c]) PROVE Held(o)'
    BY <1>1, <1>2, <1>3, <1>6, <1>h, <2>h DEF Held
  <2>1. CASE ServeHello(c)
    <3>1. Hello # Resume /\ Hello # Ack(o, "ok")
      BY FramesApart
    <3> QED BY <2>1, <2>t, <3>1 DEF ServeHello, handlers
  <2>2. CASE ServeResume(c)
    <3>1. todo'[c] = backlog
      BY <2>2 DEF ServeResume, Replaying, TypeOK
    <3> QED BY <1>1, <1>4, <1>6, <3>1 DEF Unacked, Held
  <2>3. CASE Replay(c)
    <3>1. todo[c] \in Seq(Outbound) /\ todo[c] # <<>> /\ todo'[c] = Tail(todo[c]) /\ up' = up
      BY <2>3 DEF Replay, Replaying, TypeOK, HoldsItsWork
    <3>2. Elems(todo[c]) = {Head(todo[c])} \cup Elems(todo'[c])
      BY <3>1, ElemsOfHead
    <3>3. CASE o = Head(todo[c])
      <4>1. o \notin skip[c]
        BY <1>4 DEF LinkInv, SkipsAreAcked, Unacked
      <4>2. Answer(c, <<Carry(o)>>)
        BY <2>3, <3>3, <4>1 DEF Replay
      <4>3. Carry(o) \in Elems(down'[c])
        BY <1>6, <4>2, FrameTypes, AnswerElems DEF Open
      <4> QED BY <1>1, <1>6, <4>3 DEF Held
    <3>4. CASE o # Head(todo[c])
      BY <2>h, <3>1, <3>2, <3>4
    <3> QED BY <3>3, <3>4
  <2>4. CASE \E m \in Inbound : ServeInbound(c, m)
    <3>1. PICK m \in Inbound : ServeInbound(c, m)
      BY <2>4
    <3>2. Taken(c, Carry(m)) /\ todo[c] = <<>>
      BY <3>1, TakenElems DEF ServeInbound
    <3>3. Carry(m) # Resume /\ Carry(m) # Ack(o, "ok")
      BY FramesApart
    <3> QED BY <2>t, <3>2, <3>3
  <2>5. CASE \E p \in Outbound : ServeAck(c, p)
    <3>1. PICK p \in Outbound : ServeAck(c, p)
      BY <2>5
    <3>2. Taken(c, Ack(p, "ok")) /\ acked' = acked \cup {p} /\ todo' = todo
      BY <3>1 DEF ServeAck, handlers
    <3>3. o # p
      BY <3>2 DEF Unacked
    <3>4. Ack(p, "ok") # Resume /\ Ack(p, "ok") # Ack(o, "ok")
      BY <3>3, FramesApart
    <3> QED BY <2>t, <3>2, <3>4
  <2>6. CASE Store(c)
    BY <2>6, <2>h DEF Store, wire
  <2>7. CASE Reject(c) \/ Publish(c)
    <3>1. up' = up /\ stage[c] \in {"store", "publish"}
      BY <2>7 DEF Reject, Publish
    <3>2. PICK m \in Inbound : todo[c] = <<m>>
      BY <3>1 DEF TypeOK, HoldsItsWork
    <3>3. o \notin Elems(todo[c])
      BY <3>2, BridgeAssumption DEF Elems
    <3> QED BY <2>h, <3>1, <3>3
  <2>8. CASE Disconnect(c)
    BY <1>6, <2>8 DEF Disconnect, Open
  <2> QED BY <2>1, <2>2, <2>3, <2>4, <2>5, <2>6, <2>7, <2>8 DEF Handler
<1> QED BY <1>5, <1>6

LEMMA BacklogKept ==
    ASSUME Inv, LinkInv, BacklogIsCarried, [Next]_vars, LinkInv'
    PROVE  BacklogIsCarried'
<1>1. phase' \in {"resume", "up"} /\ open' => active' = last'
  BY DEF LinkInv, Greeted
<1>2. ASSUME NEW o \in Outbound PROVE Holds(o)'
  <2>h. Holds(o)
    BY DEF BacklogIsCarried, Holds, Held
  <2>1. CASE UNCHANGED vars
    BY <2>1, <2>h DEF vars, client, wire, outbox, handlers, dispatches, Unacked, Holds, Held
  <2>2. CASE \/ ClientStep \/ Cut
             \/ \E m \in Inbound : SendInbound(m)
             \/ \E p \in Outbound : Dispatch(p)
    BY <2>2, BacklogByClient
  <2>3. CASE \E c \in Conn : Handler(c)
    BY <2>3, BacklogByHandler
  <2>4. ASSUME NEW p \in Outbound, PushOutbound(p) PROVE Holds(o)'
    <3>1. /\ UNCHANGED <<phase, dispatching, last, open, up, acked, active, todo, refused>>
          /\ \A c \in Conn : Elems(down[c]) \subseteq Elems(down'[c])
          /\ active \in Conn /\ Open(active) => Carry(p) \in Elems(down'[active])
          /\ Elems(backlog') \subseteq Elems(backlog) \cup {p}
          /\ phase # "down" => last \in Conn
      BY <2>4, PushedElems DEF client, handlers, Inv, TypeOK, Fresh
    <3>2. phase \in {"resume", "up"} /\ open => Carry(p) \in Elems(down'[last])
      BY <3>1 DEF BacklogIsCarried, Open
    <3>3. CASE o = p
      BY <3>1, <3>2, <3>3 DEF Holds, Held
    <3>4. CASE o # p
      BY <2>h, <3>1, <3>4 DEF Unacked, Holds, Held
    <3> QED BY <3>3, <3>4
  <2>5. CASE Restart
    BY <2>5 DEF Restart, Holds
  <2> QED BY <2>1, <2>2, <2>3, <2>4, <2>5 DEF Next
<1>3. Elems(backlog') \subseteq Outbound
  <2>1. Inv'
    BY NextKeepsInv
  <2>2. backlog' \in Seq(Outbound)
    BY <2>1 DEF Inv, TypeOK
  <2> QED BY <2>2 DEF Elems
<1> QED BY <1>1, <1>2, <1>3 DEF BacklogIsCarried, Holds, Held, Unacked

(* What the server holds unacknowledged is not lost on an intact           *)
(* connection, and it sends to that one (UserGateway.push_outbound,        *)
(* _replay_backlog and WsBridgeClient._dispatch_outbound_and_ack).         *)
THEOREM BacklogIsCarriedHolds == SafeSpec => []BacklogIsCarried
<1>1. Init => BacklogIsCarried
  BY DEF Init, BacklogIsCarried
<1> QED BY <1>1, InitInv, NextKeepsInv, LinkInit, LinkKept, BacklogKept, PTL DEF SafeSpec

(***************************************************************************)
(* Requests and files: BridgeRequests.  ReqInv is inductive; it says which *)
(* frames of a request can be under way and what each of them tells of its *)
(* call, so that an answer in the queue already knows the chunks in front  *)
(* of it.                                                                  *)
(***************************************************************************)

(* The frames of one direction.                                            *)
Frames(q) == {q[i] : i \in DOMAIN q}

(* Frames of a lost connection are gone.                                   *)
LostIsGone == ~req_up => req_out = <<>> /\ req_in = <<>>

(* Of a request there is one frame under way, or the chunks of its file    *)
(* followed by the acknowledgement.                                        *)
OneFrameEach ==
    /\ \A i, j \in DOMAIN req_out : i # j => req_out[i].req # req_out[j].req
    /\ \A i \in DOMAIN req_out, j \in DOMAIN req_in : req_out[i].req # req_in[j].req
    /\ \A i, j \in DOMAIN req_in : i < j /\ req_in[i].req = req_in[j].req =>
          req_in[i].type = "file_get_chunk" /\ req_in[j].type # "outbound"

(* A frame to the business side belongs to what its caller waits for.      *)
AsksFor(f, call) ==
    \/ f.type = "session_open" /\ call.kind = "open"
    \/ f.type = "file_put_init" /\ call.kind = "upload" /\ call.seq = 0
    \/ /\ f.type = "file_put_chunk" /\ call.kind = "upload"
       /\ f.seq < call.size /\ call.seq = f.seq + 1
    \/ /\ f.type = "file_put_commit" /\ call.kind = "upload"
       /\ f.total = call.size /\ call.seq = call.size + 1
    \/ f.type = "file_get" /\ call.kind \in {"download", "dispatch"} /\ call.got = {}

Asked(f) ==
    LET call == req_call[f.req]
    IN \/ f.type = "gateway_control" /\ call.kind = "control"
       \/ call.at = "waiting" /\ AsksFor(f, call)

(* What a caller that is told "ok" may rely on, when it has these chunks.  *)
Granted(r, got) ==
    LET call == req_call[r]
    IN /\ call.kind = "open" => r \in req_sessions
       /\ call.kind = "upload" /\ call.seq = call.size + 1
             => \E f \in req_files : f[1] = r
       /\ call.kind \in {"download", "dispatch"} => got = Chunks(r)

(* The chunks of a request that are under way.                             *)
Coming(r) ==
    {f.seq : f \in {g \in Frames(req_in) : g.req = r /\ g.type = "file_get_chunk"}}

Good == {"ok", "duplicate"}

(* So does a frame to the gateway.                                         *)
Answers(f) ==
    LET call == req_call[f.req]
    IN \/ f.type = "outbound" /\ call.kind = "dispatch" /\ call.at \in {"pushed", "waiting"}
       \/ /\ f.type = "file_get_chunk" /\ call.kind \in {"download", "dispatch"}
          /\ call.at = "waiting" /\ f.seq < call.size
       \/ /\ f.type = "answer"
          /\ \/ call.kind = "control"
             \/ /\ call.at = "waiting"
                /\ f.status \in Good => Granted(f.req, call.got \cup Coming(f.req))

FramesFit == /\ \A f \in Frames(req_out) : Asked(f)
             /\ \A f \in Frames(req_in) : Answers(f)

CallFits(r) ==
    LET call == req_call[r]
    IN /\ call.at = "dispatching" => call.kind = "dispatch" /\ call.got = {}
       /\ call.kind = "upload" => /\ call.seq <= call.size + 1
                                  /\ call.at = "done" => call.seq = call.size + 1
       /\ (call.at = "answered" /\ call.status \in Good) \/ call.at = "done"
             => Granted(r, call.got)

(* What is stored of an upload are chunks of its file.                     *)
StoreFits ==
    /\ \A u \in DOMAIN req_uploads :
          req_call[u].kind = "upload" /\ req_uploads[u] \subseteq Chunks(u)
    /\ \A f \in req_files : req_call[f[1]].kind = "upload" /\ f[2] = Chunks(f[1])

ReqInv == /\ ReqTypeOK /\ LostIsGone /\ OneFrameEach /\ FramesFit /\ StoreFits
          /\ \A r \in Request : CallFits(r)

(***************************************************************************)
(* Sequences of frames.                                                    *)
(***************************************************************************)
LEMMA OutFrames ==
    \A q \in Seq(OutFrame) :
        /\ Len(q) \in Nat /\ DOMAIN q = 1..Len(q)
        /\ \A i \in 1..Len(q) : q[i] \in OutFrame
        /\ \A f \in OutFrame :
              /\ Append(q, f) \in Seq(OutFrame) /\ DOMAIN Append(q, f) = 1..Len(q) + 1
              /\ \A i \in 1..Len(q) : Append(q, f)[i] = q[i]
              /\ Append(q, f)[Len(q) + 1] = f
        /\ q # <<>> =>
              /\ Head(q) = q[1] /\ Head(q) \in OutFrame /\ Len(q) > 0
              /\ Tail(q) \in Seq(OutFrame) /\ DOMAIN Tail(q) = 1..Len(q) - 1
              /\ \A i \in 1..Len(q) - 1 : Tail(q)[i] = q[i + 1]
  OBVIOUS

LEMMA InFrames ==
    \A q \in Seq(InFrame) :
        /\ Len(q) \in Nat /\ DOMAIN q = 1..Len(q)
        /\ \A i \in 1..Len(q) : q[i] \in InFrame
        /\ q # <<>> =>
              /\ Head(q) = q[1] /\ Head(q) \in InFrame /\ Len(q) > 0
              /\ Tail(q) \in Seq(InFrame) /\ DOMAIN Tail(q) = 1..Len(q) - 1
              /\ \A i \in 1..Len(q) - 1 : Tail(q)[i] = q[i + 1]
  OBVIOUS

LEMMA JoinedFrames ==
    \A p, q \in Seq(InFrame) :
        /\ p \o q \in Seq(InFrame) /\ DOMAIN (p \o q) = 1..Len(p) + Len(q)
        /\ Len(p) \in Nat /\ Len(q) \in Nat
        /\ \A i \in 1..Len(p) : (p \o q)[i] = p[i]
        /\ \A i \in 1..Len(p) + Len(q) : i \notin 1..Len(p) =>
              i - Len(p) \in 1..Len(q) /\ (p \o q)[i] = q[i - Len(p)]
        /\ \A i \in 1..Len(q) : (p \o q)[Len(p) + i] = q[i]
  OBVIOUS

LEMMA FramesSent ==
    ASSUME NEW q \in Seq(OutFrame), NEW f \in OutFrame
    PROVE  /\ Append(q, f) \in Seq(OutFrame)
           /\ Frames(Append(q, f)) = Frames(q) \cup {f}
<1>1. ASSUME NEW g \in Frames(Append(q, f)) PROVE g \in Frames(q) \cup {f}
  <2>1. PICK i \in 1..Len(q) + 1 : g = Append(q, f)[i]
    BY <1>1, OutFrames DEF Frames
  <2>2. CASE i = Len(q) + 1
    BY <2>1, <2>2, OutFrames
  <2>3. CASE i # Len(q) + 1
    <3>1. i \in 1..Len(q) /\ g = q[i]
      BY <2>1, <2>3, OutFrames
    <3> QED BY <3>1, OutFrames DEF Frames
  <2> QED BY <2>2, <2>3
<1>2. ASSUME NEW g \in Frames(q) PROVE g \in Frames(Append(q, f))
  <2>1. PICK i \in 1..Len(q) : g = q[i]
    BY <1>2, OutFrames DEF Frames
  <2>2. i \in 1..Len(q) + 1 /\ g = Append(q, f)[i]
    BY <2>1, OutFrames
  <2> QED BY <2>2, OutFrames DEF Frames
<1>3. f \in Frames(Append(q, f))
  <2>1. Len(q) + 1 \in 1..Len(q) + 1 /\ f = Append(q, f)[Len(q) + 1]
    BY OutFrames
  <2> QED BY <2>1, OutFrames DEF Frames
<1> QED BY <1>1, <1>2, <1>3, OutFrames

LEMMA FramesTaken ==
    ASSUME NEW q \in Seq(OutFrame), q # <<>>
    PROVE  /\ Head(q) \in OutFrame /\ Tail(q) \in Seq(OutFrame)
           /\ Frames(q) = {Head(q)} \cup Frames(Tail(q))
<1>1. ASSUME NEW g \in Frames(q) PROVE g \in {Head(q)} \cup Frames(Tail(q))
  <2>1. PICK i \in 1..Len(q) : g = q[i]
    BY <1>1, OutFrames DEF Frames
  <2>2. CASE i = 1
    BY <2>1, <2>2, OutFrames
  <2>3. CASE i # 1
    <3>1. i - 1 \in 1..Len(q) - 1 /\ g = Tail(q)[i - 1]
      BY <2>1, <2>3, OutFrames
    <3> QED BY <3>1, OutFrames DEF Frames
  <2> QED BY <2>2, <2>3
<1>2. ASSUME NEW g \in Frames(Tail(q)) PROVE g \in Frames(q)
  <2>1. PICK i \in 1..Len(q) - 1 : g = Tail(q)[i]
    BY <1>2, OutFrames DEF Frames
  <2>2. i + 1 \in 1..Len(q) /\ g = q[i + 1]
    BY <2>1, OutFrames
  <2> QED BY <2>2, OutFrames DEF Frames
<1>3. Head(q) \in Frames(q)
  <2>1. 1 \in 1..Len(q) /\ Head(q) = q[1]
    BY OutFrames
  <2> QED BY <2>1, OutFrames DEF Frames
<1> QED BY <1>1, <1>2, <1>3, OutFrames

LEMMA FramesRead ==
    ASSUME NEW q \in Seq(InFrame), q # <<>>
    PROVE  /\ Head(q) \in InFrame /\ Tail(q) \in Seq(InFrame)
           /\ Frames(q) = {Head(q)} \cup Frames(Tail(q))
<1>1. ASSUME NEW g \in Frames(q) PROVE g \in {Head(q)} \cup Frames(Tail(q))
  <2>1. PICK i \in 1..Len(q) : g = q[i]
    BY <1>1, InFrames DEF Frames
  <2>2. CASE i = 1
    BY <2>1, <2>2, InFrames
  <2>3. CASE i # 1
    <3>1. i - 1 \in 1..Len(q) - 1 /\ g = Tail(q)[i - 1]
      BY <2>1, <2>3, InFrames
    <3> QED BY <3>1, InFrames DEF Frames
  <2> QED BY <2>2, <2>3
<1>2. ASSUME NEW g \in Frames(Tail(q)) PROVE g \in Frames(q)
  <2>1. PICK i \in 1..Len(q) - 1 : g = Tail(q)[i]
    BY <1>2, InFrames DEF Frames
  <2>2. i + 1 \in 1..Len(q) /\ g = q[i + 1]
    BY <2>1, InFrames
  <2> QED BY <2>2, InFrames DEF Frames
<1>3. Head(q) \in Frames(q)
  <2>1. 1 \in 1..Len(q) /\ Head(q) = q[1]
    BY InFrames
  <2> QED BY <2>1, InFrames DEF Frames
<1> QED BY <1>1, <1>2, <1>3, InFrames

LEMMA FramesJoined ==
    ASSUME NEW p \in Seq(InFrame), NEW q \in Seq(InFrame)
    PROVE  /\ p \o q \in Seq(InFrame)
           /\ Frames(p \o q) = Frames(p) \cup Frames(q)
<1>1. ASSUME NEW g \in Frames(p \o q) PROVE g \in Frames(p) \cup Frames(q)
  <2>1. PICK i \in 1..Len(p) + Len(q) : g = (p \o q)[i]
    BY <1>1, JoinedFrames DEF Frames
  <2>2. CASE i \in 1..Len(p)
    BY <2>1, <2>2, JoinedFrames, InFrames DEF Frames
  <2>3. CASE i \notin 1..Len(p)
    BY <2>1, <2>3, JoinedFrames, InFrames DEF Frames
  <2> QED BY <2>2, <2>3
<1>2. ASSUME NEW g \in Frames(p) PROVE g \in Frames(p \o q)
  <2>1. PICK i \in 1..Len(p) : g = p[i]
    BY <1>2, InFrames DEF Frames
  <2>2. i \in 1..Len(p) + Len(q) /\ g = (p \o q)[i]
    BY <2>1, JoinedFrames
  <2> QED BY <2>2, JoinedFrames DEF Frames
<1>3. ASSUME NEW g \in Frames(q) PROVE g \in Frames(p \o q)
  <2>1. PICK i \in 1..Len(q) : g = q[i]
    BY <1>3, InFrames DEF Frames
  <2>2. Len(p) + i \in 1..Len(p) + Len(q) /\ g = (p \o q)[Len(p) + i]
    BY <2>1, JoinedFrames
  <2> QED BY <2>2, JoinedFrames DEF Frames
<1> QED BY <1>1, <1>2, <1>3, JoinedFrames

LEMMA FrameFields ==
    /\ \A f \in OutFrame : f.req \in Request
    /\ \A f \in InFrame : f.req \in Request
    /\ \A f \in InFrame : f.type \in {"outbound", "file_get_chunk", "answer"}
    /\ \A f \in InFrame : f.type = "file_get_chunk" => f.seq \in Nat
    /\ \A f \in InFrame :
          f.type = "answer" => f.status \in {"ok", "duplicate", "invalid", "failed"}
  BY DEF OutFrame, InFrame

(* The chunks of a file are as many as it has.                             *)
LEMMA ChunksCounted ==
    ASSUME ReqTypeOK, NEW r \in Request
    PROVE  /\ Chunks(r) = 0..req_call[r].size - 1
           /\ Chunks(r) \in SUBSET Nat
           /\ IsFiniteSet(Chunks(r)) /\ Cardinality(Chunks(r)) = req_call[r].size
<1>1. req_call[r].size \in Nat /\ req_call[r].size <= MaxChunks
  BY RequestAssumption DEF ReqTypeOK, RequestRecord
<1>2. Chunks(r) = 0..req_call[r].size - 1
  BY <1>1, RequestAssumption DEF Chunks
<1>3. IsFiniteSet(0..req_call[r].size - 1)
      /\ Cardinality(0..req_call[r].size - 1) = req_call[r].size
  BY <1>1, FS_Interval, SMTT(20)
<1> QED BY <1>1, <1>2, <1>3

(* No frame of a request is under way.                                     *)
Mute(r) == /\ \A f \in Frames(req_out) : f.req # r
           /\ \A f \in Frames(req_in) : f.req # r

LEMMA MuteUnlessWaiting ==
    ASSUME ReqInv, NEW r \in Request,
           req_call[r].at \notin {"waiting", "pushed"}, req_call[r].kind # "control"
    PROVE  Mute(r)
  BY DEF ReqInv, FramesFit, Asked, AsksFor, Answers, Mute

LEMMA UnderWayTypes ==
    ASSUME ReqTypeOK
    PROVE  /\ \A f \in Frames(req_out) : f \in OutFrame /\ f.req \in Request
           /\ \A f \in Frames(req_in) : f \in InFrame /\ f.req \in Request
  BY OutFrames, InFrames, FrameFields DEF ReqTypeOK, Frames

(* What a frame says of its request stands while the request does.         *)
LEMMA AskedStands ==
    ASSUME NEW f, Asked(f), req_call'[f.req] = req_call[f.req]
    PROVE  Asked(f)'
  BY DEF Asked, AsksFor

LEMMA GrantStands ==
    ASSUME NEW r, NEW got, Granted(r, got),
           /\ req_call'[r].kind = req_call[r].kind /\ req_call'[r].size = req_call[r].size
           /\ req_call'[r].seq = req_call[r].seq,
           req_sessions \subseteq req_sessions', req_files \subseteq req_files'
    PROVE  Granted(r, got)'
  BY DEF Granted, Chunks

LEMMA AnswerStands ==
    ASSUME NEW f, Answers(f), req_call'[f.req] = req_call[f.req],
           req_sessions \subseteq req_sessions', req_files \subseteq req_files',
           Coming(f.req)' = Coming(f.req)
    PROVE  Answers(f)'
<1> DEFINE r == f.req
<1>1. PICK q : q = f.req
  OBVIOUS
<1>2. PICK got : got = req_call[q].got \cup Coming(q)
  OBVIOUS
<1>3. Granted(q, got) => Granted(q, got)'
  BY <1>1, GrantStands
<1>4. Granted(q, req_call[q].got \cup Coming(q))' <=> Granted(q, got)'
  <2>1. (req_call[q].got \cup Coming(q))' = got
    BY <1>1, <1>2
  <2> QED BY <2>1 DEF Granted
<1> QED BY <1>1, <1>2, <1>3, <1>4 DEF Answers

(***************************************************************************)
(* The caller's steps: one request changes, and with it at most one frame  *)
(* is sent.                                                                *)
(***************************************************************************)
LEMMA RequestMoves ==
    ASSUME ReqInv, NEW r \in Request, NEW c \in RequestRecord,
           req_call' = [req_call EXCEPT ![r] = c],
           req_call[r].kind \in {"none", c.kind},
           req_call[r].kind # "none" => c.size = req_call[r].size,
           CallFits(r)',
           UNCHANGED <<req_link, req_uploads, req_store>>,
           \/ /\ Mute(r) \/ (req_call[r].kind = "control")
              /\ UNCHANGED <<req_out, req_in>>
           \/ /\ Mute(r) /\ req_up
              /\ \E f \in OutFrame : /\ f.req = r /\ Asked(f)'
                                     /\ req_out' = Append(req_out, f) /\ req_in' = req_in
           \/ /\ Mute(r) /\ req_up
              /\ \E f \in InFrame : /\ f.req = r /\ f.type = "outbound" /\ Answers(f)'
                                    /\ req_in' = req_in \o <<f>> /\ req_out' = req_out
    PROVE  ReqInv'
<1> USE DEF ReqInv
<1>1. /\ req_call'[r] = c
      /\ \A q \in Request : q # r => req_call'[q] = req_call[q]
      /\ req_up' = req_up /\ UNCHANGED <<req_losses, req_files, req_sessions, req_uploads>>
  BY DEF ReqTypeOK, req_link, req_store
<1>2. ReqTypeOK' /\ LostIsGone'
  <2>1. req_out' \in Seq(OutFrame)
    BY OutFrames DEF ReqTypeOK
  <2>2. req_in' \in Seq(InFrame)
    <3>1. \A f \in InFrame : <<f>> \in Seq(InFrame)
      OBVIOUS
    <3> QED BY <3>1, JoinedFrames DEF ReqTypeOK
  <2>3. ReqTypeOK'
    BY <1>1, <2>1, <2>2 DEF ReqTypeOK
  <2>4. LostIsGone'
    BY <1>1 DEF LostIsGone
  <2> QED BY <2>3, <2>4
<1>3. StoreFits'
  <2>1. \A u \in Request : req_call[u].kind = "upload" => Chunks(u)' = Chunks(u)
    BY <1>1 DEF Chunks
  <2>2. \A u \in Request : req_call[u].kind = "upload" => req_call'[u].kind = "upload"
    BY <1>1
  <2>3. /\ \A u \in DOMAIN req_uploads : u \in Request
        /\ \A f \in req_files : f[1] \in Request
    BY DEF ReqTypeOK
  <2>4. ASSUME NEW u \in DOMAIN req_uploads
        PROVE  req_call'[u].kind = "upload" /\ req_uploads[u] \subseteq Chunks(u)'
    BY <2>1, <2>2, <2>3 DEF StoreFits
  <2>5. ASSUME NEW f \in req_files
        PROVE  req_call'[f[1]].kind = "upload" /\ f[2] = Chunks(f[1])'
    <3>1. PICK u : u = f[1]
      OBVIOUS
    <3> QED BY <2>1, <2>2, <2>3, <3>1 DEF StoreFits
  <2> QED BY <1>1, <2>4, <2>5 DEF StoreFits
<1>4. ASSUME NEW q \in Request PROVE CallFits(q)'
  <2>1. CASE q = r
    BY <2>1
  <2>2. CASE q # r
    <3>1. PICK got : got = req_call[q].got
      OBVIOUS
    <3>2. Granted(q, got) => Granted(q, got)'
      BY <1>1, <2>2, GrantStands
    <3>3. Granted(q, req_call[q].got)' <=> Granted(q, got)'
      BY <1>1, <2>2, <3>1 DEF Granted
    <3> QED BY <1>1, <2>2, <3>1, <3>2, <3>3 DEF CallFits
  <2> QED BY <2>1, <2>2
<1>5. ASSUME NEW f \in Frames(req_out) PROVE Asked(f)'
  <2>1. Asked(f) /\ f.req \in Request
    BY UnderWayTypes DEF FramesFit
  <2>2. CASE f.req # r
    BY <1>1, <2>1, <2>2, AskedStands
  <2>3. CASE f.req = r
    <3>1. req_call[r].kind = "control" /\ f.type = "gateway_control"
      BY <2>1, <2>3 DEF Mute, Asked, AsksFor
    <3> QED BY <1>1, <2>3, <3>1 DEF Asked, AsksFor
  <2> QED BY <2>2, <2>3
<1>6. ASSUME NEW f \in Frames(req_in), \A q \in Request : q # r => Coming(q)' = Coming(q)
      PROVE  Answers(f)'
  <2>1. Answers(f) /\ f.req \in Request
    BY UnderWayTypes DEF FramesFit
  <2>2. CASE f.req # r
    BY <1>1, <1>6, <2>1, <2>2, AnswerStands
  <2>3. CASE f.req = r
    <3>1. req_call[r].kind = "control" /\ f.type = "answer"
      BY <2>1, <2>3 DEF Mute, Answers
    <3> QED BY <1>1, <2>3, <3>1 DEF Answers
  <2> QED BY <2>2, <2>3
<1>7. CASE UNCHANGED <<req_out, req_in>>
  <2>1. OneFrameEach' /\ \A q \in Request : Coming(q)' = Coming(q)
    BY <1>7 DEF OneFrameEach, Coming
  <2> QED BY <1>2, <1>3, <1>4, <1>5, <1>6, <1>7, <2>1 DEF FramesFit
<1>8. ASSUME Mute(r), NEW f \in OutFrame, f.req = r, Asked(f)',
             req_out' = Append(req_out, f), req_in' = req_in
      PROVE  ReqInv'
  <2>1. Frames(req_out') = Frames(req_out) \cup {f}
    BY <1>8, FramesSent DEF ReqTypeOK
  <2>2. \A q \in Request : Coming(q)' = Coming(q)
    BY <1>8 DEF Coming
  <2>3. FramesFit'
    BY <1>5, <1>6, <1>8, <2>1, <2>2 DEF FramesFit
  <2>4. OneFrameEach'
    <3>1. /\ DOMAIN req_out = 1..Len(req_out) /\ DOMAIN req_out' = 1..Len(req_out) + 1
          /\ Len(req_out) \in Nat
          /\ \A i \in 1..Len(req_out) : req_out'[i] = req_out[i]
          /\ req_out'[Len(req_out) + 1] = f
      BY <1>8, OutFrames DEF ReqTypeOK
    <3>2. /\ \A i \in DOMAIN req_out : req_out[i].req # r
          /\ \A i \in DOMAIN req_in : req_in[i].req # r
      BY <1>8 DEF Mute, Frames
    <3>3. \A i \in DOMAIN req_out' : i \in DOMAIN req_out \/ i = Len(req_out) + 1
      BY <3>1
    <3>4. ASSUME NEW i \in DOMAIN req_out', NEW j \in DOMAIN req_out', i # j
          PROVE  req_out'[i].req # req_out'[j].req
      <4>1. CASE i \in DOMAIN req_out /\ j \in DOMAIN req_out
        BY <3>1, <3>4, <4>1 DEF OneFrameEach
      <4>2. CASE i = Len(req_out) + 1
        <5>1. j \in DOMAIN req_out /\ req_out'[j] = req_out[j] /\ req_out'[i] = f
          BY <3>1, <3>3, <3>4, <4>2
        <5> QED BY <1>8, <3>2, <5>1
      <4>3. CASE j = Len(req_out) + 1
        <5>1. i \in DOMAIN req_out /\ req_out'[i] = req_out[i] /\ req_out'[j] = f
          BY <3>1, <3>3, <3>4, <4>3
        <5> QED BY <1>8, <3>2, <5>1
      <4> QED BY <3>3, <4>1, <4>2, <4>3
    <3>5. ASSUME NEW i \in DOMAIN req_out', NEW j \in DOMAIN req_in
          PROVE  req_out'[i].req # req_in[j].req
      BY <1>8, <3>1, <3>2, <3>3, ZenonT(40) DEF OneFrameEach
    <3> QED BY <1>8, <3>4, <3>5 DEF OneFrameEach
  <2> QED BY <1>2, <1>3, <1>4, <2>3, <2>4
<1>9. ASSUME Mute(r), NEW f \in InFrame, f.req = r, f.type = "outbound", Answers(f)',
             req_in' = req_in \o <<f>>, req_out' = req_out
      PROVE  ReqInv'
  <2>0. <<f>> \in Seq(InFrame) /\ Len(<<f>>) = 1 /\ <<f>>[1] = f /\ Frames(<<f>>) = {f}
    BY DEF Frames
  <2>1. Frames(req_in') = Frames(req_in) \cup {f}
    BY <1>9, <2>0, FramesJoined DEF ReqTypeOK
  <2>2. \A q \in Request : q # r => Coming(q)' = Coming(q)
    BY <1>9, <2>1 DEF Coming
  <2>3. FramesFit'
    BY <1>5, <1>6, <1>9, <2>1, <2>2 DEF FramesFit
  <2>4. OneFrameEach'
    <3>1. /\ DOMAIN req_in = 1..Len(req_in) /\ DOMAIN req_in' = 1..Len(req_in) + 1
          /\ Len(req_in) \in Nat
          /\ \A i \in 1..Len(req_in) : req_in'[i] = req_in[i]
          /\ req_in'[Len(req_in) + 1] = f
      BY <1>9, <2>0, InFrames, JoinedFrames DEF ReqTypeOK
    <3>2. /\ \A i \in DOMAIN req_out : req_out[i].req # r
          /\ \A i \in DOMAIN req_in : req_in[i].req # r
      BY <1>9 DEF Mute, Frames
    <3>3. \A i \in DOMAIN req_in' : i \in DOMAIN req_in \/ i = Len(req_in) + 1
      BY <3>1
    <3>4. ASSUME NEW i \in DOMAIN req_in', NEW j \in DOMAIN req_in', i < j,
                 req_in'[i].req = req_in'[j].req
          PROVE  req_in'[i].type = "file_get_chunk" /\ req_in'[j].type # "outbound"
      <4>1. CASE i \in DOMAIN req_in /\ j \in DOMAIN req_in
        BY <3>1, <3>4, <4>1 DEF OneFrameEach
      <4>2. CASE i = Len(req_in) + 1
        BY <3>1, <3>4, <4>2
      <4>3. CASE j = Len(req_in) + 1
        <5>1. i \in DOMAIN req_in /\ req_in'[i] = req_in[i] /\ req_in'[j] = f
          BY <3>1, <3>3, <3>4, <4>3
        <5> QED BY <1>9, <3>2, <3>4, <5>1
      <4> QED BY <3>3, <4>1, <4>2, <4>3
    <3>5. ASSUME NEW i \in DOMAIN req_out, NEW j \in DOMAIN req_in'
          PROVE  req_out[i].req # req_in'[j].req
      BY <1>9, <3>1, <3>2, <3>3, ZenonT(40) DEF OneFrameEach
    <3> QED BY <1>9, <3>4, <3>5 DEF OneFrameEach
  <2> QED BY <1>2, <1>3, <1>4, <2>3, <2>4
<1> QED BY <1>7, <1>8, <1>9

(***************************************************************************)
(* The business side's step: a request's one frame becomes its answer, or  *)
(* the chunks of its file and then the answer.                             *)
(***************************************************************************)
LEMMA RequestHandled ==
    ASSUME ReqInv, req_out # <<>>, req_out' = Tail(req_out),
           NEW r \in Request, Head(req_out).req = r,
           NEW x \in Seq(InFrame), req_in' = req_in \o x,
           \A i \in 1..Len(x) : x[i].req = r /\ x[i].type # "outbound",
           \A i \in 1..Len(x) : i < Len(x) => x[i].type = "file_get_chunk",
           ( /\ \A g \in Frames(req_in) : g.req # r
             /\ Frames(req_in') = Frames(req_in) \cup Frames(x) )
               => \A f \in Frames(x) : Answers(f)',
           UNCHANGED <<req_link, req_call>>,
           req_files \subseteq req_files', req_sessions \subseteq req_sessions',
           ReqTypeOK', StoreFits'
    PROVE  ReqInv'
<1> USE DEF ReqInv
<1>1. UNCHANGED <<req_up, req_losses, req_call>>
  BY DEF req_link
<1>2. LostIsGone'
  BY <1>1 DEF LostIsGone
<1>3. /\ Len(req_out) \in Nat /\ Len(req_out) > 0 /\ DOMAIN req_out = 1..Len(req_out)
      /\ DOMAIN req_out' = 1..Len(req_out) - 1
      /\ \A i \in 1..Len(req_out) - 1 : req_out'[i] = req_out[i + 1]
      /\ Head(req_out) = req_out[1]
  BY OutFrames DEF ReqTypeOK
<1>4. /\ \A i \in DOMAIN req_out' : req_out'[i].req # r
      /\ \A i \in DOMAIN req_in : req_in[i].req # r
  <2>1. 1 \in DOMAIN req_out /\ req_out[1].req = r
    BY <1>3
  <2>2. ASSUME NEW i \in DOMAIN req_out' PROVE req_out'[i].req # r
    <3>1. i + 1 \in DOMAIN req_out /\ i + 1 # 1 /\ req_out'[i] = req_out[i + 1]
      BY <1>3
    <3>2. req_out[i + 1].req # req_out[1].req
      BY <2>1, <3>1 DEF OneFrameEach
    <3> QED BY <2>1, <3>1, <3>2
  <2>3. ASSUME NEW i \in DOMAIN req_in PROVE req_in[i].req # r
    BY <2>1 DEF OneFrameEach
  <2> QED BY <2>2, <2>3
<1>6. /\ Frames(req_out') \subseteq Frames(req_out)
      /\ \A f \in Frames(req_out') : f.req # r
      /\ \A f \in Frames(req_in) : f.req # r
      /\ Frames(req_in') = Frames(req_in) \cup Frames(x)
  <2>1. req_out \in Seq(OutFrame) /\ req_in \in Seq(InFrame)
    BY DEF ReqTypeOK
  <2>2. Frames(req_out') \subseteq Frames(req_out)
    BY <2>1, FramesTaken
  <2>3. Frames(req_in') = Frames(req_in) \cup Frames(x)
    BY <2>1, FramesJoined
  <2>4. \A f \in Frames(req_out') : f.req # r
    BY <1>4 DEF Frames
  <2>5. \A f \in Frames(req_in) : f.req # r
    BY <1>4 DEF Frames
  <2> QED BY <2>2, <2>3, <2>4, <2>5
<1>7. /\ DOMAIN x = 1..Len(x) /\ Len(x) \in Nat
      /\ \A f \in Frames(x) : f.req = r
  <2>1. DOMAIN x = 1..Len(x) /\ Len(x) \in Nat
    BY InFrames
  <2>2. ASSUME NEW f \in Frames(x) PROVE f.req = r
    <3>1. PICK i \in 1..Len(x) : f = x[i]
      BY <2>1 DEF Frames
    <3> QED BY <3>1
  <2> QED BY <2>1, <2>2
<1>8. OneFrameEach'
  <2>1. ASSUME NEW i \in DOMAIN req_out', NEW j \in DOMAIN req_out', i # j
        PROVE  req_out'[i].req # req_out'[j].req
    <3>1. i + 1 \in DOMAIN req_out /\ j + 1 \in DOMAIN req_out /\ i + 1 # j + 1
      BY <1>3, <2>1
    <3> QED BY <1>3, <3>1 DEF OneFrameEach
  <2>2. /\ DOMAIN req_in' = 1..Len(req_in) + Len(x) /\ DOMAIN req_in = 1..Len(req_in)
        /\ Len(req_in) \in Nat
        /\ \A i \in 1..Len(req_in) : req_in'[i] = req_in[i]
        /\ \A i \in 1..Len(req_in) + Len(x) : i \notin 1..Len(req_in) =>
              i - Len(req_in) \in 1..Len(x) /\ req_in'[i] = x[i - Len(req_in)]
    BY JoinedFrames, InFrames DEF ReqTypeOK
  <2>3. ASSUME NEW i \in DOMAIN req_out', NEW j \in DOMAIN req_in'
        PROVE  req_out'[i].req # req_in'[j].req
    <3>1. CASE j \in 1..Len(req_in)
      <4>1. i + 1 \in DOMAIN req_out /\ req_out'[i] = req_out[i + 1]
        BY <1>3
      <4> QED BY <2>2, <3>1, <4>1 DEF OneFrameEach
    <3>2. CASE j \notin 1..Len(req_in)
      <4>1. j - Len(req_in) \in 1..Len(x) /\ req_in'[j] = x[j - Len(req_in)]
        BY <2>2, <3>2
      <4>2. req_in'[j].req = r
        BY <4>1
      <4> QED BY <1>4, <4>2
    <3> QED BY <3>1, <3>2
  <2>4. ASSUME NEW i \in DOMAIN req_in', NEW j \in DOMAIN req_in', i < j,
               req_in'[i].req = req_in'[j].req
        PROVE  req_in'[i].type = "file_get_chunk" /\ req_in'[j].type # "outbound"
    <3>1. CASE i \in 1..Len(req_in) /\ j \in 1..Len(req_in)
      BY <2>2, <2>4, <3>1 DEF OneFrameEach
    <3>2. CASE i \in 1..Len(req_in) /\ j \notin 1..Len(req_in)
      <4>1. j - Len(req_in) \in 1..Len(x) /\ req_in'[j] = x[j - Len(req_in)]
        BY <2>2, <3>2
      <4>2. req_in'[j].req = r
        BY <4>1
      <4>3. req_in'[i].req # r
        BY <1>4, <2>2, <3>2
      <4> QED BY <2>4, <4>2, <4>3
    <3>3. CASE i \notin 1..Len(req_in)
      <4>1. j \notin 1..Len(req_in)
        BY <2>2, <2>4, <3>3
      <4>2. /\ i - Len(req_in) \in 1..Len(x) /\ req_in'[i] = x[i - Len(req_in)]
            /\ j - Len(req_in) \in 1..Len(x) /\ req_in'[j] = x[j - Len(req_in)]
        BY <2>2, <3>3, <4>1
      <4>3. i - Len(req_in) < Len(x)
        BY <1>7, <2>2, <2>4, <4>2
      <4> QED BY <4>2, <4>3
    <3> QED BY <3>1, <3>2, <3>3
  <2> QED BY <2>1, <2>3, <2>4 DEF OneFrameEach
<1>9. FramesFit'
  <2>1. ASSUME NEW f \in Frames(req_out') PROVE Asked(f)'
    BY <1>1, <1>6, AskedStands DEF FramesFit
  <2>2. ASSUME NEW f \in Frames(req_in) PROVE Answers(f)'
    <3>1. Answers(f) /\ f.req # r
      BY <1>6 DEF FramesFit
    <3>2. Coming(f.req)' = Coming(f.req)
      BY <1>6, <1>7, <3>1 DEF Coming
    <3> QED BY <1>1, <3>1, <3>2, AnswerStands
  <2>3. ASSUME NEW f \in Frames(x) PROVE Answers(f)'
    BY <1>6
  <2> QED BY <1>6, <2>1, <2>2, <2>3 DEF FramesFit
<1>10. ASSUME NEW q \in Request PROVE CallFits(q)'
  <2>1. PICK got : got = req_call[q].got
    OBVIOUS
  <2>2. Granted(q, got) => Granted(q, got)'
    BY <1>1, GrantStands
  <2>3. Granted(q, req_call[q].got)' <=> Granted(q, got)'
    BY <1>1, <2>1 DEF Granted
  <2> QED BY <1>1, <2>1, <2>2, <2>3 DEF CallFits
<1> QED BY <1>2, <1>8, <1>9, <1>10

(* An answer is read only by the one call it belongs to.                   *)
StoreTyped == /\ DOMAIN req_uploads \subseteq Request
              /\ req_uploads \in [DOMAIN req_uploads -> SUBSET Nat]
              /\ req_files \subseteq Request \X SUBSET Nat
              /\ req_sessions \subseteq Request

LEMMA AnswerFrames ==
    ASSUME NEW r \in Request, NEW status \in {"ok", "duplicate", "invalid", "failed"}
    PROVE  /\ AnswerFrame(r, status) \in Seq(InFrame)
           /\ Len(AnswerFrame(r, status)) = 1
           /\ AnswerFrame(r, status)[1] = [req |-> r, type |-> "answer", status |-> status]
           /\ Frames(AnswerFrame(r, status)) = {[req |-> r, type |-> "answer", status |-> status]}
<1>1. [req |-> r, type |-> "answer", status |-> status] \in InFrame
  BY DEF InFrame
<1> QED BY <1>1 DEF AnswerFrame, Frames

LEMMA HandledTypes ==
    ASSUME ReqTypeOK, req_out # <<>>, req_out' = Tail(req_out),
           NEW x \in Seq(InFrame), req_in' = req_in \o x,
           UNCHANGED <<req_link, req_call>>, StoreTyped'
    PROVE  ReqTypeOK'
<1>1. req_out' \in Seq(OutFrame) /\ req_in' \in Seq(InFrame)
  BY FramesTaken, FramesJoined DEF ReqTypeOK
<1> QED BY <1>1 DEF ReqTypeOK, StoreTyped, req_link

LEMMA AnsweredOnce ==
    ASSUME ReqInv, req_out # <<>>, req_out' = Tail(req_out),
           NEW r \in Request, Head(req_out).req = r,
           NEW status \in {"ok", "duplicate", "invalid", "failed"},
           req_in' = req_in \o AnswerFrame(r, status),
           UNCHANGED <<req_link, req_call>>,
           req_files \subseteq req_files', req_sessions \subseteq req_sessions',
           StoreTyped', StoreFits',
           status \in Good => Granted(r, req_call[r].got)'
    PROVE  ReqInv'
<1> DEFINE x == AnswerFrame(r, status)
           answer == [req |-> r, type |-> "answer", status |-> status]
<1>1. /\ x \in Seq(InFrame) /\ Len(x) = 1 /\ x[1] = answer /\ Frames(x) = {answer}
  BY AnswerFrames
<1>2. ReqTypeOK'
  BY <1>1, HandledTypes DEF ReqInv
<1>3. req_call[r].at = "waiting" \/ req_call[r].kind = "control"
  <2>1. Head(req_out) \in Frames(req_out)
    BY FramesTaken DEF ReqInv, ReqTypeOK
  <2> QED BY <2>1 DEF ReqInv, FramesFit, Asked, AsksFor
<1>4. ASSUME \A g \in Frames(req_in) : g.req # r,
             Frames(req_in') = Frames(req_in) \cup Frames(x)
      PROVE  Answers(answer)'
  <2>1. Coming(r)' = {}
    BY <1>1, <1>4 DEF Coming
  <2>2. (req_call[r].got \cup Coming(r))' = req_call[r].got
    BY <2>1
  <2>3. PICK got : got = req_call[r].got
    OBVIOUS
  <2>4. Granted(r, req_call[r].got)' <=> Granted(r, got)'
    BY <2>3 DEF Granted
  <2>5. Granted(r, req_call[r].got \cup Coming(r))' <=> Granted(r, got)'
    BY <2>2, <2>3 DEF Granted
  <2> QED BY <1>3, <2>4, <2>5 DEF Answers
<1>5. \A i \in 1..Len(x) : x[i].req = r /\ x[i].type # "outbound"
  BY <1>1
<1>6. \A i \in 1..Len(x) : i < Len(x) => x[i].type = "file_get_chunk"
  BY <1>1
<1>7. ( /\ \A g \in Frames(req_in) : g.req # r
        /\ Frames(req_in') = Frames(req_in) \cup Frames(x) )
          => \A f \in Frames(x) : Answers(f)'
  BY <1>1, <1>4
<1> HIDE DEF x
<1> QED BY <1>1, <1>2, <1>5, <1>6, <1>7, RequestHandled DEF x

LEMMA OutFields ==
    /\ \A f \in OutFrame :
          f.type \in {"session_open", "file_put_init", "file_put_chunk", "file_put_commit",
                      "file_get", "gateway_control"}
    /\ \A f \in OutFrame : f.type = "file_put_chunk" => f.seq \in Nat
    /\ \A f \in OutFrame : f.type = "file_put_commit" => f.total \in Nat
  BY DEF OutFrame

LEMMA JoinedLength ==
    \A p, q \in Seq(InFrame) : Len(p \o q) = Len(p) + Len(q)
  OBVIOUS

LEMMA OneMore ==
    ASSUME NEW p \in Seq(InFrame), NEW q \in Seq(InFrame), Len(q) = 1,
           NEW n \in Nat, Len(p) = n
    PROVE  /\ p \o q \in Seq(InFrame) /\ Len(p \o q) = n + 1 /\ DOMAIN (p \o q) = 1..n + 1
           /\ \A i \in 1..n : (p \o q)[i] = p[i]
           /\ \A i \in 1..n + 1 : i \notin 1..n => (p \o q)[i] = q[1]
<1>1. Len(p \o q) = n + 1
  BY JoinedLength
<1>2. /\ p \o q \in Seq(InFrame) /\ DOMAIN (p \o q) = 1..n + 1
      /\ \A i \in 1..n : (p \o q)[i] = p[i]
  BY JoinedFrames
<1>3. ASSUME NEW i \in 1..n + 1, i \notin 1..n PROVE (p \o q)[i] = q[1]
  <2>1. i \in 1..Len(p) + Len(q) /\ i \notin 1..Len(p)
    BY <1>3
  <2>2. (p \o q)[i] = q[i - n]
    BY <2>1, JoinedFrames
  <2>3. i - n = 1
    BY <1>3
  <2> QED BY <2>2, <2>3
<1> QED BY <1>1, <1>2, <1>3

(* The chunks of a file and the acknowledgement behind them.               *)
LEMMA ChunkFrames ==
    ASSUME ReqTypeOK, NEW r \in Request
    PROVE  LET n == req_call[r].size
               chunks == [i \in 1..n |-> [req |-> r, type |-> "file_get_chunk", seq |-> i - 1]]
               answer == [req |-> r, type |-> "answer", status |-> "ok"]
               x == chunks \o AnswerFrame(r, "ok")
           IN /\ x \in Seq(InFrame)
              /\ \A i \in 1..Len(x) : x[i].req = r /\ x[i].type # "outbound"
              /\ \A i \in 1..Len(x) : i < Len(x) => x[i].type = "file_get_chunk"
              /\ \A f \in Frames(x) :
                    \/ f = answer
                    \/ /\ f.req = r /\ f.type = "file_get_chunk" /\ f.seq \in 0..n - 1
              /\ answer \in Frames(x)
              /\ \A k \in 0..n - 1 : \E f \in Frames(x) :
                    f.req = r /\ f.type = "file_get_chunk" /\ f.seq = k
<1> DEFINE n == req_call[r].size
           chunks == [i \in 1..n |-> [req |-> r, type |-> "file_get_chunk", seq |-> i - 1]]
           answer == [req |-> r, type |-> "answer", status |-> "ok"]
           x == chunks \o AnswerFrame(r, "ok")
<1>1. n \in Nat
  BY RequestAssumption DEF ReqTypeOK, RequestRecord
<1>2. chunks \in Seq(InFrame) /\ Len(chunks) = n
  <2>1. \A i \in 1..n : chunks[i] \in InFrame
    BY <1>1 DEF InFrame
  <2>2. chunks \in [1..n -> InFrame]
    BY <2>1
  <2>3. \A m \in Nat : \A s \in [1..m -> InFrame] : s \in Seq(InFrame) /\ Len(s) = m
    OBVIOUS
  <2> HIDE DEF chunks
  <2> QED BY <1>1, <2>2, <2>3
<1>3. /\ AnswerFrame(r, "ok") \in Seq(InFrame) /\ Len(AnswerFrame(r, "ok")) = 1
      /\ AnswerFrame(r, "ok")[1] = answer
      /\ Frames(AnswerFrame(r, "ok")) = {answer}
  BY AnswerFrames
<1>4. /\ x \in Seq(InFrame) /\ Len(x) = n + 1 /\ DOMAIN x = 1..n + 1
      /\ \A i \in 1..n : x[i] = chunks[i]
      /\ \A i \in 1..n + 1 : i \notin 1..n => x[i] = answer
  <2> HIDE DEF chunks, answer
  <2> QED BY <1>1, <1>2, <1>3, OneMore
<1>5. \A i \in 1..n : /\ x[i].req = r /\ x[i].type = "file_get_chunk"
                      /\ x[i].seq = i - 1
  BY <1>1, <1>4
<1>6. answer.req = r /\ answer.type = "answer"
  OBVIOUS
<1> HIDE DEF x, chunks, answer
<1>7. \A i \in 1..Len(x) : x[i].req = r /\ x[i].type # "outbound"
  BY <1>4, <1>5, <1>6
<1>8. \A i \in 1..Len(x) : i < Len(x) => x[i].type = "file_get_chunk"
  BY <1>1, <1>4, <1>5
<1>9. ASSUME NEW f \in Frames(x)
      PROVE  f = answer \/ (f.req = r /\ f.type = "file_get_chunk" /\ f.seq \in 0..n - 1)
  <2>1. PICK i \in 1..n + 1 : f = x[i]
    BY <1>4 DEF Frames
  <2>2. CASE i \in 1..n
    BY <1>1, <1>5, <2>1, <2>2
  <2> QED BY <1>4, <2>1, <2>2
<1>10. answer \in Frames(x)
  <2>1. n + 1 \in 1..n + 1 /\ n + 1 \notin 1..n
    BY <1>1
  <2> QED BY <1>4, <2>1 DEF Frames
<1>11. ASSUME NEW k \in 0..n - 1
       PROVE  \E f \in Frames(x) : f.req = r /\ f.type = "file_get_chunk" /\ f.seq = k
  <2>1. k + 1 \in 1..n /\ (k + 1) - 1 = k
    BY <1>1
  <2>2. /\ x[k + 1].req = r /\ x[k + 1].type = "file_get_chunk" /\ x[k + 1].seq = k
    BY <1>5, <2>1
  <2>3. x[k + 1] \in Frames(x)
    BY <1>1, <1>4, <2>1 DEF Frames
  <2> QED BY <2>2, <2>3
<1> QED BY <1>4, <1>7, <1>8, <1>9, <1>10, <1>11 DEF x, chunks, answer

(***************************************************************************)
(* The business side keeps the invariant.                                  *)
(***************************************************************************)
LEMMA Delivered ==
    ASSUME ReqInv, req_out # <<>>
    PROVE  /\ Head(req_out) \in OutFrame /\ Head(req_out).req \in Request
           /\ Asked(Head(req_out))
<1>1. Head(req_out) \in OutFrame /\ Head(req_out) \in Frames(req_out)
  BY FramesTaken DEF ReqInv, ReqTypeOK
<1> QED BY <1>1, FrameFields DEF ReqInv, FramesFit

LEMMA FileSent ==
    ASSUME ReqInv, req_out # <<>>, req_out' = Tail(req_out),
           Head(req_out).type = "file_get", SendChunks(Head(req_out).req),
           UNCHANGED <<req_link, req_call>>
    PROVE  ReqInv'
<1>1. PICK r : r = Head(req_out).req
  OBVIOUS
<1>2. /\ r \in Request /\ req_call[r].at = "waiting"
      /\ req_call[r].kind \in {"download", "dispatch"} /\ req_call[r].got = {}
  BY <1>1, Delivered DEF Asked, AsksFor
<1>3. /\ UNCHANGED <<req_uploads, req_files, req_sessions>>
      /\ StoreTyped' /\ StoreFits'
  BY DEF SendChunks, ReqInv, ReqTypeOK, StoreTyped, StoreFits, req_store, Chunks
<1>4. CASE req_in' = req_in \o AnswerFrame(r, "invalid")
  BY <1>1, <1>2, <1>3, <1>4, AnsweredOnce DEF Good
<1> DEFINE n == req_call[r].size
           chunks == [i \in 1..n |-> [req |-> r, type |-> "file_get_chunk", seq |-> i - 1]]
           answer == [req |-> r, type |-> "answer", status |-> "ok"]
           x == chunks \o AnswerFrame(r, "ok")
<1>5. /\ x \in Seq(InFrame)
      /\ \A i \in 1..Len(x) : x[i].req = r /\ x[i].type # "outbound"
      /\ \A i \in 1..Len(x) : i < Len(x) => x[i].type = "file_get_chunk"
      /\ \A f \in Frames(x) :
            \/ f = answer
            \/ /\ f.req = r /\ f.type = "file_get_chunk" /\ f.seq \in 0..n - 1
      /\ answer \in Frames(x)
      /\ \A k \in 0..n - 1 : \E f \in Frames(x) :
            f.req = r /\ f.type = "file_get_chunk" /\ f.seq = k
  BY <1>2, ChunkFrames DEF ReqInv
<1>6. n \in Nat /\ Chunks(r) = 0..n - 1
  BY <1>2, ChunksCounted, RequestAssumption DEF ReqInv, ReqTypeOK, RequestRecord
<1>7. CASE req_in' = (req_in \o chunks) \o AnswerFrame(r, "ok")
  <2>1. req_in' = req_in \o x
    <3>1. chunks \in Seq(InFrame)
      <4>1. \A i \in 1..n : chunks[i] \in InFrame
        BY <1>2, <1>6 DEF InFrame
      <4>2. chunks \in [1..n -> InFrame]
        BY <4>1
      <4>3. \A m \in Nat : \A s \in [1..m -> InFrame] : s \in Seq(InFrame)
        OBVIOUS
      <4> HIDE DEF chunks
      <4> QED BY <1>6, <4>2, <4>3
    <3>2. \A p, q, s \in Seq(InFrame) : (p \o q) \o s = p \o (q \o s)
      OBVIOUS
    <3>3. AnswerFrame(r, "ok") \in Seq(InFrame) /\ req_in \in Seq(InFrame)
      BY <1>2, AnswerFrames DEF ReqInv, ReqTypeOK
    <3> HIDE DEF chunks
    <3> QED BY <1>7, <3>1, <3>2, <3>3
  <2>2. ReqTypeOK'
    BY <1>3, <1>5, <2>1, HandledTypes DEF ReqInv
  <2>3. ASSUME \A g \in Frames(req_in) : g.req # r,
               Frames(req_in') = Frames(req_in) \cup Frames(x),
               NEW f \in Frames(x)
        PROVE  Answers(f)'
    <3>1. Chunks(r)' = Chunks(r) /\ UNCHANGED req_call
      BY DEF Chunks
    <3>2. Coming(r)' = 0..n - 1
      <4> HIDE DEF x
      <4>1. answer.type # "file_get_chunk"
        OBVIOUS
      <4> HIDE DEF answer
      <4>2. Coming(r)' \subseteq 0..n - 1
        BY <1>5, <2>3, <4>1 DEF Coming
      <4>3. ASSUME NEW k \in 0..n - 1 PROVE k \in Coming(r)'
        <5>1. PICK g \in Frames(x) : g.req = r /\ g.type = "file_get_chunk" /\ g.seq = k
          BY <1>5
        <5>2. g \in Frames(req_in')
          BY <2>3
        <5> QED BY <5>1, <5>2 DEF Coming
      <4> QED BY <4>2, <4>3
    <3>3. CASE f = answer
      <4>1. (req_call[r].got \cup Coming(r))' = Chunks(r)
        BY <1>2, <1>6, <3>1, <3>2
      <4>2. Granted(r, req_call[r].got \cup Coming(r))'
        BY <1>2, <3>1, <4>1 DEF Granted
      <4> QED BY <1>2, <3>1, <3>3, <4>2 DEF Answers
    <3>4. CASE f.req = r /\ f.type = "file_get_chunk" /\ f.seq \in 0..n - 1
      BY <1>2, <1>6, <3>1, <3>4 DEF Answers
    <3> QED BY <1>5, <3>3, <3>4
  <2> HIDE DEF x
  <2>4. ( /\ \A g \in Frames(req_in) : g.req # r
          /\ Frames(req_in') = Frames(req_in) \cup Frames(x) )
            => \A f \in Frames(x) : Answers(f)'
    BY <2>3
  <2>5. req_files \subseteq req_files' /\ req_sessions \subseteq req_sessions'
    BY <1>3
  <2> QED BY <1>1, <1>2, <1>3, <1>5, <2>1, <2>2, <2>4, <2>5, RequestHandled
<1> QED BY <1>1, <1>4, <1>7 DEF SendChunks

LEMMA HandleStep ==
    ASSUME ReqInv, HandleRequest PROVE ReqInv'
<1> DEFINE frame == Head(req_out)
<1>1. PICK r : r = frame.req
  OBVIOUS
<1>2. /\ req_out # <<>> /\ req_out' = Tail(req_out) /\ UNCHANGED <<req_link, req_call>>
      /\ frame \in OutFrame /\ r \in Request /\ Asked(frame)
  BY <1>1, Delivered DEF HandleRequest
<1>3. /\ req_call[r] \in RequestRecord
      /\ req_call[r].size \in Nat /\ req_call[r].size <= MaxChunks
  BY <1>2, RequestAssumption DEF ReqInv, ReqTypeOK, RequestRecord
<1>4. UNCHANGED req_call /\ \A q : Chunks(q)' = Chunks(q)
  BY <1>2 DEF Chunks
<1>5. StoreTyped /\ StoreFits
  BY DEF ReqInv, ReqTypeOK, StoreTyped
<1>6. ASSUME NEW status \in {"ok", "duplicate", "invalid", "failed"},
             req_in' = req_in \o AnswerFrame(r, status),
             req_files \subseteq req_files', req_sessions \subseteq req_sessions',
             StoreTyped', StoreFits', status \in Good => Granted(r, req_call[r].got)'
      PROVE  ReqInv'
  BY <1>1, <1>2, <1>6, AnsweredOnce
<1>7. CASE frame.type = "session_open"
  <2>1. /\ UNCHANGED <<req_uploads, req_files>>
        /\ \/ req_in' = req_in \o AnswerFrame(r, "ok") /\ req_sessions' = req_sessions \cup {r}
           \/ /\ req_in' = req_in \o AnswerFrame(r, "failed")
              /\ req_sessions' \in {req_sessions, req_sessions \cup {r}}
    BY <1>1, <1>2, <1>7 DEF HandleRequest
  <2>2. StoreTyped' /\ StoreFits' /\ req_sessions \subseteq req_sessions'
    BY <1>2, <1>4, <1>5, <2>1 DEF StoreTyped, StoreFits
  <2>3. req_call[r].kind = "open"
    BY <1>1, <1>2, <1>7 DEF Asked, AsksFor
  <2>4. CASE req_in' = req_in \o AnswerFrame(r, "ok") /\ req_sessions' = req_sessions \cup {r}
    <3>1. Granted(r, req_call[r].got)'
      BY <1>4, <2>3, <2>4 DEF Granted
    <3> QED BY <1>6, <2>1, <2>2, <2>4, <3>1
  <2>5. CASE req_in' = req_in \o AnswerFrame(r, "failed")
    BY <1>6, <2>1, <2>2, <2>5 DEF Good
  <2> QED BY <2>1, <2>4, <2>5
<1>8. CASE frame.type = "file_put_init"
  <2>1. /\ req_uploads' = [u \in DOMAIN req_uploads \cup {r} |->
                              IF u = r THEN {} ELSE req_uploads[u]]
        /\ req_in' = req_in \o AnswerFrame(r, "ok") /\ UNCHANGED req_store
    BY <1>1, <1>2, <1>8 DEF HandleRequest
  <2>2. req_call[r].kind = "upload" /\ req_call[r].seq = 0
    BY <1>1, <1>2, <1>8 DEF Asked, AsksFor
  <2>3. StoreTyped' /\ UNCHANGED <<req_files, req_sessions>>
    BY <1>2, <1>5, <2>1 DEF StoreTyped, req_store
  <2>4. StoreFits'
    BY <1>2, <1>4, <1>5, <2>1, <2>2, <2>3 DEF StoreFits, StoreTyped
  <2>5. Granted(r, req_call[r].got)'
    BY <1>3, <1>4, <2>2 DEF Granted
  <2> QED BY <1>6, <2>1, <2>3, <2>4, <2>5
<1>9. CASE frame.type = "file_put_chunk"
  <2>1. StoreChunk(r, frame.seq) /\ frame.seq \in Nat
    BY <1>1, <1>2, <1>9, OutFields DEF HandleRequest
  <2>2. PICK seq \in Nat : seq = frame.seq
    BY <2>1
  <2>3. /\ req_call[r].kind = "upload" /\ seq < req_call[r].size
        /\ req_call[r].seq = seq + 1
    BY <1>1, <1>2, <1>9, <2>2 DEF Asked, AsksFor
  <2>4. /\ UNCHANGED <<req_files, req_sessions>>
        /\ r \in DOMAIN req_uploads =>
              req_uploads' = [req_uploads EXCEPT ![r] = @ \cup {seq}]
        /\ r \notin DOMAIN req_uploads => req_uploads' = req_uploads
        /\ \E status \in {"ok", "duplicate", "invalid"} :
              req_in' = req_in \o AnswerFrame(r, status)
    BY <2>1, <2>2 DEF StoreChunk, req_store
  <2>5. StoreTyped' /\ StoreFits'
    <3>1. CASE r \notin DOMAIN req_uploads
      BY <1>4, <1>5, <2>4, <3>1 DEF StoreTyped, StoreFits
    <3>2. CASE r \in DOMAIN req_uploads
      <4>1. /\ DOMAIN req_uploads' = DOMAIN req_uploads
            /\ req_uploads'[r] = req_uploads[r] \cup {seq}
            /\ \A u \in DOMAIN req_uploads : u # r => req_uploads'[u] = req_uploads[u]
            /\ req_uploads' \in [DOMAIN req_uploads -> SUBSET Nat]
        BY <1>5, <2>4, <3>2 DEF StoreTyped
      <4>2. seq \in Chunks(r)
        BY <1>3, <2>3, RequestAssumption DEF Chunks
      <4>3. StoreTyped'
        BY <1>5, <2>4, <4>1 DEF StoreTyped
      <4>4. ASSUME NEW u \in DOMAIN req_uploads
            PROVE  req_call[u].kind = "upload" /\ req_uploads'[u] \subseteq Chunks(u)
        BY <1>5, <2>3, <4>1, <4>2 DEF StoreFits
      <4>5. StoreFits'
        BY <1>4, <1>5, <2>4, <4>1, <4>4 DEF StoreFits
      <4> QED BY <4>3, <4>5
    <3> QED BY <3>1, <3>2
  <2>6. Granted(r, req_call[r].got)'
    BY <1>3, <1>4, <2>3 DEF Granted
  <2> QED BY <1>6, <2>4, <2>5, <2>6
<1>10. CASE frame.type = "file_put_commit"
  <2> DEFINE complete == r \in DOMAIN req_uploads
                         /\ Cardinality(req_uploads[r]) = req_call[r].size
  <2>1. req_call[r].kind = "upload" /\ frame.total = req_call[r].size
    BY <1>1, <1>2, <1>10 DEF Asked, AsksFor
  <2>2. CommitUpload(r, req_call[r].size)
    BY <1>1, <1>2, <1>10, <2>1 DEF HandleRequest
  <2>3. CASE ~complete
    <3>1. /\ UNCHANGED <<req_files, req_uploads, req_sessions>>
          /\ req_in' = req_in \o AnswerFrame(r, "invalid")
      BY <2>2, <2>3 DEF CommitUpload
    <3>2. StoreTyped' /\ StoreFits'
      BY <1>4, <1>5, <3>1 DEF StoreTyped, StoreFits
    <3> QED BY <1>6, <3>1, <3>2 DEF Good
  <2>4. CASE complete
    <3>1. /\ req_files' = req_files \cup {<<r, req_uploads[r]>>}
          /\ req_uploads' = [u \in DOMAIN req_uploads \ {r} |-> req_uploads[u]]
          /\ UNCHANGED req_sessions
          /\ req_in' = req_in \o AnswerFrame(r, "ok")
      BY <2>2, <2>4 DEF CommitUpload
    <3>2. req_uploads[r] = Chunks(r)
      <4>1. req_uploads[r] \subseteq Chunks(r)
        BY <1>5, <2>4 DEF StoreFits
      <4>2. IsFiniteSet(Chunks(r)) /\ Cardinality(Chunks(r)) = req_call[r].size
        BY <1>2, ChunksCounted DEF ReqInv
      <4> QED BY <2>4, <4>1, <4>2, FS_Subset
    <3>3. StoreTyped'
      BY <1>2, <1>5, <2>4, <3>1 DEF StoreTyped
    <3>4. ASSUME NEW f \in req_files'
          PROVE  req_call[f[1]].kind = "upload" /\ f[2] = Chunks(f[1])
      BY <1>5, <2>1, <3>1, <3>2, <3>4 DEF StoreFits
    <3>5. StoreFits'
      <4>1. ASSUME NEW f \in req_files'
            PROVE  (req_call[f[1]].kind = "upload")' /\ f[2] = Chunks(f[1])'
        <5>1. PICK u : u = f[1]
          OBVIOUS
        <5> QED BY <1>4, <3>4, <5>1
      <4>2. ASSUME NEW u \in DOMAIN req_uploads'
            PROVE  req_call'[u].kind = "upload" /\ req_uploads'[u] \subseteq Chunks(u)'
        BY <1>4, <1>5, <3>1, <4>2 DEF StoreFits
      <4> QED BY <4>1, <4>2 DEF StoreFits
    <3>6. Granted(r, req_call[r].got)'
      <4>1. <<r, req_uploads[r]>> \in req_files' /\ <<r, req_uploads[r]>>[1] = r
        BY <3>1
      <4> QED BY <1>4, <2>1, <4>1 DEF Granted
    <3> QED BY <1>6, <3>1, <3>3, <3>5, <3>6
  <2> QED BY <2>3, <2>4
<1>11. CASE frame.type = "file_get"
  <2>1. SendChunks(frame.req)
    BY <1>2, <1>11 DEF HandleRequest
  <2> QED BY <1>2, <1>11, <2>1, FileSent
<1>12. CASE frame.type = "gateway_control"
  <2>1. /\ UNCHANGED <<req_uploads, req_files, req_sessions>>
        /\ \E status \in {"ok", "failed"} : req_in' = req_in \o AnswerFrame(r, status)
    BY <1>1, <1>2, <1>12 DEF HandleRequest, req_store
  <2>2. req_call[r].kind = "control"
    BY <1>1, <1>2, <1>12 DEF Asked, AsksFor
  <2>3. StoreTyped' /\ StoreFits' /\ Granted(r, req_call[r].got)'
    BY <1>4, <1>5, <2>1, <2>2 DEF StoreTyped, StoreFits, Granted
  <2> QED BY <1>6, <2>1, <2>3
<1> QED BY <1>2, <1>7, <1>8, <1>9, <1>10, <1>11, <1>12, OutFields

(***************************************************************************)
(* The caller's steps.                                                     *)
(***************************************************************************)
LEMMA CallTypes ==
    ASSUME ReqTypeOK, NEW r \in Request
    PROVE  /\ req_call[r] \in RequestRecord /\ req_call[r].size \in 0..MaxChunks
           /\ req_call[r].size \in Nat /\ req_call[r].seq \in Nat
           /\ DOMAIN req_call = Request
  BY RequestAssumption DEF ReqTypeOK, RequestRecord

LEMMA Asking ==
    ASSUME ReqInv, NEW r \in Request, NEW call \in RequestRecord,
           NEW frame \in OutFrame, frame.req = r,
           Mute(r), Asks(r, call, frame),
           req_call[r].kind \in {"none", call.kind},
           req_call[r].kind # "none" => call.size = req_call[r].size,
           \/ frame.type = "gateway_control" /\ call.kind = "control"
           \/ AsksFor(frame, call),
           call.kind = "upload" => call.seq <= call.size + 1,
           UNCHANGED <<req_link, req_in, req_uploads, req_store>>
    PROVE  ReqInv'
<1>1. ASSUME NEW at \in {"waiting", "failed"},
             req_call' = [req_call EXCEPT ![r] = [call EXCEPT !.at = at]]
      PROVE  /\ [call EXCEPT !.at = at] \in RequestRecord
             /\ req_call'[r] = [call EXCEPT !.at = at]
             /\ CallFits(r)'
  <2>1. [call EXCEPT !.at = at] \in RequestRecord
    BY DEF RequestRecord
  <2>2. req_call'[r] = [call EXCEPT !.at = at]
    BY <1>1, CallTypes DEF ReqInv
  <2>3. /\ req_call'[r].at = at /\ req_call'[r].kind = call.kind
        /\ req_call'[r].seq = call.seq /\ req_call'[r].size = call.size
    BY <2>2 DEF RequestRecord
  <2> QED BY <1>1, <2>1, <2>2, <2>3 DEF CallFits
<1>2. ASSUME NEW at \in {"waiting", "failed"},
             req_call' = [req_call EXCEPT ![r] = [call EXCEPT !.at = at]],
             UNCHANGED req_out
      PROVE  ReqInv'
  <2>1. PICK c \in RequestRecord : c = [call EXCEPT !.at = at]
    BY <1>1, <1>2
  <2>2. c.kind = call.kind /\ c.size = call.size
    BY <2>1 DEF RequestRecord
  <2>3. CallFits(r)' /\ req_call' = [req_call EXCEPT ![r] = c]
    BY <1>1, <1>2, <2>1
  <2> QED BY <1>2, <2>2, <2>3, RequestMoves
<1>3. CASE /\ req_up /\ req_out' = Append(req_out, frame)
           /\ req_call' = [req_call EXCEPT ![r] = [call EXCEPT !.at = "waiting"]]
  <2>1. PICK c \in RequestRecord : c = [call EXCEPT !.at = "waiting"]
    BY <1>1, <1>3
  <2>2. /\ c.kind = call.kind /\ c.size = call.size /\ c.at = "waiting"
        /\ c.seq = call.seq /\ c.got = call.got
    BY <2>1 DEF RequestRecord
  <2>3. CallFits(r)' /\ req_call' = [req_call EXCEPT ![r] = c] /\ req_call'[r] = c
    BY <1>1, <1>3, <2>1
  <2>4. Asked(frame)'
    BY <2>2, <2>3 DEF Asked, AsksFor
  <2>5. /\ Mute(r) /\ req_up
        /\ \E f \in OutFrame : /\ f.req = r /\ Asked(f)'
                              /\ req_out' = Append(req_out, f) /\ req_in' = req_in
    BY <1>3, <2>4
  <2> QED BY <2>1, <2>2, <2>3, <2>5, RequestMoves
<1> QED BY <1>2, <1>3 DEF Asks

LEMMA FirstFrames ==
    ASSUME NEW r \in Request, NEW kind \in RequestKind \cup {"dispatch"}
    PROVE  /\ FirstFrame(r, kind) \in OutFrame /\ FirstFrame(r, kind).req = r
           /\ kind = "open" => FirstFrame(r, kind).type = "session_open"
           /\ kind = "upload" => FirstFrame(r, kind).type = "file_put_init"
           /\ kind = "control" => FirstFrame(r, kind).type = "gateway_control"
           /\ kind \in {"download", "dispatch"} => FirstFrame(r, kind).type = "file_get"
  BY DEF FirstFrame, OutFrame, RequestKind

LEMMA StartStep ==
    ASSUME ReqInv, NEW r \in Request, NEW kind \in RequestKind, NEW size \in 0..MaxChunks,
           StartRequest(r, kind, size)
    PROVE  ReqInv'
<1>1. PICK call : call = [ReqIdle EXCEPT !.kind = kind, !.size = size, !.epoch = req_losses]
  OBVIOUS
<1>2. /\ call \in RequestRecord /\ call.kind = kind /\ call.seq = 0 /\ call.got = {}
      /\ call.size \in Nat
  <2>1. call = [at |-> "idle", kind |-> kind, size |-> size, seq |-> 0, got |-> {},
                status |-> "none", epoch |-> req_losses]
    BY <1>1 DEF ReqIdle
  <2>2. req_losses \in Nat /\ size \in Nat
    BY RequestAssumption DEF ReqInv, ReqTypeOK
  <2> QED BY <2>1, <2>2 DEF RequestRecord
<1>3. req_call[r].at = "idle" /\ req_call[r].kind = "none"
  BY DEF StartRequest, ReqIdle
<1>4. PICK frame \in OutFrame : frame = FirstFrame(r, kind)
  BY FirstFrames
<1>5. frame.req = r
  BY <1>4, FirstFrames
<1>6. \/ frame.type = "gateway_control" /\ call.kind = "control"
      \/ AsksFor(frame, call)
  BY <1>2, <1>4, FirstFrames DEF AsksFor, RequestKind
<1>7. /\ Asks(r, call, frame)
      /\ UNCHANGED <<req_link, req_in, req_uploads, req_store>>
  BY <1>1, <1>4 DEF StartRequest
<1>8. Mute(r)
  BY <1>3, MuteUnlessWaiting
<1>9. call.kind = "upload" => call.seq <= call.size + 1
  BY <1>2
<1> QED BY <1>2, <1>3, <1>5, <1>6, <1>7, <1>8, <1>9, Asking

LEMMA DispatchStep ==
    ASSUME ReqInv, NEW r \in Request, BeginDispatch(r)
    PROVE  ReqInv'
<1>1. PICK call : call = [req_call[r] EXCEPT !.epoch = req_losses]
  OBVIOUS
<1>2. req_call[r].at = "dispatching" /\ req_call[r].kind = "dispatch" /\ req_call[r].got = {}
  BY DEF BeginDispatch, ReqInv, CallFits
<1>3. /\ call \in RequestRecord /\ call.kind = "dispatch" /\ call.got = {}
      /\ call.size = req_call[r].size
  BY <1>1, <1>2, CallTypes DEF RequestRecord, ReqInv, ReqTypeOK
<1>4. PICK frame \in OutFrame : frame = FirstFrame(r, "dispatch")
  BY FirstFrames
<1>5. frame.req = r /\ AsksFor(frame, call)
  BY <1>3, <1>4, FirstFrames DEF AsksFor
<1>6. /\ Asks(r, call, frame)
      /\ UNCHANGED <<req_link, req_in, req_uploads, req_store>>
  BY <1>1, <1>4 DEF BeginDispatch
<1>7. Mute(r)
  BY <1>2, MuteUnlessWaiting
<1> QED BY <1>2, <1>3, <1>5, <1>6, <1>7, Asking

LEMMA PushStep ==
    ASSUME ReqInv, NEW r \in Request, NEW size \in 0..MaxChunks, PushFile(r, size)
    PROVE  ReqInv'
<1>1. PICK c : c = [ReqIdle EXCEPT !.at = "pushed", !.kind = "dispatch", !.size = size,
                                   !.epoch = req_losses]
  OBVIOUS
<1>2. /\ c \in RequestRecord /\ c.kind = "dispatch" /\ c.at = "pushed"
  BY <1>1 DEF ReqIdle, RequestRecord, RequestKind, ReqInv, ReqTypeOK
<1>3. req_call[r].at = "idle" /\ req_call[r].kind = "none" /\ req_up
  BY DEF PushFile, ReqIdle
<1>4. PICK f : f = [req |-> r, type |-> "outbound"]
  OBVIOUS
<1>5. f \in InFrame /\ f.req = r /\ f.type = "outbound"
  BY <1>4 DEF InFrame
<1>6. /\ req_call' = [req_call EXCEPT ![r] = c] /\ req_in' = Append(req_in, f)
      /\ UNCHANGED <<req_link, req_out, req_uploads, req_store>>
  BY <1>1, <1>4 DEF PushFile
<1>7. req_in' = req_in \o <<f>>
  <2>1. \A q \in Seq(InFrame), g \in InFrame : Append(q, g) = q \o <<g>>
    OBVIOUS
  <2> QED BY <1>5, <1>6, <2>1 DEF ReqInv, ReqTypeOK
<1>8. Mute(r)
  BY <1>3, MuteUnlessWaiting
<1>9. req_call'[r] = c
  BY <1>6, CallTypes DEF ReqInv
<1>10. CallFits(r)' /\ Answers(f)'
  BY <1>2, <1>5, <1>9 DEF CallFits, Answers
<1> QED BY <1>2, <1>3, <1>5, <1>6, <1>7, <1>8, <1>10, RequestMoves

LEMMA Returning ==
    ASSUME ReqInv, NEW r \in Request, NEW at \in {"done", "failed"},
           req_call[r].at \notin {"waiting", "pushed"} \/ req_call[r].kind = "control",
           at = "done" => /\ Granted(r, req_call[r].got)
                          /\ req_call[r].kind = "upload" =>
                                req_call[r].seq = req_call[r].size + 1,
           Returns(r, at), UNCHANGED <<req_link, req_in, req_uploads, req_store>>
    PROVE  ReqInv'
<1>1. PICK c : c = [req_call[r] EXCEPT !.at = at]
  OBVIOUS
<1>2. /\ c \in RequestRecord /\ c.at = at /\ c.kind = req_call[r].kind
      /\ c.size = req_call[r].size /\ c.seq = req_call[r].seq /\ c.got = req_call[r].got
  BY <1>1, CallTypes DEF ReqInv, RequestRecord
<1>3. req_call' = [req_call EXCEPT ![r] = c] /\ req_call'[r] = c /\ UNCHANGED req_out
  BY <1>1, CallTypes DEF ReqInv, Returns
<1>4. req_sessions' = req_sessions /\ req_files' = req_files
  BY DEF req_store
<1>5. CallFits(r)'
  <2>1. PICK got : got = req_call[r].got
    OBVIOUS
  <2>2. Granted(r, got) => Granted(r, got)'
    BY <1>2, <1>3, <1>4, GrantStands
  <2>3. Granted(r, req_call[r].got)' <=> Granted(r, got)'
    BY <1>2, <1>3, <2>1 DEF Granted
  <2>4. req_call[r].kind = "upload" => req_call[r].seq <= req_call[r].size + 1
    BY DEF ReqInv, CallFits
  <2> QED BY <1>2, <1>3, <2>1, <2>2, <2>3, <2>4 DEF CallFits
<1>6. Mute(r) \/ req_call[r].kind = "control"
  BY MuteUnlessWaiting
<1> QED BY <1>2, <1>3, <1>5, <1>6, RequestMoves

LEMMA ResumeStep ==
    ASSUME ReqInv, NEW r \in Request, ResumeRequest(r)
    PROVE  ReqInv'
<1> DEFINE call == req_call[r]
<1>1. /\ call \in RequestRecord /\ call.at = "answered" /\ CallFits(r)
      /\ call.size \in Nat /\ call.seq \in Nat
      /\ UNCHANGED <<req_link, req_in, req_uploads, req_store>>
  BY CallTypes DEF ResumeRequest, ReqInv
<1>2. PICK next : next = [call EXCEPT !.seq = call.seq + 1]
  OBVIOUS
<1>3. /\ next \in RequestRecord /\ next.kind = call.kind /\ next.size = call.size
      /\ next.seq = call.seq + 1
  BY <1>1, <1>2 DEF RequestRecord
<1>4. CASE Returns(r, "failed")
  BY <1>1, <1>4, Returning
<1>5. CASE /\ call.kind = "upload" /\ call.seq < call.size
           /\ Asks(r, next, [req |-> r, type |-> "file_put_chunk", seq |-> call.seq])
  <2>1. PICK f : f = [req |-> r, type |-> "file_put_chunk", seq |-> call.seq]
    OBVIOUS
  <2>2. f \in OutFrame /\ f.req = r
    BY <1>1, <2>1 DEF OutFrame
  <2>3. AsksFor(f, next) /\ next.seq <= next.size + 1
    BY <1>1, <1>3, <1>5, <2>1 DEF AsksFor
  <2>4. Mute(r)
    BY <1>1, <1>5, MuteUnlessWaiting
  <2> QED BY <1>1, <1>3, <1>5, <2>1, <2>2, <2>3, <2>4, Asking
<1>6. CASE /\ call.kind = "upload" /\ call.seq = call.size
           /\ Asks(r, next, [req |-> r, type |-> "file_put_commit", total |-> call.size])
  <2>1. PICK f : f = [req |-> r, type |-> "file_put_commit", total |-> call.size]
    OBVIOUS
  <2>2. f \in OutFrame /\ f.req = r
    BY <1>1, <2>1 DEF OutFrame
  <2>3. AsksFor(f, next) /\ next.seq <= next.size + 1
    BY <1>1, <1>3, <1>6, <2>1 DEF AsksFor
  <2>4. Mute(r)
    BY <1>1, <1>6, MuteUnlessWaiting
  <2> QED BY <1>1, <1>3, <1>6, <2>1, <2>2, <2>3, <2>4, Asking
<1>7. CASE /\ call.status \in {"ok", "duplicate"} /\ Returns(r, "done")
           /\ ~(call.kind = "upload" /\ call.seq < call.size)
           /\ ~(call.kind = "upload" /\ call.seq = call.size)
  <2>1. Granted(r, call.got)
    BY <1>1, <1>7 DEF CallFits, Good
  <2>2. call.kind = "upload" => call.seq = call.size + 1
    BY <1>1, <1>7 DEF CallFits
  <2> QED BY <1>1, <1>7, <2>1, <2>2, Returning
<1> QED BY <1>2, <1>4, <1>5, <1>6, <1>7 DEF ResumeRequest

LEMMA TimeoutStep ==
    ASSUME ReqInv, NEW r \in Request, ControlTimesOut(r)
    PROVE  ReqInv'
  BY Returning DEF ControlTimesOut

(***************************************************************************)
(* The receiver: it takes the first frame, and what is left of the frames  *)
(* of its request still fits.                                              *)
(***************************************************************************)
LEMMA FrameReceived ==
    ASSUME ReqInv, req_in # <<>>, req_in' = Tail(req_in),
           NEW r \in Request, Head(req_in).req = r,
           NEW c \in RequestRecord, req_call' = [req_call EXCEPT ![r] = c],
           c.kind = req_call[r].kind, c.size = req_call[r].size, CallFits(r)',
           \A g \in Frames(Tail(req_in)) : g.req = r => Answers(g)',
           UNCHANGED <<req_link, req_out, req_uploads, req_store>>
    PROVE  ReqInv'
<1> USE DEF ReqInv
<1>1. /\ req_call'[r] = c
      /\ \A q \in Request : q # r => req_call'[q] = req_call[q]
      /\ UNCHANGED <<req_up, req_losses, req_files, req_sessions, req_uploads, req_out>>
  BY DEF ReqTypeOK, req_link, req_store
<1>2. /\ req_in' \in Seq(InFrame) /\ Head(req_in) \in InFrame
      /\ Frames(req_in) = {Head(req_in)} \cup Frames(req_in')
  BY FramesRead DEF ReqTypeOK
<1>3. ReqTypeOK' /\ LostIsGone'
  BY <1>1, <1>2 DEF ReqTypeOK, LostIsGone
<1>4. /\ Len(req_in) \in Nat /\ Len(req_in) > 0 /\ DOMAIN req_in = 1..Len(req_in)
      /\ DOMAIN req_in' = 1..Len(req_in) - 1
      /\ \A i \in 1..Len(req_in) - 1 : req_in'[i] = req_in[i + 1]
      /\ Head(req_in) = req_in[1]
  BY InFrames DEF ReqTypeOK
<1>5. \A i \in DOMAIN req_in' : i + 1 \in DOMAIN req_in /\ req_in'[i] = req_in[i + 1]
  BY <1>4
<1>6. OneFrameEach'
  <2>1. ASSUME NEW i \in DOMAIN req_in', NEW j \in DOMAIN req_in', i < j,
               req_in'[i].req = req_in'[j].req
        PROVE  req_in'[i].type = "file_get_chunk" /\ req_in'[j].type # "outbound"
    <3>1. i + 1 < j + 1
      BY <1>4, <2>1
    <3> QED BY <1>5, <2>1, <3>1 DEF OneFrameEach
  <2> QED BY <1>1, <1>5, <2>1 DEF OneFrameEach
<1>7. StoreFits'
  <2>1. ASSUME NEW u \in Request
        PROVE  Chunks(u)' = Chunks(u) /\ req_call'[u].kind = req_call[u].kind
    BY <1>1 DEF Chunks
  <2>2. /\ \A u \in DOMAIN req_uploads : u \in Request
        /\ \A f \in req_files : f[1] \in Request
    BY DEF ReqTypeOK
  <2>3. ASSUME NEW f \in req_files
        PROVE  req_call'[f[1]].kind = "upload" /\ f[2] = Chunks(f[1])'
    <3>1. PICK u : u = f[1]
      OBVIOUS
    <3> QED BY <2>1, <2>2, <3>1 DEF StoreFits
  <2> QED BY <1>1, <2>1, <2>2, <2>3 DEF StoreFits
<1>8. ASSUME NEW q \in Request PROVE CallFits(q)'
  <2>1. CASE q = r
    BY <2>1
  <2>2. CASE q # r
    <3>1. PICK got : got = req_call[q].got
      OBVIOUS
    <3>2. Granted(q, got) => Granted(q, got)'
      BY <1>1, <2>2, GrantStands
    <3>3. Granted(q, req_call[q].got)' <=> Granted(q, got)'
      BY <1>1, <2>2, <3>1 DEF Granted
    <3> QED BY <1>1, <2>2, <3>1, <3>2, <3>3 DEF CallFits
  <2> QED BY <2>1, <2>2
<1>9. ASSUME NEW f \in Frames(req_out) PROVE Asked(f)'
  <2>1. Asked(f) /\ f.req \in Request
    BY UnderWayTypes DEF FramesFit
  <2>2. f.req # r
    <3>1. PICK i \in DOMAIN req_out : f = req_out[i]
      BY DEF Frames
    <3>2. 1 \in DOMAIN req_in /\ req_in[1].req = r
      BY <1>4
    <3> QED BY <3>1, <3>2 DEF OneFrameEach
  <2> QED BY <1>1, <2>1, <2>2, AskedStands
<1>10. ASSUME NEW f \in Frames(req_in') PROVE Answers(f)'
  <2>1. f \in Frames(req_in) /\ Answers(f) /\ f.req \in Request
    BY <1>2, UnderWayTypes DEF FramesFit
  <2>2. CASE f.req = r
    BY <2>2
  <2>3. CASE f.req # r
    <3>1. Coming(f.req)' = Coming(f.req)
      BY <1>2, <2>3 DEF Coming
    <3> QED BY <1>1, <2>1, <2>3, <3>1, AnswerStands
  <2> QED BY <2>2, <2>3
<1> QED BY <1>1, <1>3, <1>6, <1>7, <1>8, <1>9, <1>10 DEF FramesFit

LEMMA HeadAlone ==
    ASSUME ReqInv, req_in # <<>>
    PROVE  \A g \in Frames(Tail(req_in)) :
              g.req = Head(req_in).req =>
                 Head(req_in).type = "file_get_chunk" /\ g.type # "outbound"
<1>1. /\ Len(req_in) \in Nat /\ Len(req_in) > 0 /\ DOMAIN req_in = 1..Len(req_in)
      /\ DOMAIN Tail(req_in) = 1..Len(req_in) - 1
      /\ \A i \in 1..Len(req_in) - 1 : Tail(req_in)[i] = req_in[i + 1]
      /\ Head(req_in) = req_in[1]
  BY InFrames DEF ReqInv, ReqTypeOK
<1>2. ASSUME NEW g \in Frames(Tail(req_in)), g.req = Head(req_in).req
      PROVE  Head(req_in).type = "file_get_chunk" /\ g.type # "outbound"
  <2>1. PICK i \in 1..Len(req_in) - 1 : g = Tail(req_in)[i]
    BY <1>1 DEF Frames
  <2>2. /\ i + 1 \in DOMAIN req_in /\ 1 \in DOMAIN req_in /\ 1 < i + 1
        /\ g = req_in[i + 1]
    BY <1>1, <2>1
  <2>3. req_in[1].req = req_in[i + 1].req
    BY <1>1, <1>2, <2>2
  <2> QED BY <1>1, <2>2, <2>3 DEF ReqInv, OneFrameEach
<1> QED BY <1>2

LEMMA ReceiveStep ==
    ASSUME ReqInv, ReceiveAnswer
    PROVE  ReqInv'
<1> DEFINE f == Head(req_in)
           call == req_call[f.req]
<1>1. /\ req_in # <<>> /\ req_in' = Tail(req_in) /\ TakeFrame(f)
      /\ UNCHANGED <<req_link, req_out, req_uploads, req_store>>
  BY DEF ReceiveAnswer
<1>2. /\ f \in InFrame /\ f \in Frames(req_in) /\ Answers(f)
      /\ Frames(req_in) = {f} \cup Frames(Tail(req_in))
      /\ \A g \in Frames(Tail(req_in)) : Answers(g)
  BY <1>1, FramesRead DEF ReqInv, ReqTypeOK, FramesFit
<1>3. PICK r \in Request : r = f.req
  BY <1>2, FrameFields
<1>4. /\ call \in RequestRecord /\ DOMAIN req_call = Request /\ CallFits(r)
      /\ req_call[r].at = call.at /\ req_call[r].kind = call.kind
      /\ req_call[r].size \in Nat
  BY <1>3, CallTypes DEF ReqInv
<1>5. req_sessions' = req_sessions /\ req_files' = req_files
  BY <1>1 DEF req_store
<1>6. CASE f.type = "outbound"
  <2>1. req_call[r].kind = "dispatch" /\ req_call[r].at \in {"pushed", "waiting"}
    BY <1>2, <1>3, <1>6 DEF Answers
  <2>2. PICK c : c = [req_call[r] EXCEPT !.at = "dispatching", !.got = {}]
    OBVIOUS
  <2>3. /\ c \in RequestRecord /\ c.kind = "dispatch" /\ c.got = {} /\ c.at = "dispatching"
        /\ c.size = req_call[r].size
    BY <1>3, <1>4, <2>1, <2>2 DEF RequestRecord
  <2>4. req_call' = [req_call EXCEPT ![r].at = "dispatching", ![r].got = {}]
    BY <1>1, <1>3, <1>6 DEF TakeFrame
  <2>5. req_call' = [req_call EXCEPT ![r] = c] /\ req_call'[r] = c
    BY <1>4, <2>2, <2>4
  <2>6. CallFits(r)'
    BY <2>3, <2>5 DEF CallFits
  <2>7. \A g \in Frames(Tail(req_in)) : g.req # r
    BY <1>1, <1>3, <1>6, HeadAlone
  <2> QED BY <1>1, <1>3, <2>1, <2>3, <2>5, <2>6, <2>7, FrameReceived
<1>7. CASE f.type = "file_get_chunk"
  <2>1. /\ req_call[r].kind \in {"download", "dispatch"} /\ req_call[r].at = "waiting"
        /\ f.seq < req_call[r].size /\ f.seq \in Nat
    BY <1>2, <1>3, <1>7, FrameFields DEF Answers
  <2>2. PICK c : c = [req_call[r] EXCEPT !.got = req_call[r].got \cup {f.seq}]
    OBVIOUS
  <2>3. /\ c \in RequestRecord /\ c.kind = req_call[r].kind /\ c.at = "waiting"
        /\ c.got = req_call[r].got \cup {f.seq} /\ c.size = req_call[r].size
        /\ c.seq = req_call[r].seq
    BY <1>3, <1>4, <2>1, <2>2 DEF RequestRecord
  <2>4. req_call' = [req_call EXCEPT ![r].got = req_call[r].got \cup {f.seq}]
    BY <1>1, <1>3, <1>7 DEF TakeFrame
  <2>5. req_call' = [req_call EXCEPT ![r] = c] /\ req_call'[r] = c
    BY <1>4, <2>2, <2>4
  <2>6. CallFits(r)'
    BY <2>1, <2>3, <2>5 DEF CallFits
  <2>7. ASSUME NEW g \in Frames(Tail(req_in)), g.req = r PROVE Answers(g)'
    <3>1. Answers(g) /\ g.type # "outbound"
      BY <1>1, <1>2, <1>3, <2>7, HeadAlone
    <3>2. CASE g.type = "file_get_chunk"
      BY <2>3, <2>5, <2>7, <3>1, <3>2 DEF Answers
    <3>3. CASE g.type = "answer"
      <4>1. PICK got : got = req_call[r].got \cup Coming(r)
        OBVIOUS
      <4>2. g.status \in Good => Granted(r, got)
        BY <2>1, <2>7, <3>1, <3>3, <4>1 DEF Answers
      <4>3. Granted(r, got) => Granted(r, got)'
        BY <1>5, <2>3, <2>5, GrantStands
      <4>4. Coming(r) = {f.seq} \cup Coming(r)'
        BY <1>1, <1>2, <1>3, <1>7 DEF Coming
      <4>5. (req_call[r].got \cup Coming(r))' = got
        BY <2>3, <2>5, <4>1, <4>4
      <4>6. Granted(r, req_call[r].got \cup Coming(r))' <=> Granted(r, got)'
        BY <4>5 DEF Granted
      <4> QED BY <2>3, <2>5, <2>7, <3>3, <4>2, <4>3, <4>6 DEF Answers
    <3> QED BY <3>1, <3>2, <3>3 DEF Answers
  <2> QED BY <1>1, <1>3, <2>3, <2>5, <2>6, <2>7, FrameReceived
<1>8. CASE f.type = "answer"
  <2>1. \A g \in Frames(Tail(req_in)) : g.req # r
    BY <1>1, <1>3, <1>8, HeadAlone
  <2>2. CASE ~Waiting(r)
    <3>1. PICK c \in RequestRecord : c = req_call[r]
      BY <1>3, <1>4
    <3>2. req_call' = req_call
      BY <1>1, <1>3, <1>8, <2>2 DEF TakeFrame
    <3>3. req_call' = [req_call EXCEPT ![r] = c]
      <4>1. req_call \in [Request -> RequestRecord]
        BY DEF ReqInv, ReqTypeOK
      <4> QED BY <3>1, <3>2, <4>1
    <3>4. CallFits(r)'
      BY <1>4, <1>5, <3>2 DEF CallFits, Granted, Chunks
    <3> QED BY <1>1, <1>3, <2>1, <3>1, <3>3, <3>4, FrameReceived
  <2>3. CASE Waiting(r)
    <3>1. f.status \in {"ok", "duplicate", "invalid", "failed"}
      BY <1>2, <1>8, FrameFields
    <3>2. PICK c : c = [req_call[r] EXCEPT !.at = "answered", !.status = f.status]
      OBVIOUS
    <3>3. /\ c \in RequestRecord /\ c.kind = req_call[r].kind /\ c.at = "answered"
          /\ c.size = req_call[r].size /\ c.seq = req_call[r].seq
          /\ c.got = req_call[r].got /\ c.status = f.status
      BY <1>3, <1>4, <3>1, <3>2 DEF RequestRecord
    <3>4. req_call' = [req_call EXCEPT ![r].at = "answered", ![r].status = f.status]
      BY <1>1, <1>3, <1>8, <2>3 DEF TakeFrame
    <3>5. req_call' = [req_call EXCEPT ![r] = c] /\ req_call'[r] = c
      BY <1>4, <3>2, <3>4
    <3>6. Coming(r) = {}
      BY <1>2, <1>8, <2>1 DEF Coming
    <3>7. req_call[r].got \cup Coming(r) = req_call[r].got
      BY <3>6
    <3>8. f.status \in Good => Granted(r, req_call[r].got)
      BY <1>2, <1>3, <1>8, <2>3, <3>7 DEF Answers, Granted
    <3>9. f.status \in Good => Granted(r, req_call[r].got)'
      <4>1. PICK got : got = req_call[r].got
        OBVIOUS
      <4>2. Granted(r, got) => Granted(r, got)'
        BY <1>5, <3>3, <3>5, GrantStands
      <4>3. Granted(r, req_call[r].got)' <=> Granted(r, got)'
        BY <3>3, <3>5, <4>1 DEF Granted
      <4> QED BY <3>8, <4>1, <4>2, <4>3
    <3>10. CallFits(r)'
      BY <1>4, <3>3, <3>5, <3>9 DEF CallFits
    <3> QED BY <1>1, <1>3, <2>1, <3>3, <3>5, <3>10, FrameReceived
  <2> QED BY <2>2, <2>3
<1> QED BY <1>2, <1>6, <1>7, <1>8, FrameFields

(***************************************************************************)
(* The connection.                                                         *)
(***************************************************************************)
LEMMA NothingSent ==
    <<>> \in Seq(InFrame) /\ <<>> \in Seq(OutFrame) /\ DOMAIN <<>> = {} /\ Frames(<<>>) = {}
  BY DEF Frames

(* Nothing of the requests and of what is stored changes.                  *)
LEMMA CallsStand ==
    ASSUME ReqInv, UNCHANGED <<req_call, req_store>>
    PROVE  \A r \in Request : CallFits(r)' /\ Chunks(r)' = Chunks(r)
  BY DEF ReqInv, CallFits, Granted, Chunks, req_store

LEMMA LoseStep ==
    ASSUME ReqInv, NEW restart \in BOOLEAN, LoseBridge(restart)
    PROVE  ReqInv'
<1>1. /\ req_up' = FALSE /\ req_losses' = req_losses + 1
      /\ req_out' = <<>> /\ req_in' = <<>>
      /\ UNCHANGED <<req_call, req_files, req_sessions>>
      /\ req_uploads' = [r \in {} |-> {}] \/ req_uploads' = req_uploads
  BY DEF LoseBridge, req_store
<1>2. DOMAIN [r \in {} |-> {}] = {} /\ [r \in {} |-> {}] \in [{} -> SUBSET Nat]
  OBVIOUS
<1>3. ReqTypeOK' /\ LostIsGone'
  <2>1. DOMAIN req_uploads' \subseteq Request
    BY <1>1, <1>2 DEF ReqInv, ReqTypeOK
  <2>2. req_uploads' \in [DOMAIN req_uploads' -> SUBSET Nat]
    BY <1>1, <1>2 DEF ReqInv, ReqTypeOK
  <2>3. req_up' \in BOOLEAN /\ req_losses' \in Nat
    <3>1. req_up' \in BOOLEAN
      BY <1>1
    <3>2. req_losses \in Nat /\ req_losses' = req_losses + 1
      BY <1>1 DEF ReqInv, ReqTypeOK
    <3> QED BY <3>1, <3>2
  <2>4. req_out' \in Seq(OutFrame) /\ req_in' \in Seq(InFrame)
    BY <1>1, NothingSent
  <2>5. /\ req_call' \in [Request -> RequestRecord]
        /\ req_files' \subseteq Request \X SUBSET Nat /\ req_sessions' \subseteq Request
    BY <1>1 DEF ReqInv, ReqTypeOK
  <2>6. ReqTypeOK'
    BY <2>1, <2>2, <2>3, <2>4, <2>5 DEF ReqTypeOK
  <2> QED BY <1>1, <2>6 DEF LostIsGone
<1>4. OneFrameEach' /\ FramesFit'
  BY <1>1, NothingSent DEF OneFrameEach, FramesFit
<1>5. \A r \in Request : CallFits(r)' /\ Chunks(r)' = Chunks(r)
  BY CallsStand DEF LoseBridge
<1>6. StoreFits'
  <2>1. \A u : Chunks(u)' = Chunks(u)
    BY <1>1 DEF Chunks
  <2> QED BY <1>1, <1>2, <2>1 DEF ReqInv, StoreFits
<1> QED BY <1>3, <1>4, <1>5, <1>6 DEF ReqInv

LEMMA RestoreStep ==
    ASSUME ReqInv, RestoreBridge
    PROVE  ReqInv'
<1> DEFINE unacked == {r \in Request : /\ req_call[r].at \in {"pushed", "waiting"}
                                       /\ req_call[r].kind = "dispatch"}
<1>1. PICK order \in [1..Cardinality(unacked) -> unacked] :
          /\ \A i, j \in DOMAIN order : order[i] = order[j] => i = j
          /\ req_in' = [i \in DOMAIN order |-> [req |-> order[i], type |-> "outbound"]]
  BY DEF RestoreBridge
<1>2. /\ ~req_up /\ req_up' = TRUE
      /\ UNCHANGED <<req_losses, req_out, req_call, req_uploads, req_store>>
  BY DEF RestoreBridge
<1>3. req_out = <<>>
  BY <1>2 DEF ReqInv, LostIsGone
<1>4. PICK n \in Nat : n = Cardinality(unacked)
  <2>1. IsFiniteSet(unacked)
    BY RequestAssumption, FS_Subset
  <2> QED BY <2>1, FS_CardinalityType
<1>5. /\ DOMAIN order = 1..n /\ DOMAIN req_in' = 1..n
      /\ \A i \in 1..n : /\ order[i] \in unacked
                         /\ req_in'[i] = [req |-> order[i], type |-> "outbound"]
  BY <1>1, <1>4
<1>6. \A i \in 1..n : /\ req_in'[i].req = order[i] /\ req_in'[i].type = "outbound"
                      /\ req_in'[i] \in InFrame
  BY <1>5 DEF InFrame
<1>7. req_in' \in Seq(InFrame)
  <2>1. req_in' \in [1..n -> InFrame]
    BY <1>1, <1>5, <1>6
  <2>2. \A m \in Nat : \A s \in [1..m -> InFrame] : s \in Seq(InFrame)
    OBVIOUS
  <2> QED BY <2>1, <2>2
<1>8. ReqTypeOK' /\ LostIsGone'
  BY <1>2, <1>7 DEF ReqInv, ReqTypeOK, LostIsGone, req_store
<1>9. OneFrameEach'
  <2>1. \A i, j \in 1..n : i < j => order[i] # order[j]
    BY <1>1, <1>5
  <2> QED BY <1>2, <1>3, <1>5, <1>6, <2>1, NothingSent DEF OneFrameEach
<1>10. FramesFit'
  <2>1. ASSUME NEW f \in Frames(req_in') PROVE Answers(f)'
    <3>1. PICK i \in 1..n : f = req_in'[i]
      BY <1>5 DEF Frames
    <3>2. f.type = "outbound" /\ f.req \in unacked
      BY <1>5, <1>6, <3>1
    <3> QED BY <1>2, <3>2 DEF Answers
  <2> QED BY <1>2, <1>3, <2>1, NothingSent DEF FramesFit
<1>11. \A r \in Request : CallFits(r)'
  BY <1>2, CallsStand
<1>12. StoreFits'
  <2>1. \A u : Chunks(u)' = Chunks(u)
    BY <1>2 DEF Chunks
  <2> QED BY <1>2, <2>1 DEF ReqInv, StoreFits, req_store
<1> QED BY <1>8, <1>9, <1>10, <1>11, <1>12 DEF ReqInv

(***************************************************************************)
(* Every file is stored whole, and who is told of a file or a session      *)
(* finds it (WsBridgeClient.upload_file, download_file).                   *)
(***************************************************************************)
LEMMA ReqInvHolds == ReqSafeSpec => []ReqInv
<1>1. ReqInit => ReqInv
  <2> SUFFICES ASSUME ReqInit PROVE ReqInv
    OBVIOUS
  <2>1. ReqIdle \in RequestRecord
    BY RequestAssumption DEF ReqIdle, RequestRecord
  <2>2. ReqTypeOK
    <3>1. DOMAIN [r \in {} |-> {}] = {} /\ [r \in {} |-> {}] \in [{} -> SUBSET Nat]
      OBVIOUS
    <3> QED BY <2>1, <3>1, NothingSent DEF ReqInit, ReqTypeOK
  <2>3. LostIsGone /\ OneFrameEach /\ FramesFit
    BY NothingSent DEF ReqInit, LostIsGone, OneFrameEach, FramesFit
  <2>4. StoreFits
    BY DEF ReqInit, StoreFits
  <2>5. \A r \in Request : CallFits(r)
    BY DEF ReqInit, CallFits, ReqIdle
  <2> QED BY <2>2, <2>3, <2>4, <2>5 DEF ReqInv
<1>2. ReqInv /\ [ReqNext]_req_vars => ReqInv'
  <2> SUFFICES ASSUME ReqInv, [ReqNext]_req_vars PROVE ReqInv'
    OBVIOUS
  <2>1. CASE UNCHANGED req_vars
    BY <2>1 DEF req_vars, req_link, req_store, ReqInv, ReqTypeOK, LostIsGone, OneFrameEach,
                FramesFit, Asked, AsksFor, Answers, Granted, Coming, CallFits, StoreFits, Chunks
  <2>2. CASE \E r \in Request, kind \in RequestKind, size \in 0..MaxChunks :
                StartRequest(r, kind, size)
    BY <2>2, StartStep
  <2>3. CASE \E r \in Request, size \in 0..MaxChunks : PushFile(r, size)
    BY <2>3, PushStep
  <2>4. CASE \E r \in Request : \/ BeginDispatch(r) \/ ResumeRequest(r)
                                \/ ControlTimesOut(r)
    BY <2>4, DispatchStep, ResumeStep, TimeoutStep
  <2>5. CASE HandleRequest
    BY <2>5, HandleStep
  <2>6. CASE ReceiveAnswer
    BY <2>6, ReceiveStep
  <2>7. CASE \E restart \in BOOLEAN : LoseBridge(restart)
    BY <2>7, LoseStep
  <2>8. CASE RestoreBridge
    BY <2>8, RestoreStep
  <2> QED BY <2>1, <2>2, <2>3, <2>4, <2>5, <2>6, <2>7, <2>8 DEF ReqNext
<1> QED BY <1>1, <1>2, PTL DEF ReqSafeSpec

(* An upload that is reported done is stored with all its chunks, a         *)
(* download that is handed over has them all, and a session that is         *)
(* reported open was opened, whatever was lost on the way                   *)
(* (put_commit, WsBridgeClient.upload_file, download_file).               *)
THEOREM TransfersComplete == ReqSafeSpec => []TransfersAreWhole
<1>1. ReqInv => TransfersAreWhole
  BY DEF ReqInv, StoreFits, CallFits, Granted, TransfersAreWhole, Done
<1> QED BY <1>1, ReqInvHolds, PTL
=============================================================================
