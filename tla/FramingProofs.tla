---------------------------- MODULE FramingProofs ----------------------------
(***************************************************************************)
(* What is proved about Framing for any connections, lengths and ways of    *)
(* cutting the streams: types; that the aggregator's handlers get the       *)
(* messages whole and in order, which is to say that sockets, readers and   *)
(* signals implement MessageQueue; that a follower without a handler reads  *)
(* the answer to what it asked; and that an alarm between the reads of an   *)
(* answer alone puts one out of step.  Of the configuration it takes only   *)
(* that a handler's socket takes a message at once (RoomAssumption).        *)
(***************************************************************************)
EXTENDS Framing, SequenceTheorems, TLAPS

----------------------------------------------------------------------------
(* Exchanges, lengths and the parts of streams. *)

Calls == [main : Frame, sig : Frame]

LEMMA GotoEffect ==
    ASSUME call \in [Conns -> Calls], NEW c \in Conns, NEW f, Goto(c, f)
    PROVE  /\ \A d \in Conns : d # c => call'[d] = call[d]
           /\ Top(c) = "sig" => call'[c] = [main |-> call[c].main, sig |-> f]
           /\ Top(c) = "main" => call'[c] = [main |-> f, sig |-> call[c].sig]
           /\ DOMAIN call' = Conns
           /\ call' = [x \in Conns |-> call'[x]]
<1>1. call' = [call EXCEPT ![c][Top(c)] = f]
  BY DEF Goto
<1>2. Top(c) \in {"sig", "main"}
  BY DEF Top
<1>3. CASE Top(c) = "sig"
  <2>1. call' = [call EXCEPT ![c] = [call[c] EXCEPT !["sig"] = f]]
    BY <1>1, <1>3
  <2>2. call[c] \in Calls
    OBVIOUS
  <2>3. [call[c] EXCEPT !["sig"] = f] = [main |-> call[c].main, sig |-> f]
    <3>1. PICK a \in Frame, b \in Frame : call[c] = [main |-> a, sig |-> b]
      BY <2>2 DEF Calls
    <3>2. QED
      BY <3>1
  <2>4. QED
    BY <1>3, <2>1, <2>3
<1>4. CASE Top(c) = "main"
  <2>1. call' = [call EXCEPT ![c] = [call[c] EXCEPT !["main"] = f]]
    BY <1>1, <1>4
  <2>2. call[c] \in Calls
    OBVIOUS
  <2>3. [call[c] EXCEPT !["main"] = f] = [main |-> f, sig |-> call[c].sig]
    <3>1. PICK a \in Frame, b \in Frame : call[c] = [main |-> a, sig |-> b]
      BY <2>2 DEF Calls
    <3>2. QED
      BY <3>1
  <2>4. QED
    BY <1>4, <2>1, <2>3
<1>5. QED
  BY <1>2, <1>3, <1>4

LEMMA TopFrame ==
    ASSUME call \in [Conns -> Calls], NEW c \in Conns
    PROVE  /\ Top(c) = "sig" => call[c][Top(c)] = call[c].sig
           /\ Top(c) = "main" => call[c][Top(c)] = call[c].main
           /\ Top(c) \in {"sig", "main"}
           /\ Top(c) = "main" <=> call[c].sig.at = "idle"
           /\ call[c][Top(c)] \in Frame
<1>1. call[c] \in Calls
  OBVIOUS
<1>2. call[c]["sig"] = call[c].sig /\ call[c]["main"] = call[c].main
  BY <1>1 DEF Calls
<1>3. call[c].sig \in Frame /\ call[c].main \in Frame
  BY <1>1 DEF Calls
<1>4. Top(c) \in {"sig", "main"} /\ (Top(c) = "main" <=> call[c].sig.at = "idle")
  BY DEF Top
<1>5. QED
  BY <1>2, <1>3, <1>4

LEMMA MinInts ==
    ASSUME NEW a \in Int, NEW b \in Int
    PROVE  Min({a, b}) <= a /\ Min({a, b}) <= b /\ Min({a, b}) \in {a, b}
<1>1. \E x \in {a, b} : \A y \in {a, b} : x <= y
  OBVIOUS
<1>2. Min({a, b}) \in {a, b} /\ \A y \in {a, b} : Min({a, b}) <= y
  BY <1>1 DEF Min
<1>3. QED
  BY <1>2

LEMMA Lens == /\ Contents \subseteq Lengths /\ RespLen \in Lengths /\ 0 \in Lengths /\ Huge \in Lengths
              /\ Lengths \subseteq Nat /\ HeadLen \in Nat \ {0} /\ RespLen \in Nat /\ Contents \subseteq Nat
  BY LengthAssumption DEF Lengths, Huge

LEMMA IdleType == Idle \in Frame
  BY Lens DEF Idle, Frame

LEMMA UnitsType ==
    ASSUME NEW m \in Nat, NEW len \in Contents \cup {RespLen}, NEW from \in Nat, NEW to \in Nat,
           from <= to
    PROVE  /\ Units(m, len, from, to) \in Seq(Unit)
           /\ Len(Units(m, len, from, to)) = to - from
           /\ \A i \in 1..(to - from) :
                  Units(m, len, from, to)[i] = [msg |-> m, at |-> from + i - 1, len |-> len]
<1>1. \A i \in 1..(to - from) : [msg |-> m, at |-> from + i - 1, len |-> len] \in Unit
  BY DEF Unit
<1>2. Units(m, len, from, to) \in [1..(to - from) -> Unit]
  BY <1>1 DEF Units
<1>3. to - from \in Nat
  OBVIOUS
<1>4. Units(m, len, from, to) \in Seq(Unit) /\ Len(Units(m, len, from, to)) = to - from
  BY <1>2, <1>3
<1>5. QED
  BY <1>4 DEF Units

LEMMA UnitsSeq ==
    ASSUME NEW m \in Nat, NEW len \in Contents \cup {RespLen}, NEW from \in Nat, NEW to \in Nat,
           from <= to
    PROVE  Units(m, len, from, to) \in Seq(Unit) /\ Len(Units(m, len, from, to)) = to - from
  BY UnitsType

LEMMA LastMsgType ==
    ASSUME NEW s \in Seq(Unit)
    PROVE  LastMsg(s) \in Nat
<1>1. CASE s = << >>
  BY <1>1 DEF LastMsg
<1>2. CASE s # << >>
  <2>1. Len(s) \in 1..Len(s)
    BY <1>2, LenProperties, EmptySeq
  <2>2. s[Len(s)] \in Unit
    BY <2>1, ElementOfSeq
  <2>3. QED
    BY <1>2, <2>2 DEF LastMsg, Unit
<1>3. QED
  BY <1>1, <1>2

LEMMA AnnouncedType ==
    ASSUME NEW s \in Seq(Unit), NEW upto \in Nat, upto <= Len(s), NEW head \in Announced(s, upto)
    PROVE  head.msg \in Nat /\ head.len \in Lengths
<1>1. CASE upto >= HeadLen /\ s[upto - HeadLen + 1].at = 0
  <2>1. upto - HeadLen + 1 \in 1..Len(s)
    BY <1>1, Lens, LenProperties
  <2>2. s[upto - HeadLen + 1] \in Unit
    BY <2>1, ElementOfSeq
  <2>3. head = [msg |-> s[upto - HeadLen + 1].msg, len |-> s[upto - HeadLen + 1].len]
    BY <1>1 DEF Announced
  <2>4. QED
    BY <2>2, <2>3, Lens DEF Unit
<1>2. CASE ~(upto >= HeadLen /\ s[upto - HeadLen + 1].at = 0)
  <2>1. PICK len \in {0, Huge} : head = [msg |-> 0, len |-> len]
    BY <1>2 DEF Announced
  <2>2. QED
    BY <2>1, Lens
<1>3. QED
  BY <1>1, <1>2

----------------------------------------------------------------------------
(* Records with several fields changed. *)

Agg == [at : {"wait", "head", "body"}, conn : Conns \cup {NoConn},
        msg : Nat, n : Nat, len : Lengths]

LEMMA FrameSend ==
    ASSUME NEW len \in Lengths
    PROVE  LET g == [Idle EXCEPT !.at = "send", !.len = len] IN
           g \in Frame /\ g.at = "send" /\ g.msg = 0 /\ g.n = 0 /\ g.len = len
<1> DEFINE g == [Idle EXCEPT !.at = "send", !.len = len]
<1>1. g \in Frame
  BY IdleType DEF Frame
<1>2. g.at = "send" /\ g.msg = 0 /\ g.n = 0 /\ g.len = len
  BY DEF Idle
<1>3. QED
  BY <1>1, <1>2

LEMMA FrameAwait ==
    ASSUME NEW m \in Nat
    PROVE  LET g == AwaitAnswer(m) IN
           g \in Frame /\ g.at = "head" /\ g.msg = m /\ g.n = 0
<1> DEFINE g == AwaitAnswer(m)
<1>1. g \in Frame
  BY IdleType DEF Frame, AwaitAnswer
<1>2. g.at = "head" /\ g.msg = m /\ g.n = 0
  BY DEF Idle, AwaitAnswer
<1>3. QED
  BY <1>1, <1>2

LEMMA FrameSent ==
    ASSUME NEW f \in Frame, NEW k \in Nat, NEW m \in Nat
    PROVE  LET g == [f EXCEPT !.n = k, !.msg = m] IN
           g \in Frame /\ g.at = f.at /\ g.msg = m /\ g.n = k /\ g.len = f.len
  BY DEF Frame

LEMMA FrameMore ==
    ASSUME NEW f \in Frame, NEW k \in Nat
    PROVE  LET g == [f EXCEPT !.n = @ + k] IN
           g \in Frame /\ g.at = f.at /\ g.msg = f.msg /\ g.n = f.n + k /\ g.len = f.len /\ g.of = f.of
  BY DEF Frame

LEMMA FrameBody ==
    ASSUME NEW f \in Frame, NEW len \in Lengths, NEW of \in Nat
    PROVE  LET g == [f EXCEPT !.at = "body", !.n = 0, !.len = len, !.of = of] IN
           g \in Frame /\ g.at = "body" /\ g.msg = f.msg /\ g.n = 0 /\ g.len = len /\ g.of = of
  BY DEF Frame

LEMMA FrameShort ==
    ASSUME NEW f \in Frame, NEW len \in Lengths
    PROVE  LET g == [f EXCEPT !.at = "body", !.n = 0, !.len = len] IN
           g \in Frame /\ g.at = "body" /\ g.msg = f.msg /\ g.n = 0 /\ g.len = len /\ g.of = f.of
  BY DEF Frame

LEMMA WaitingType ==
    /\ Waiting \in Agg
    /\ Waiting.at = "wait" /\ Waiting.conn = NoConn /\ Waiting.msg = 0 /\ Waiting.n = 0
<1>1. Waiting \in Agg
  BY Lens DEF Waiting, Agg
<1>2. QED
  BY <1>1 DEF Waiting

LEMMA AggHead ==
    ASSUME NEW c \in Conns
    PROVE  LET g == [Waiting EXCEPT !.at = "head", !.conn = c] IN
           g \in Agg /\ g.at = "head" /\ g.conn = c /\ g.msg = 0 /\ g.n = 0
<1> DEFINE g == [Waiting EXCEPT !.at = "head", !.conn = c]
<1>1. g \in Agg
  BY WaitingType DEF Agg
<1>2. g.at = "head" /\ g.conn = c /\ g.msg = 0 /\ g.n = 0
  BY DEF Waiting
<1>3. QED
  BY <1>1, <1>2

LEMMA AggMore ==
    ASSUME agg \in Agg, NEW k \in Nat
    PROVE  LET g == [agg EXCEPT !.n = @ + k] IN
           g \in Agg /\ g.at = agg.at /\ g.conn = agg.conn /\ g.msg = agg.msg
           /\ g.n = agg.n + k /\ g.len = agg.len
  BY DEF Agg

LEMMA AggBody ==
    ASSUME agg \in Agg, NEW m \in Nat, NEW len \in Lengths
    PROVE  LET g == [agg EXCEPT !.at = "body", !.n = 0, !.msg = m, !.len = len] IN
           g \in Agg /\ g.at = "body" /\ g.conn = agg.conn /\ g.msg = m /\ g.n = 0 /\ g.len = len
  BY DEF Agg

LEMMA AggShort ==
    ASSUME agg \in Agg, NEW len \in Lengths
    PROVE  LET g == [agg EXCEPT !.at = "body", !.n = 0, !.len = len] IN
           g \in Agg /\ g.at = "body" /\ g.conn = agg.conn /\ g.msg = agg.msg /\ g.n = 0 /\ g.len = len
  BY DEF Agg

----------------------------------------------------------------------------
(* Types. *)

FrameOK(c, f) ==
    f.at = "send" => /\ f.len \in Contents \cup {RespLen}
                     /\ f.n < HeadLen + f.len
                     /\ c \in Roomy => f.n = 0

FrameInv(c) ==
    /\ FrameOK(c, call[c].main) /\ FrameOK(c, call[c].sig)
    /\ c \notin Rotating => call[c].sig = Idle

CallInv == call \in [Conns -> Calls] /\ \A c \in Conns : FrameInv(c)

StreamInv ==
    /\ out \in [Conns -> Seq(Unit)] /\ back \in [Conns -> Seq(Unit)]
    /\ arrived \in [Conns -> Nat] /\ taken \in [Conns -> Nat] /\ heard \in [Conns -> Nat]
    /\ \A c \in Conns : /\ taken[c] <= arrived[c] /\ arrived[c] <= Len(out[c])
                         /\ heard[c] <= Len(back[c])
    /\ over \in [Conns -> {"no", "closed", "reset", "mute"}]
    /\ eof \in SUBSET Conns

AggInv ==
    /\ ready \in SUBSET Conns /\ batch \in SUBSET Conns /\ closed \in SUBSET Conns
    /\ agg \in Agg
    /\ handled \in [Conns -> Seq([msg : Nat, whole : BOOLEAN])]
    /\ agg.at = "wait" <=> agg.conn = NoConn
    /\ agg.at # "body" => agg.msg = 0

TypeInv == CallInv /\ StreamInv /\ AggInv

LEMMA GotoType ==
    ASSUME CallInv, NEW c \in Conns, NEW f \in Frame, FrameOK(c, f), Goto(c, f)
    PROVE  CallInv'
<1>1. call \in [Conns -> Calls]
  BY DEF CallInv
<1>2. /\ \A d \in Conns : d # c => call'[d] = call[d]
      /\ Top(c) = "sig" => call'[c] = [main |-> call[c].main, sig |-> f]
      /\ Top(c) = "main" => call'[c] = [main |-> f, sig |-> call[c].sig]
      /\ call' = [x \in Conns |-> call'[x]]
  BY <1>1, GotoEffect
<1>3. Top(c) \in {"sig", "main"} /\ (Top(c) = "main" <=> call[c].sig.at = "idle")
  BY <1>1, TopFrame
<1>4. FrameInv(c)
  BY DEF CallInv
<1>5. call[c] \in Calls
  BY <1>1
<1>6. Idle.at = "idle"
  BY DEF Idle
<1>7. call'[c] \in Calls
  BY <1>2, <1>3, <1>5 DEF Calls
<1>8. FrameInv(c)'
  BY <1>2, <1>3, <1>4, <1>6 DEF FrameInv, FrameOK
<1>9. \A d \in Conns : d # c => FrameInv(d)' /\ call'[d] \in Calls
  BY <1>1, <1>2 DEF CallInv, FrameInv, FrameOK
<1>10. \A d \in Conns : FrameInv(d)' /\ call'[d] \in Calls
  BY <1>7, <1>8, <1>9
<1>11. call' \in [Conns -> Calls]
  BY <1>2, <1>10
<1>12. QED
  BY <1>10, <1>11 DEF CallInv

LEMMA CallKept == ASSUME CallInv, UNCHANGED call PROVE CallInv'
  BY DEF CallInv, FrameInv, FrameOK

LEMMA StreamKept == ASSUME StreamInv, UNCHANGED <<network, taken>> PROVE StreamInv'
  BY DEF StreamInv, network

LEMMA HeardType ==
    ASSUME StreamInv, NEW c \in Conns, NEW k \in Nat, heard' = [heard EXCEPT ![c] = @ + k],
           heard[c] + k <= Len(back[c]), UNCHANGED <<out, arrived, back, over, eof, taken>>
    PROVE  StreamInv'
<1>1. heard' \in [Conns -> Nat] /\ \A d \in Conns : heard'[d] <= Len(back[d])
  BY DEF StreamInv
<1>2. QED
  BY <1>1 DEF StreamInv

LEMMA AggKept == ASSUME AggInv, UNCHANGED <<agg, ready, batch, closed, handled>> PROVE AggInv'
  BY DEF AggInv

LEMMA InitType == Init => TypeInv
<1> SUFFICES ASSUME Init PROVE TypeInv
  OBVIOUS
<1>1. CallInv
  <2>1. [main |-> Idle, sig |-> Idle] \in Calls
    BY IdleType DEF Calls
  <2>2. call \in [Conns -> Calls]
    BY <2>1 DEF Init
  <2>3. Idle.at = "idle"
    BY DEF Idle
  <2>4. QED
    BY <2>2, <2>3 DEF Init, CallInv, FrameInv, FrameOK
<1>2. StreamInv
  <2>1. << >> \in Seq(Unit) /\ Len(<< >>) = 0
    BY EmptySeq
  <2>2. QED
    BY <2>1 DEF Init, StreamInv
<1>3. AggInv
  <2>1. << >> \in Seq([msg : Nat, whole : BOOLEAN])
    BY EmptySeq
  <2>2. Waiting \in Agg /\ Waiting.at = "wait" /\ Waiting.conn = NoConn /\ Waiting.msg = 0
    BY WaitingType
  <2>3. QED
    BY <2>1, <2>2 DEF Init, AggInv
<1>4. QED
  BY <1>1, <1>2, <1>3 DEF TypeInv

(* A frame that is not sending. *)
LEMMA NotSending == ASSUME NEW c, NEW f, f.at # "send" PROVE FrameOK(c, f)
  BY DEF FrameOK

LEMMA SendFrame ==
    ASSUME NEW c, NEW len \in Contents \cup {RespLen}
    PROVE  LET f == [Idle EXCEPT !.at = "send", !.len = len] IN
           f \in Frame /\ FrameOK(c, f)
<1> DEFINE f == [Idle EXCEPT !.at = "send", !.len = len]
<1>1. len \in Lengths /\ len \in Nat /\ 0 < HeadLen + len
  BY Lens
<1>2. f \in Frame /\ f.at = "send" /\ f.n = 0 /\ f.len = len
  BY <1>1, FrameSend
<1> HIDE DEF f
<1>3. FrameOK(c, f)
  BY <1>1, <1>2 DEF FrameOK
<1>4. QED
  BY <1>2, <1>3 DEF f

LEMMA BeginType == ASSUME TypeInv, NEW c \in Conns, Begin(c) PROVE TypeInv'
<1>1. PICK len \in Contents : Goto(c, [Idle EXCEPT !.at = "send", !.len = len])
  BY DEF Begin
<1>2. CallInv'
  BY <1>1, SendFrame, GotoType DEF TypeInv
<1>3. UNCHANGED <<network, aggregator>>
  BY DEF Begin
<1>4. QED
  BY <1>2, <1>3, StreamKept, AggKept DEF TypeInv, aggregator

LEMMA AlarmType == ASSUME TypeInv, NEW c \in Conns, Alarm(c) PROVE TypeInv'
<1> DEFINE f == [Idle EXCEPT !.at = "send", !.len = RespLen]
<1>1. call' = [call EXCEPT ![c].sig = f] /\ c \in Rotating
  BY DEF Alarm
<1>2. f \in Frame /\ FrameOK(c, f)
  BY SendFrame
<1> HIDE DEF f
<1>3. call \in [Conns -> Calls] /\ \A d \in Conns : FrameInv(d)
  BY DEF TypeInv, CallInv
<1>4. call'[c].main = call[c].main /\ call'[c].sig = f /\ call'[c] \in Calls
  BY <1>1, <1>2, <1>3 DEF Calls
<1>5. \A d \in Conns : d # c => call'[d] = call[d]
  BY <1>1, <1>3
<1>6. \A d \in Conns : FrameInv(d)'
  BY <1>1, <1>2, <1>3, <1>4, <1>5 DEF FrameInv, FrameOK
<1>7. call' \in [Conns -> Calls]
  BY <1>1, <1>3, <1>4, <1>5
<1>8. UNCHANGED <<network, aggregator>>
  BY DEF Alarm
<1>9. QED
  BY <1>6, <1>7, <1>8, StreamKept, AggKept DEF TypeInv, aggregator, CallInv

(* The frame of the exchange on top, and what is known of it. *)
LEMMA TopOK ==
    ASSUME CallInv, NEW c \in Conns
    PROVE  /\ call[c][Top(c)] \in Frame
           /\ FrameOK(c, call[c][Top(c)])
<1>1. call \in [Conns -> Calls] /\ FrameInv(c)
  BY DEF CallInv
<1>2. QED
  BY <1>1, TopFrame DEF FrameInv

LEMMA SendSomeType == ASSUME TypeInv, NEW c \in Conns, SendSome(c) PROVE TypeInv'
<1> DEFINE frame == call[c][Top(c)]
           m == IF frame.n = 0 THEN LastMsg(out[c]) + 1 ELSE frame.msg
           size == HeadLen + frame.len
<1>1. frame \in Frame /\ FrameOK(c, frame) /\ frame.at = "send"
  BY TopOK DEF TypeInv, SendSome, At
<1>2. out \in [Conns -> Seq(Unit)]
  BY DEF TypeInv, StreamInv
<1>3. m \in Nat
  BY <1>1, <1>2, LastMsgType DEF Frame
<1>4. PICK k \in (IF c \in Roomy THEN {size} ELSE (frame.n + 1)..size) : SendTo(c, m, frame, k)
  BY DEF SendSome
<1>5. frame.len \in Contents \cup {RespLen} /\ frame.n < size /\ (c \in Roomy => frame.n = 0)
      /\ frame.n \in Nat /\ size \in Nat
  <2>1. frame.len \in Contents \cup {RespLen} /\ frame.n < HeadLen + frame.len
        /\ (c \in Roomy => frame.n = 0)
    BY <1>1 DEF FrameOK
  <2>2. frame.n \in Nat /\ frame.len \in Nat /\ HeadLen \in Nat
    BY <1>1, Lens DEF Frame
  <2>3. QED
    BY <2>1, <2>2
<1>6. k \in Nat /\ frame.n < k /\ k <= size /\ (c \in Roomy => k = size)
  BY <1>4, <1>5
<1>7. UNCHANGED <<arrived, back, heard, over, eof, aggregator>>
  BY DEF SendSome
<1>8. out' = [out EXCEPT ![c] = @ \o Units(m, frame.len, frame.n, k)]
      /\ Goto(c, IF k = size THEN AwaitAnswer(m) ELSE [frame EXCEPT !.n = k, !.msg = m])
  BY <1>4 DEF SendTo
<1> HIDE DEF frame, m
<1>9. CallInv'
  <2>1. CASE k = size
    <3>1. AwaitAnswer(m) \in Frame /\ FrameOK(c, AwaitAnswer(m))
      BY <1>3, FrameAwait, NotSending
    <3>2. QED
      BY <1>8, <2>1, <3>1, GotoType DEF TypeInv
  <2>2. CASE k # size
    <3> DEFINE g == [frame EXCEPT !.n = k, !.msg = m]
    <3>1. g \in Frame /\ g.at = frame.at /\ g.n = k /\ g.len = frame.len
      <4>1. frame \in Frame /\ m \in Nat /\ k \in Nat
        BY <1>1, <1>3, <1>6
      <4>2. QED
        BY <4>1 DEF Frame
    <3>2. Goto(c, g)
      BY <1>8, <2>2
    <3> HIDE DEF g
    <3>3. FrameOK(c, g)
      BY <3>1, <2>2, <1>5, <1>6 DEF FrameOK
    <3>4. QED
      BY <3>1, <3>2, <3>3, GotoType DEF TypeInv
  <2>3. QED
    BY <2>1, <2>2
<1>10. StreamInv'
  <2> DEFINE u == Units(m, frame.len, frame.n, k)
  <2>1. u \in Seq(Unit)
    <3>1. frame.len \in Contents \cup {RespLen} /\ frame.n \in Nat /\ k \in Nat /\ frame.n <= k
      BY <1>5, <1>6
    <3>2. QED
      BY <3>1, <1>3, UnitsType
  <2> HIDE DEF u
  <2>2. out[c] \in Seq(Unit)
    BY <1>2
  <2>3. out[c] \o u \in Seq(Unit) /\ Len(out[c] \o u) = Len(out[c]) + Len(u)
    BY <2>1, <2>2, ConcatProperties
  <2>4. out'[c] = out[c] \o u
    BY <1>2, <1>8 DEF u
  <2>5. out' \in [Conns -> Seq(Unit)]
    BY <1>2, <1>8, <2>3 DEF u
  <2>6. \A d \in Conns : d # c => out'[d] = out[d]
    BY <1>2, <1>8
  <2>7. Len(out[c]) \in Nat /\ Len(u) \in Nat
    BY <2>1, <2>2, LenProperties
  <2>8. Len(out'[c]) >= Len(out[c]) /\ Len(out[c]) \in Nat /\ Len(out'[c]) \in Nat
    BY <2>3, <2>4, <2>7
  <2>9. UNCHANGED <<arrived, back, heard, over, eof, taken>>
    BY <1>7 DEF aggregator
  <2>10. \A d \in Conns : arrived'[d] <= Len(out'[d])
    <3>1. ASSUME NEW d \in Conns PROVE arrived[d] <= Len(out'[d])
      <4>1. arrived[d] <= Len(out[d]) /\ arrived[d] \in Nat
        BY DEF TypeInv, StreamInv
      <4>2. CASE d = c
        BY <4>1, <4>2, <2>8
      <4>3. CASE d # c
        BY <4>1, <4>3, <2>6
      <4>4. QED
        BY <4>2, <4>3
    <3>2. QED
      BY <3>1, <2>9
  <2>11. QED
    BY <2>5, <2>9, <2>10 DEF TypeInv, StreamInv
<1>11. QED
  BY <1>7, <1>9, <1>10, AggKept DEF TypeInv, aggregator

LEMMA SendFailsType == ASSUME TypeInv, NEW c \in Conns, SendFails(c) PROVE TypeInv'
<1> DEFINE frame == call[c][Top(c)]
<1>1. frame \in Frame
  BY TopOK DEF TypeInv
<1>2. frame.msg \in Nat
  BY <1>1 DEF Frame
<1>3. AwaitAnswer(frame.msg) \in Frame /\ FrameOK(c, AwaitAnswer(frame.msg))
  BY <1>2, FrameAwait, NotSending
<1>4. Idle \in Frame /\ FrameOK(c, Idle)
  BY IdleType, NotSending DEF Idle
<1>5. CallInv'
  BY <1>3, <1>4, GotoType DEF TypeInv, SendFails
<1>6. UNCHANGED <<network, aggregator>>
  BY DEF SendFails
<1>7. QED
  BY <1>5, <1>6, StreamKept, AggKept DEF TypeInv, aggregator

LEMMA HearHeadType == ASSUME TypeInv, NEW c \in Conns, HearHead(c) PROVE TypeInv'
<1> DEFINE frame == call[c][Top(c)]
           k == Min({Unheard(c), HeadLen - frame.n})
<1>1. frame \in Frame /\ frame.at = "head"
  BY TopOK DEF TypeInv, HearHead, At
<1>2. back \in [Conns -> Seq(Unit)] /\ heard \in [Conns -> Nat] /\ heard[c] <= Len(back[c])
  BY DEF TypeInv, StreamInv
<1>3. back[c] \in Seq(Unit) /\ heard[c] \in Nat /\ Len(back[c]) \in Nat
  BY <1>2, LenProperties
<1>4. k > 0 /\ heard' = [heard EXCEPT ![c] = @ + k]
      /\ UNCHANGED <<out, arrived, back, over, eof, aggregator>>
  BY DEF HearHead
<1>5. IF frame.n + k < HeadLen THEN Goto(c, [frame EXCEPT !.n = @ + k])
      ELSE \E head \in Announced(back[c], heard[c] + k) :
               Goto(c, [frame EXCEPT !.at = "body", !.n = 0, !.len = head.len, !.of = head.msg])
  BY DEF HearHead
<1>6. k \in Nat /\ heard[c] + k <= Len(back[c])
  <2> DEFINE a == Unheard(c)
             b == HeadLen - frame.n
  <2>1. frame.n \in Nat /\ HeadLen \in Nat
    BY <1>1, Lens DEF Frame
  <2>2. a = Len(back[c]) - heard[c] /\ a \in Nat
    BY <1>2, <1>3 DEF Unheard
  <2>3. b \in Int
    BY <2>1
  <2>4. k = Min({a, b})
    OBVIOUS
  <2> HIDE DEF a, b
  <2>5. k <= a /\ k \in {a, b}
    <3>1. Min({a, b}) <= a /\ Min({a, b}) \in {a, b}
      <4>1. a \in Int
        BY <2>2
      <4>2. QED
        BY <4>1, <2>3, MinInts, Zenon
    <3>2. QED
      BY <2>4, <3>1
  <2>6. k \in Int
    BY <2>2, <2>3, <2>5
  <2>7. QED
    BY <1>3, <1>4, <2>2, <2>5, <2>6
<1> HIDE DEF frame, k
<1>7. CallInv'
  <2>1. CASE frame.n + k < HeadLen
    <3>1. LET g == [frame EXCEPT !.n = @ + k] IN g \in Frame /\ g.at = "head"
      BY <1>1, <1>6, FrameMore
    <3>2. QED
      BY <1>5, <2>1, <3>1, NotSending, GotoType DEF TypeInv
  <2>2. CASE ~(frame.n + k < HeadLen)
    <3>1. PICK head \in Announced(back[c], heard[c] + k) :
              Goto(c, [frame EXCEPT !.at = "body", !.n = 0, !.len = head.len, !.of = head.msg])
      BY <1>5, <2>2
    <3>2. heard[c] + k \in Nat
      BY <1>3, <1>6
    <3>3. head.msg \in Nat /\ head.len \in Lengths
      BY <1>3, <1>6, <3>2, AnnouncedType
    <3>4. LET g == [frame EXCEPT !.at = "body", !.n = 0, !.len = head.len, !.of = head.msg]
          IN  g \in Frame /\ g.at = "body"
      BY <1>1, <3>3 DEF Frame
    <3>5. QED
      BY <3>1, <3>4, NotSending, GotoType DEF TypeInv
  <2>3. QED
    BY <2>1, <2>2
<1>8. StreamInv'
  BY <1>2, <1>3, <1>4, <1>6, HeardType DEF TypeInv, aggregator
<1>9. QED
  BY <1>4, <1>7, <1>8, AggKept DEF TypeInv, aggregator

LEMMA HearBodyType == ASSUME TypeInv, NEW c \in Conns, HearBody(c) PROVE TypeInv'
<1> DEFINE frame == call[c][Top(c)]
           k == Min({Unheard(c), frame.len - frame.n})
<1>1. frame \in Frame /\ frame.at = "body"
  BY TopOK DEF TypeInv, HearBody, At
<1>2. back \in [Conns -> Seq(Unit)] /\ heard \in [Conns -> Nat] /\ heard[c] <= Len(back[c])
  BY DEF TypeInv, StreamInv
<1>3. back[c] \in Seq(Unit) /\ heard[c] \in Nat /\ Len(back[c]) \in Nat
  BY <1>2, LenProperties
<1>4. k > 0 /\ heard' = [heard EXCEPT ![c] = @ + k]
      /\ Goto(c, [frame EXCEPT !.n = @ + k])
      /\ UNCHANGED <<out, arrived, back, over, eof, aggregator>>
  BY DEF HearBody
<1>5. k \in Nat /\ heard[c] + k <= Len(back[c])
  <2> DEFINE a == Unheard(c)
             b == frame.len - frame.n
  <2>1. frame.n \in Nat /\ frame.len \in Nat
    BY <1>1, Lens DEF Frame
  <2>2. a = Len(back[c]) - heard[c] /\ a \in Nat
    BY <1>2, <1>3 DEF Unheard
  <2>3. b \in Int
    BY <2>1
  <2>4. k = Min({a, b})
    OBVIOUS
  <2> HIDE DEF a, b
  <2>5. k <= a /\ k \in {a, b}
    <3>1. Min({a, b}) <= a /\ Min({a, b}) \in {a, b}
      <4>1. a \in Int
        BY <2>2
      <4>2. QED
        BY <4>1, <2>3, MinInts, Zenon
    <3>2. QED
      BY <2>4, <3>1
  <2>6. k \in Int
    BY <2>2, <2>3, <2>5
  <2>7. QED
    BY <1>3, <1>4, <2>2, <2>5, <2>6
<1> HIDE DEF frame, k
<1>6. CallInv'
  <2>1. LET g == [frame EXCEPT !.n = @ + k] IN g \in Frame /\ g.at = "body"
    BY <1>1, <1>5, FrameMore
  <2>2. QED
    BY <1>4, <2>1, NotSending, GotoType DEF TypeInv
<1>7. StreamInv'
  BY <1>2, <1>3, <1>4, <1>5, HeardType DEF TypeInv, aggregator
<1>8. QED
  BY <1>4, <1>6, <1>7, AggKept DEF TypeInv, aggregator

LEMMA HeardIsIdle ==
    ASSUME TypeInv, NEW c \in Conns, Goto(c, Idle), UNCHANGED <<network, aggregator>>
    PROVE  TypeInv'
<1>1. Idle \in Frame /\ FrameOK(c, Idle)
  BY IdleType, NotSending DEF Idle
<1>2. CallInv'
  BY <1>1, GotoType DEF TypeInv
<1>3. QED
  BY <1>2, StreamKept, AggKept DEF TypeInv, aggregator

LEMMA HearEndType == ASSUME TypeInv, NEW c \in Conns, HearEnd(c) PROVE TypeInv'
<1> DEFINE frame == call[c][Top(c)]
<1>1. frame \in Frame
  BY TopOK DEF TypeInv
<1>2. UNCHANGED <<network, aggregator>>
  BY DEF HearEnd
<1>3. CASE Goto(c, Idle)
  BY <1>2, <1>3, HeardIsIdle
<1>4. ASSUME NEW len \in {0, Huge}, Goto(c, [frame EXCEPT !.at = "body", !.n = 0, !.len = len])
      PROVE  TypeInv'
  <2>1. len \in Lengths
    BY Lens
  <2>2. LET g == [frame EXCEPT !.at = "body", !.n = 0, !.len = len] IN g \in Frame /\ g.at = "body"
    BY <1>1, <2>1, FrameShort
  <2> HIDE DEF frame
  <2>3. CallInv'
    BY <1>4, <2>2, NotSending, GotoType DEF TypeInv
  <2>4. QED
    BY <1>2, <2>3, StreamKept, AggKept DEF TypeInv, aggregator
<1>5. QED
  BY <1>3, <1>4 DEF HearEnd

LEMMA FollowerType == ASSUME TypeInv, NEW c \in Conns, FollowerNext(c) PROVE TypeInv'
<1>1. CASE Heard(c)
  BY <1>1, HeardIsIdle DEF Heard
<1>2. QED
  BY <1>1, SendSomeType, SendFailsType, HearHeadType, HearBodyType, HearEndType DEF FollowerNext

LEMMA DeliverType == ASSUME TypeInv, NEW c \in Conns, Deliver(c) PROVE TypeInv'
<1>0. Len(out[c]) \in Nat /\ arrived[c] <= Len(out[c]) /\ taken[c] <= arrived[c]
      /\ arrived[c] \in Nat /\ taken[c] \in Nat
  BY LenProperties DEF TypeInv, StreamInv
<1>1. CASE Arrive(c)
  <2>1. PICK n \in (arrived[c] + 1)..Len(out[c]) : arrived' = [arrived EXCEPT ![c] = n]
    BY <1>1 DEF Arrive
  <2>2. n \in Nat /\ taken[c] <= n /\ n <= Len(out[c])
    BY <1>0, <2>1
  <2>3. ready' = ready \cup {c} /\ UNCHANGED <<call, out, back, heard, over, eof,
                                               agg, taken, batch, closed, handled>>
    BY <1>1 DEF Arrive
  <2>4. StreamInv'
    BY <2>1, <2>2, <2>3 DEF TypeInv, StreamInv
  <2>5. AggInv'
    BY <2>3 DEF TypeInv, AggInv
  <2>6. QED
    BY <2>3, <2>4, <2>5, CallKept DEF TypeInv
<1>2. CASE EndArrives(c)
  <2>1. arrived' = [arrived EXCEPT ![c] = Len(out[c])] /\ eof' = eof \cup {c}
        /\ ready' = ready \cup {c}
        /\ UNCHANGED <<call, out, back, heard, over, agg, taken, batch, closed, handled>>
    BY <1>2 DEF EndArrives
  <2>2. taken[c] <= Len(out[c])
    BY <1>0
  <2>3. arrived' \in [Conns -> Nat] /\ \A d \in Conns : taken[d] <= arrived'[d] /\ arrived'[d] <= Len(out[d])
    BY <1>0, <2>1, <2>2 DEF TypeInv, StreamInv
  <2>4. StreamInv'
    BY <2>1, <2>3 DEF TypeInv, StreamInv
  <2>5. AggInv'
    BY <2>1 DEF TypeInv, AggInv
  <2>6. QED
    BY <2>1, <2>4, <2>5, CallKept DEF TypeInv
<1>3. QED
  BY <1>1, <1>2 DEF Deliver

LEMMA GoneType ==
    ASSUME CallInv, NEW c \in Conns, call' = [call EXCEPT ![c] = [main |-> Idle, sig |-> Idle]]
    PROVE  CallInv'
<1>1. [main |-> Idle, sig |-> Idle] \in Calls /\ Idle.at = "idle"
  BY IdleType DEF Calls, Idle
<1>2. call' \in [Conns -> Calls]
  BY <1>1 DEF CallInv
<1>3. \A d \in Conns : IF d = c THEN call'[d] = [main |-> Idle, sig |-> Idle] ELSE call'[d] = call[d]
  BY DEF CallInv
<1>4. \A d \in Conns : FrameInv(d)'
  BY <1>1, <1>3 DEF CallInv, FrameInv, FrameOK
<1>5. QED
  BY <1>2, <1>4 DEF CallInv

(* A stream cut after n units. *)
LEMMA CutType ==
    ASSUME NEW s \in Seq(Unit), NEW n \in Nat, n <= Len(s)
    PROVE  /\ SubSeq(s, 1, n) \in Seq(Unit) /\ Len(SubSeq(s, 1, n)) = n
           /\ \A i \in 1..n : SubSeq(s, 1, n)[i] = s[i]
<1>1. CASE n = 0
  <2>1. SubSeq(s, 1, 0) = << >>
    BY SubSeqProperties
  <2>2. QED
    BY <1>1, <2>1, EmptySeq
<1>2. CASE n # 0
  <2>1. 1 \in 1..Len(s) /\ n \in 1..Len(s) /\ 1 <= n
    BY <1>2, LenProperties
  <2>2. SubSeq(s, 1, n) \in Seq(Unit) /\ Len(SubSeq(s, 1, n)) = n - 1 + 1
        /\ \A i \in 1..(n - 1 + 1) : SubSeq(s, 1, n)[i] = s[1 + i - 1]
    BY <2>1, SubSeqProperties
  <2>3. QED
    BY <2>2
<1>3. QED
  BY <1>1, <1>2

LEMMA FollowerDiesType == ASSUME TypeInv, NEW c \in Conns, FollowerDies(c) PROVE TypeInv'
<1>1. over' = [over EXCEPT ![c] = "closed"] /\ Gone(c) /\ UNCHANGED <<out, arrived, eof, aggregator>>
  BY DEF FollowerDies
<1>2. << >> \in Seq(Unit) /\ Len(<< >>) = 0
  BY EmptySeq
<1>3. StreamInv'
  BY <1>1, <1>2 DEF TypeInv, StreamInv, Gone, aggregator
<1>4. QED
  BY <1>1, <1>3, GoneType, AggKept DEF TypeInv, Gone, aggregator

LEMMA CutOut ==
    ASSUME StreamInv, NEW c \in Conns, out' = [out EXCEPT ![c] = SubSeq(@, 1, arrived[c])]
    PROVE  /\ out' \in [Conns -> Seq(Unit)]
           /\ \A d \in Conns : arrived[d] <= Len(out'[d])
           /\ Len(out'[c]) = arrived[c]
<1>1. out \in [Conns -> Seq(Unit)] /\ arrived \in [Conns -> Nat]
      /\ \A d \in Conns : arrived[d] <= Len(out[d])
  BY DEF StreamInv
<1>2. SubSeq(out[c], 1, arrived[c]) \in Seq(Unit) /\ Len(SubSeq(out[c], 1, arrived[c])) = arrived[c]
  BY <1>1, CutType
<1>3. QED
  BY <1>1, <1>2

LEMMA HostVanishesType == ASSUME TypeInv, NEW c \in Conns, HostVanishes(c) PROVE TypeInv'
<1>1. /\ over' = [over EXCEPT ![c] = "mute"] /\ Gone(c) /\ UNCHANGED <<arrived, eof, aggregator>>
      /\ out' = [out EXCEPT ![c] = SubSeq(@, 1, arrived[c])]
  BY DEF HostVanishes
<1>2. << >> \in Seq(Unit) /\ Len(<< >>) = 0
  BY EmptySeq
<1>3. out' \in [Conns -> Seq(Unit)] /\ \A d \in Conns : arrived[d] <= Len(out'[d])
  BY <1>1, CutOut DEF TypeInv
<1>4. StreamInv'
  BY <1>1, <1>2, <1>3 DEF TypeInv, StreamInv, Gone, aggregator
<1>5. QED
  BY <1>1, <1>4, GoneType, AggKept DEF TypeInv, Gone, aggregator

LEMMA ResetType == ASSUME TypeInv, NEW c \in Conns, Reset(c) PROVE TypeInv'
<1>1. /\ over' = [over EXCEPT ![c] = "reset"]
      /\ out' = [out EXCEPT ![c] = SubSeq(@, 1, arrived[c])]
      /\ eof' = eof \cup {c} /\ ready' = ready \cup {c}
      /\ UNCHANGED <<call, arrived, heard, agg, taken, batch, closed, handled>>
  BY DEF Reset
<1>2. PICK n \in heard[c]..Len(back[c]) : back' = [back EXCEPT ![c] = SubSeq(@, 1, n)]
  BY DEF Reset
<1>3. out' \in [Conns -> Seq(Unit)] /\ \A d \in Conns : arrived[d] <= Len(out'[d])
  BY <1>1, CutOut DEF TypeInv
<1>4. back[c] \in Seq(Unit) /\ heard[c] \in Nat /\ Len(back[c]) \in Nat /\ back \in [Conns -> Seq(Unit)]
      /\ \A d \in Conns : heard[d] <= Len(back[d])
  BY LenProperties DEF TypeInv, StreamInv
<1>5. n \in Nat /\ heard[c] <= n /\ n <= Len(back[c])
  BY <1>2, <1>4
<1>6. SubSeq(back[c], 1, n) \in Seq(Unit) /\ Len(SubSeq(back[c], 1, n)) = n
  BY <1>4, <1>5, CutType
<1>7. back' \in [Conns -> Seq(Unit)] /\ \A d \in Conns : heard[d] <= Len(back'[d])
  BY <1>2, <1>4, <1>5, <1>6
<1>8. StreamInv'
  BY <1>1, <1>3, <1>7 DEF TypeInv, StreamInv
<1>9. AggInv'
  BY <1>1 DEF TypeInv, AggInv
<1>10. QED
  BY <1>1, <1>8, <1>9, CallKept DEF TypeInv

LEMMA TakenType ==
    ASSUME StreamInv, NEW c \in Conns, NEW k \in Nat, k <= Unread(c),
           taken' = [taken EXCEPT ![c] = @ + k], UNCHANGED network
    PROVE  StreamInv'
<1>1. taken[c] \in Nat /\ arrived[c] \in Nat /\ taken[c] + k <= arrived[c]
  BY DEF StreamInv, Unread
<1>2. taken' \in [Conns -> Nat] /\ \A d \in Conns : taken'[d] <= arrived[d]
  BY <1>1 DEF StreamInv
<1>3. QED
  BY <1>2 DEF StreamInv, network

LEMMA ReceiveType == ASSUME TypeInv, NEW c \in Conns, Receive(c) PROVE TypeInv'
<1>1. /\ batch' = batch \ {c} /\ agg' = [Waiting EXCEPT !.at = "head", !.conn = c]
      /\ UNCHANGED <<call, network, taken, ready, closed, handled>>
  BY DEF Receive
<1>2. agg' \in Agg /\ agg'.at = "head" /\ agg'.conn = c /\ agg'.msg = 0
  BY <1>1, AggHead
<1>3. c # NoConn
  BY NoConnAssumption
<1>4. AggInv'
  BY <1>1, <1>2, <1>3 DEF TypeInv, AggInv
<1>5. QED
  BY <1>1, <1>4, CallKept, StreamKept DEF TypeInv

LEMMA EpollWaitType == ASSUME TypeInv, EpollWait PROVE TypeInv'
<1>1. batch' \subseteq ready /\ ready' = {} /\ UNCHANGED <<call, network, agg, taken, closed, handled>>
  BY DEF EpollWait
<1>2. AggInv'
  BY <1>1 DEF TypeInv, AggInv
<1>3. QED
  BY <1>1, <1>2, CallKept, StreamKept DEF TypeInv

(* What one recv takes: k units. *)
LEMMA RecvMin ==
    ASSUME TypeInv, NEW c \in Conns, NEW b \in Int, Min({Unread(c), b}) > 0
    PROVE  /\ Min({Unread(c), b}) \in Nat
           /\ Min({Unread(c), b}) <= Unread(c) /\ Min({Unread(c), b}) <= b
<1>1. Unread(c) \in Int
  BY DEF TypeInv, StreamInv, Unread
<1>2. LET k == Min({Unread(c), b}) IN k <= Unread(c) /\ k <= b /\ k \in {Unread(c), b}
  BY <1>1, MinInts, Zenon
<1>3. QED
  BY <1>1, <1>2

LEMMA RecvHeadType == ASSUME TypeInv, NEW c \in Conns, RecvHead(c) PROVE TypeInv'
<1> DEFINE k == Min({Unread(c), HeadLen - agg.n})
<1>1. /\ agg.at = "head" /\ agg.conn = c /\ k > 0
      /\ taken' = [taken EXCEPT ![c] = @ + k]
      /\ IF agg.n + k < HeadLen
         THEN agg' = [agg EXCEPT !.n = @ + k]
         ELSE \E head \in Announced(out[c], taken[c] + k) :
                agg' = [agg EXCEPT !.at = "body", !.n = 0, !.msg = head.msg, !.len = head.len]
      /\ UNCHANGED <<call, network, ready, batch, closed, handled>>
  BY DEF RecvHead
<1>2. agg \in Agg
  BY DEF TypeInv, AggInv
<1>3. k \in Nat /\ k <= Unread(c)
  <2>1. HeadLen - agg.n \in Int
    BY <1>2, Lens DEF Agg
  <2>2. QED
    BY <1>1, <2>1, RecvMin
<1> HIDE DEF k
<1>4. StreamInv'
  BY <1>1, <1>3, TakenType DEF TypeInv
<1>5. agg' \in Agg /\ agg'.conn = c /\ (agg'.at = "body" \/ (agg'.at = "head" /\ agg'.msg = 0))
  <2>1. CASE agg.n + k < HeadLen
    <3>1. agg.msg = 0
      BY <1>1 DEF TypeInv, AggInv
    <3>2. QED
      BY <1>1, <1>2, <1>3, <2>1, <3>1, AggMore
  <2>2. CASE ~(agg.n + k < HeadLen)
    <3>1. PICK head \in Announced(out[c], taken[c] + k) :
              agg' = [agg EXCEPT !.at = "body", !.n = 0, !.msg = head.msg, !.len = head.len]
      BY <1>1, <2>2
    <3>2. out[c] \in Seq(Unit) /\ Len(out[c]) \in Nat /\ taken[c] + k \in Nat /\ taken[c] + k <= Len(out[c])
      <4>1. out[c] \in Seq(Unit) /\ taken[c] \in Nat /\ arrived[c] \in Nat /\ arrived[c] <= Len(out[c])
        BY DEF TypeInv, StreamInv
      <4>2. taken[c] + k <= arrived[c]
        BY <4>1, <1>3 DEF Unread
      <4>3. QED
        BY <1>3, <4>1, <4>2, LenProperties
    <3>3. head.msg \in Nat /\ head.len \in Lengths
      BY <3>2, AnnouncedType
    <3>4. agg' \in Agg
      BY <1>2, <3>1, <3>3 DEF Agg
    <3>5. agg'.at = "body" /\ agg'.conn = agg.conn
      BY <1>2, <3>1 DEF Agg
    <3>6. agg.conn = c
      BY <1>1
    <3>7. QED
      BY <3>4, <3>5, <3>6
  <2>3. QED
    BY <2>1, <2>2
<1>6. c # NoConn
  BY NoConnAssumption
<1>7. AggInv'
  BY <1>1, <1>5, <1>6 DEF TypeInv, AggInv
<1>8. QED
  BY <1>1, <1>4, <1>7, CallKept DEF TypeInv

LEMMA RecvBodyType == ASSUME TypeInv, NEW c \in Conns, RecvBody(c) PROVE TypeInv'
<1> DEFINE k == Min({Unread(c), agg.len - agg.n})
<1>1. /\ agg.at = "body" /\ agg.conn = c /\ k > 0
      /\ taken' = [taken EXCEPT ![c] = @ + k]
      /\ agg' = [agg EXCEPT !.n = @ + k]
      /\ UNCHANGED <<call, network, ready, batch, closed, handled>>
  BY DEF RecvBody
<1>2. agg \in Agg
  BY DEF TypeInv, AggInv
<1>3. k \in Nat /\ k <= Unread(c)
  <2>1. agg.len - agg.n \in Int
    <3>1. agg.len \in Lengths /\ agg.n \in Nat
      BY <1>2 DEF Agg
    <3>2. agg.len \in Nat
      BY <3>1, Lens
    <3>3. QED
      BY <3>1, <3>2
  <2>2. QED
    BY <1>1, <2>1, RecvMin
<1> HIDE DEF k
<1>4. StreamInv'
  BY <1>1, <1>3, TakenType DEF TypeInv
<1>5. agg' \in Agg /\ agg'.conn = c /\ agg'.at = "body"
  BY <1>1, <1>2, <1>3, AggMore
<1>6. c # NoConn
  BY NoConnAssumption
<1>7. AggInv'
  BY <1>1, <1>5, <1>6 DEF TypeInv, AggInv
<1>8. QED
  BY <1>1, <1>4, <1>7, CallKept DEF TypeInv

LEMMA CloseConnectionType == ASSUME TypeInv, NEW c \in Conns, CloseConnection(c) PROVE TypeInv'
<1>1. closed' = closed \cup {c} /\ agg' = Waiting /\ UNCHANGED <<call, network, taken, ready, batch, handled>>
  BY DEF CloseConnection
<1>2. AggInv'
  BY <1>1, WaitingType DEF TypeInv, AggInv
<1>3. QED
  BY <1>1, <1>2, CallKept, StreamKept DEF TypeInv

LEMMA ShortHeadType == ASSUME TypeInv, NEW c \in Conns, ShortHead(c) PROVE TypeInv'
<1>1. agg.conn = c /\ UNCHANGED <<call, network, taken, ready, batch, closed, handled>>
  BY DEF ShortHead
<1>2. PICK len \in {0, Huge} : agg' = [agg EXCEPT !.at = "body", !.n = 0, !.len = len]
  BY DEF ShortHead
<1>3. len \in Lengths /\ c # NoConn
  BY Lens, NoConnAssumption
<1>4. agg' \in Agg /\ agg'.conn = c /\ agg'.at = "body"
  <2>1. agg \in Agg
    BY DEF TypeInv, AggInv
  <2>2. QED
    BY <1>1, <1>2, <1>3, <2>1 DEF Agg
<1>5. AggInv'
  BY <1>1, <1>3, <1>4 DEF TypeInv, AggInv
<1>6. QED
  BY <1>1, <1>5, CallKept, StreamKept DEF TypeInv

(* What an answer adds to a stream. *)
LEMMA AnswerType ==
    ASSUME NEW s \in Seq(Unit), NEW m \in Nat
    PROVE  LET u == Units(m, RespLen, 0, HeadLen + RespLen) IN
           /\ u \in Seq(Unit) /\ Len(u) = HeadLen + RespLen /\ s \o u \in Seq(Unit)
           /\ Len(s \o u) = Len(s) + HeadLen + RespLen
<1> DEFINE u == Units(m, RespLen, 0, HeadLen + RespLen)
<1>1. HeadLen + RespLen \in Nat /\ 0 <= HeadLen + RespLen /\ RespLen \in Contents \cup {RespLen}
  BY Lens
<1>2. u \in Seq(Unit) /\ Len(u) = HeadLen + RespLen - 0
  <2>1. PICK size \in Nat, from \in Nat : size = HeadLen + RespLen /\ from = 0
    BY <1>1
  <2>2. from <= size
    BY <2>1
  <2>3. Units(m, RespLen, from, size) \in Seq(Unit) /\ Len(Units(m, RespLen, from, size)) = size - from
    <3>1. size \in Nat /\ from \in Nat /\ RespLen \in Contents \cup {RespLen}
      BY <2>1
    <3>2. QED
      BY <2>2, <3>1, UnitsSeq
  <2>4. u = Units(m, RespLen, from, size)
    BY <2>1
  <2>5. size - from = HeadLen + RespLen - 0
    BY <2>1, Lens
  <2> HIDE DEF u
  <2>6. QED
    BY <2>3, <2>4, <2>5
<1> HIDE DEF u
<1>3. s \o u \in Seq(Unit) /\ Len(s \o u) = Len(s) + Len(u) /\ Len(s) \in Nat
  BY <1>2, ConcatProperties, LenProperties
<1>4. Len(u) = HeadLen + RespLen /\ Len(s \o u) = Len(s) + HeadLen + RespLen
  BY <1>1, <1>2, <1>3, Lens
<1>5. QED
  BY <1>2, <1>3, <1>4 DEF u

LEMMA HandleType == ASSUME TypeInv, NEW c \in Conns, Handle(c) PROVE TypeInv'
<1>1. /\ handled' = [handled EXCEPT ![c] = Append(@, [msg |-> agg.msg, whole |-> IsWhole(c)])]
      /\ Answer(c) /\ agg' = Waiting
      /\ UNCHANGED <<call, out, arrived, heard, over, eof, taken, batch, closed>>
  BY DEF Handle
<1>2. agg.msg \in Nat /\ handled \in [Conns -> Seq([msg : Nat, whole : BOOLEAN])]
  BY DEF TypeInv, AggInv, Agg
<1>3. handled' \in [Conns -> Seq([msg : Nat, whole : BOOLEAN])]
  <2>1. IsWhole(c) \in BOOLEAN
    BY DEF IsWhole
  <2>2. [msg |-> agg.msg, whole |-> IsWhole(c)] \in [msg : Nat, whole : BOOLEAN]
    BY <1>2, <2>1
  <2> DEFINE h == [msg |-> agg.msg, whole |-> IsWhole(c)]
             H == [msg : Nat, whole : BOOLEAN]
  <2> HIDE DEF h, H
  <2>3. Append(handled[c], h) \in Seq(H)
    BY <1>2, <2>2, AppendProperties DEF h, H
  <2>4. handled' = [handled EXCEPT ![c] = Append(handled[c], h)]
    BY <1>1 DEF h
  <2>5. handled \in [Conns -> Seq(H)]
    BY <1>2 DEF H
  <2>6. handled' \in [Conns -> Seq(H)]
    BY <2>3, <2>4, <2>5
  <2>7. QED
    BY <2>6 DEF H
<1>4. ready' \subseteq Conns
  BY <1>1 DEF Answer, TypeInv, AggInv
<1>5. back' \in [Conns -> Seq(Unit)] /\ \A d \in Conns : heard[d] <= Len(back'[d])
  <2>1. back \in [Conns -> Seq(Unit)] /\ heard \in [Conns -> Nat]
        /\ \A d \in Conns : heard[d] <= Len(back[d])
    BY DEF TypeInv, StreamInv
  <2>2. CASE over[c] = "no"
    <3> DEFINE u == Units(agg.msg, RespLen, 0, HeadLen + RespLen)
    <3>1. back' = [back EXCEPT ![c] = back[c] \o u]
      BY <1>1, <2>2 DEF Answer
    <3>2. back[c] \in Seq(Unit)
      BY <2>1
    <3>3. back[c] \o u \in Seq(Unit) /\ Len(back[c] \o u) = Len(back[c]) + HeadLen + RespLen
      BY <1>2, <3>2, AnswerType
    <3> HIDE DEF u
    <3>4. Len(back[c]) \in Nat
      BY <3>2, LenProperties
    <3>5. heard[c] <= Len(back[c] \o u)
      BY <2>1, <3>3, <3>4, Lens
    <3>6. QED
      BY <2>1, <3>1, <3>3, <3>5
  <2>3. CASE over[c] # "no"
    BY <1>1, <2>1, <2>3 DEF Answer
  <2>4. QED
    BY <2>2, <2>3
<1>6. StreamInv'
  BY <1>1, <1>5 DEF TypeInv, StreamInv
<1>7. AggInv'
  BY <1>1, <1>3, <1>4, WaitingType DEF TypeInv, AggInv
<1>8. QED
  BY <1>1, <1>6, <1>7, CallKept DEF TypeInv

LEMMA StepType == TypeInv /\ [Next]_vars => TypeInv'
<1> SUFFICES ASSUME TypeInv, [Next]_vars PROVE TypeInv'
  OBVIOUS
<1>1. ASSUME NEW c \in Conns, Begin(c) \/ Alarm(c) \/ FollowerNext(c) PROVE TypeInv'
  BY <1>1, BeginType, AlarmType, FollowerType
<1>2. ASSUME NEW c \in Conns, Deliver(c) PROVE TypeInv'
  BY <1>2, DeliverType
<1>3. ASSUME NEW c \in Conns, FollowerDies(c) \/ Reset(c) \/ HostVanishes(c) PROVE TypeInv'
  BY <1>3, FollowerDiesType, ResetType, HostVanishesType
<1>4. CASE AggregatorNext
  BY <1>4, EpollWaitType, ReceiveType, RecvHeadType, RecvBodyType, CloseConnectionType,
     ShortHeadType, HandleType DEF AggregatorNext
<1>5. CASE UNCHANGED vars
  BY <1>5, CallKept, StreamKept, AggKept DEF TypeInv, vars, aggregator
<1>6. QED
  BY <1>1, <1>2, <1>3, <1>4, <1>5 DEF Next

LEMMA TypeInvImplies == TypeInv => TypeOK
  BY DEF TypeInv, CallInv, StreamInv, AggInv, TypeOK, Calls, Agg

(* Types: no reader is ahead of what has arrived, and every length that is   *)
(* waited for is one that a header may announce.                             *)
THEOREM TypeCorrect == Spec => []TypeOK
<1>1. Spec => []TypeInv
  BY InitType, StepType, PTL DEF Spec
<1>2. QED
  BY <1>1, TypeInvImplies, PTL

----------------------------------------------------------------------------
(* Streams.  Units of one message follow one another, then come those of the *)
(* next: stated from any unit to any later one, which needs no induction.    *)

Chain(s) ==
    /\ \A i \in 1..Len(s) : s[i].msg >= 1 /\ s[i].at < HeadLen + s[i].len
    /\ Len(s) > 0 => s[1].msg = 1 /\ s[1].at = 0
    /\ \A i, j \in 1..Len(s) : i <= j =>
          /\ s[i].msg <= s[j].msg
          /\ s[i].at + (j - i) < HeadLen + s[i].len =>
                 s[j].msg = s[i].msg /\ s[j].at = s[i].at + (j - i) /\ s[j].len = s[i].len
          /\ s[i].at + (j - i) = HeadLen + s[i].len =>
                 s[j].msg = s[i].msg + 1 /\ s[j].at = 0

(* After p units n messages are whole and no other has begun. *)
Boundary(s, p, n) ==
    /\ p \in 0..Len(s)
    /\ IF p = 0 THEN n = 0 ELSE s[p].at = HeadLen + s[p].len - 1 /\ s[p].msg = n

(* Units from to of message m may follow s. *)
Continues(s, m, len, from) ==
    IF from = 0 THEN Boundary(s, Len(s), m - 1)
    ELSE Len(s) > 0 /\ s[Len(s)] = [msg |-> m, at |-> from - 1, len |-> len]

LEMMA UnitFields ==
    ASSUME NEW s \in Seq(Unit)
    PROVE  /\ Len(s) \in Nat
           /\ \A i \in 1..Len(s) : s[i].msg \in Nat /\ s[i].at \in Nat /\ s[i].len \in Nat
                                   /\ s[i].len \in Contents \cup {RespLen}
<1>1. Len(s) \in Nat
  BY LenProperties
<1>2. ASSUME NEW i \in 1..Len(s) PROVE s[i] \in Unit
  BY <1>2, ElementOfSeq
<1>3. ASSUME NEW i \in 1..Len(s)
      PROVE  s[i].msg \in Nat /\ s[i].at \in Nat /\ s[i].len \in Contents \cup {RespLen}
  BY <1>2 DEF Unit
<1>4. QED
  BY <1>1, <1>3, Lens

(* t is s with the units [n, k) of message m behind it, which may follow it. *)
GrowsTo(s, t, m, len, n, k) ==
    /\ s \in Seq(Unit) /\ Chain(s) /\ m \in Nat \ {0} /\ len \in Contents \cup {RespLen}
    /\ n \in Nat /\ k \in Nat /\ n < k /\ k <= HeadLen + len /\ Continues(s, m, len, n)
    /\ t = s \o Units(m, len, n, k)

LEMMA ChainGrows ==
    ASSUME NEW s, NEW t, NEW m, NEW len, NEW n, NEW k, GrowsTo(s, t, m, len, n, k)
    PROVE  /\ t \in Seq(Unit) /\ Chain(t)
           /\ Len(t) = Len(s) + (k - n)
           /\ \A i \in 1..Len(s) : t[i] = s[i]
           /\ t[Len(t)] = [msg |-> m, at |-> k - 1, len |-> len]
<1> DEFINE u == Units(m, len, n, k)
           L == Len(s)
<1>0. t = s \o u
  BY DEF GrowsTo
<1> /\ s \in Seq(Unit) /\ Chain(s) /\ m \in Nat \ {0} /\ len \in Contents \cup {RespLen}
    /\ n \in Nat /\ k \in Nat /\ n < k /\ k <= HeadLen + len /\ Continues(s, m, len, n)
  BY DEF GrowsTo
<1>1. /\ u \in Seq(Unit) /\ Len(u) = k - n
      /\ \A i \in 1..(k - n) : u[i] = [msg |-> m, at |-> n + i - 1, len |-> len]
  <2>1. n <= k
    OBVIOUS
  <2>2. u \in Seq(Unit) /\ Len(u) = k - n
    <3>1. \A i \in 1..(k - n) : [msg |-> m, at |-> n + i - 1, len |-> len] \in Unit
      BY DEF Unit
    <3>2. u \in [1..(k - n) -> Unit]
      BY <3>1 DEF Units
    <3>3. k - n \in Nat
      BY <2>1
    <3> HIDE DEF u
    <3>4. QED
      BY <3>2, <3>3
  <2>3. \A i \in 1..(k - n) : u[i] = [msg |-> m, at |-> n + i - 1, len |-> len]
    BY DEF Units
  <2>4. QED
    BY <2>2, <2>3
<1> HIDE DEF u
<1>2. L \in Nat /\ len \in Nat /\ HeadLen \in Nat \ {0}
  BY LenProperties, Lens
<1>3. t \in Seq(Unit) /\ Len(t) = L + (k - n)
  BY <1>0, <1>1, ConcatProperties
<1>4. \A i \in 1..L : t[i] = s[i]
  BY <1>0, <1>1, <1>2, ConcatProperties
<1>5. \A i \in (L + 1)..(L + (k - n)) : t[i] = [msg |-> m, at |-> n + (i - L) - 1, len |-> len]
  <2>1. ASSUME NEW i \in (L + 1)..(L + (k - n))
        PROVE  t[i] = [msg |-> m, at |-> n + (i - L) - 1, len |-> len]
    <3>1. i - L \in 1..(k - n) /\ i \in 1..(Len(s) + Len(u)) /\ ~(i <= Len(s))
      BY <1>1, <1>2
    <3>2. t[i] = u[i - L]
      BY <1>0, <1>1, <3>1, ConcatProperties
    <3>3. QED
      BY <1>1, <3>1, <3>2
  <2>2. QED
    BY <2>1
<1> HIDE DEF L
<1>6. \A i \in (L + 1)..(L + (k - n)) :
           t[i].msg = m /\ t[i].at = n + (i - L) - 1 /\ t[i].len = len
  <2>1. ASSUME NEW i \in (L + 1)..(L + (k - n))
        PROVE  t[i].msg = m /\ t[i].at = n + (i - L) - 1 /\ t[i].len = len
    <3>1. t[i] = [msg |-> m, at |-> n + (i - L) - 1, len |-> len]
      BY <1>5
    <3>2. QED
      BY <3>1
  <2>2. QED
    BY <2>1
<1>7. /\ \A i \in 1..L : s[i].msg \in Nat /\ s[i].at \in Nat /\ s[i].len \in Nat
  BY UnitFields DEF L
<1>8. \A i \in 1..L : s[i].msg >= 1 /\ s[i].at < HeadLen + s[i].len
  BY DEF Chain, L
<1>9. L > 0 => s[1].msg = 1 /\ s[1].at = 0
  BY DEF Chain, L
<1>10. \A i, j \in 1..L : i <= j =>
            /\ s[i].msg <= s[j].msg
            /\ s[i].at + (j - i) < HeadLen + s[i].len =>
                   s[j].msg = s[i].msg /\ s[j].at = s[i].at + (j - i) /\ s[j].len = s[i].len
            /\ s[i].at + (j - i) = HeadLen + s[i].len =>
                   s[j].msg = s[i].msg + 1 /\ s[j].at = 0
  BY DEF Chain, L
<1>11. /\ n = 0 /\ L = 0 => m - 1 = 0
       /\ n = 0 /\ L # 0 => s[L].at = HeadLen + s[L].len - 1 /\ s[L].msg = m - 1
       /\ n > 0 => L > 0 /\ s[L].msg = m /\ s[L].at = n - 1 /\ s[L].len = len
  BY DEF Continues, Boundary, L
<1>12. \A i \in 1..Len(t) : t[i].msg >= 1 /\ t[i].at < HeadLen + t[i].len
  <2>1. ASSUME NEW i \in 1..L PROVE t[i].msg >= 1 /\ t[i].at < HeadLen + t[i].len
    BY <1>4, <1>8
  <2>2. ASSUME NEW i \in (L + 1)..(L + (k - n)) PROVE t[i].msg >= 1 /\ t[i].at < HeadLen + t[i].len
    <3>1. t[i].msg = m /\ t[i].at = n + (i - L) - 1 /\ t[i].len = len
      BY <1>6
    <3>2. QED
      BY <1>2, <3>1
  <2>3. \A i \in 1..Len(t) : i \in 1..L \/ i \in (L + 1)..(L + (k - n))
    BY <1>2, <1>3
  <2>4. QED
    BY <2>1, <2>2, <2>3
<1>13. t[1].msg = 1 /\ t[1].at = 0
  <2>1. CASE L > 0
    <3>1. 1 \in 1..L
      BY <1>2, <2>1
    <3>2. QED
      BY <1>4, <1>9, <2>1, <3>1
  <2>2. CASE L = 0
    <3>1. 1 \in (L + 1)..(L + (k - n)) /\ n = 0 /\ m = 1
      <4>1. n = 0
        BY <1>11, <2>2
      <4>2. m - 1 = 0
        BY <1>11, <2>2, <4>1
      <4>3. QED
        BY <2>2, <4>1, <4>2
    <3>2. t[1] = [msg |-> m, at |-> n + (1 - L) - 1, len |-> len]
      BY <1>5, <3>1
    <3>3. t[1].msg = m /\ t[1].at = n + (1 - L) - 1
      BY <3>2
    <3>4. QED
      BY <2>2, <3>1, <3>3
  <2>3. QED
    BY <1>2, <2>1, <2>2
<1>14. ASSUME NEW i \in 1..Len(t), NEW j \in 1..Len(t), i <= j
       PROVE  /\ t[i].msg <= t[j].msg
              /\ t[i].at + (j - i) < HeadLen + t[i].len =>
                     t[j].msg = t[i].msg /\ t[j].at = t[i].at + (j - i) /\ t[j].len = t[i].len
              /\ t[i].at + (j - i) = HeadLen + t[i].len =>
                     t[j].msg = t[i].msg + 1 /\ t[j].at = 0
  <2>1. CASE j <= L
    <3>1. i \in 1..L /\ j \in 1..L
      BY <1>2, <1>14, <2>1
    <3>2. t[i] = s[i] /\ t[j] = s[j]
      BY <1>4, <3>1
    <3>3. i <= j
      BY <1>14
    <3>4. /\ s[i].msg <= s[j].msg
          /\ s[i].at + (j - i) < HeadLen + s[i].len =>
                 s[j].msg = s[i].msg /\ s[j].at = s[i].at + (j - i) /\ s[j].len = s[i].len
          /\ s[i].at + (j - i) = HeadLen + s[i].len =>
                 s[j].msg = s[i].msg + 1 /\ s[j].at = 0
      BY <1>10, <3>1, <3>3
    <3>5. QED
      BY <3>2, <3>4
  <2>2. CASE i > L
    <3>1. i \in (L + 1)..(L + (k - n)) /\ j \in (L + 1)..(L + (k - n))
      BY <1>2, <1>3, <1>14, <2>2
    <3>2. /\ t[i].msg = m /\ t[i].at = n + (i - L) - 1 /\ t[i].len = len
          /\ t[j].msg = m /\ t[j].at = n + (j - L) - 1 /\ t[j].len = len
      BY <1>6, <3>1
    <3>3. t[i].msg <= t[j].msg
      <4>1. m <= m
        OBVIOUS
      <4>2. QED
        BY <3>2, <4>1
    <3>4. t[i].at + (j - i) = t[j].at
      <4>1. i \in Nat /\ j \in Nat
        BY <1>2, <3>1
      <4>2. n + (i - L) - 1 + (j - i) = n + (j - L) - 1
        BY <1>2, <4>1
      <4>3. QED
        BY <3>2, <4>2
    <3>5. t[j].at < HeadLen + t[i].len
      <4>1. t[j].at < HeadLen + t[j].len
        BY <1>12
      <4>2. t[i].len = t[j].len
        BY <3>2
      <4>3. QED
        BY <4>1, <4>2
    <3>6. t[i].at + (j - i) # HeadLen + t[i].len
      <4>1. t[j].at \in Nat /\ HeadLen + t[i].len \in Nat
        <5>1. t[i].len \in Nat
          BY <1>2, <3>2
        <5>2. t[j] \in Unit
          BY <1>3, ElementOfSeq
        <5>3. t[j].at \in Nat
          BY <5>2 DEF Unit
        <5>4. HeadLen + t[i].len \in Nat
          <6>1. \A a, b \in Nat : a + b \in Nat
            OBVIOUS
          <6>2. QED
            BY <1>2, <5>1, <6>1
        <5>5. QED
          BY <5>3, <5>4
      <4>2. QED
        BY <3>4, <3>5, <4>1
    <3>7. QED
      BY <3>2, <3>3, <3>4, <3>6
  <2>3. CASE i <= L /\ j > L
    <3>1. i \in 1..L /\ L \in 1..L /\ j \in (L + 1)..(L + (k - n))
      BY <1>2, <1>3, <2>3
    <3>2. t[i] = s[i] /\ t[j].msg = m /\ t[j].at = n + (j - L) - 1 /\ t[j].len = len
      BY <1>4, <1>6, <3>1
    <3> DEFINE size == HeadLen + s[i].len
               D == s[i].at + (L - i)
    <3>3. /\ s[i].msg <= s[L].msg
          /\ D < size => s[L].msg = s[i].msg /\ s[L].at = D /\ s[L].len = s[i].len
          /\ D = size => s[L].msg = s[i].msg + 1 /\ s[L].at = 0
      <4>1. i <= L
        BY <2>3
      <4>2. QED
        BY <1>10, <3>1, <4>1
    <3>4. /\ s[i].msg \in Nat /\ size \in Nat /\ D \in Int
          /\ s[L].msg \in Nat /\ s[L].at \in Nat /\ s[L].len \in Nat
          /\ j - L \in Nat \ {0}
      <4>1. s[i].msg \in Nat /\ s[i].at \in Nat /\ s[i].len \in Nat
        BY <1>7, <3>1
      <4>2. s[L].msg \in Nat /\ s[L].at \in Nat /\ s[L].len \in Nat
        BY <1>7, <3>1
      <4>3. j - L \in Nat \ {0}
        BY <1>2, <3>1
      <4>4. size \in Nat /\ D \in Int
        <5>1. L - i \in Int
          BY <1>2, <3>1
        <5>2. size \in Nat
          <6>1. \A a, b \in Nat : a + b \in Nat
            OBVIOUS
          <6>2. HeadLen \in Nat /\ s[i].len \in Nat
            BY <1>2, <4>1
          <6>3. QED
            BY <6>1, <6>2
        <5>3. QED
          BY <4>1, <5>1, <5>2
      <4>5. QED
        BY <4>1, <4>2, <4>3, <4>4
    <3>5. s[i].at + (j - i) = D + (j - L)
      BY <1>2, <1>7, <3>1
    <3>6. /\ t[i].msg = s[i].msg /\ t[i].at = s[i].at /\ t[i].len = s[i].len
      BY <3>2
    <3>7. CASE n = 0
      <4>1. s[L].at = HeadLen + s[L].len - 1 /\ s[L].msg = m - 1
        BY <1>2, <1>11, <3>1, <3>7
      <4>2. t[j].at = (j - L) - 1
        BY <3>2, <3>4, <3>7
      <4>3. D < size => D = size - 1
        <5>1. s[i].len \in Nat
          BY <1>7, <3>1
        <5> HIDE DEF D
        <5>2. ASSUME D < size PROVE D = size - 1
          <6>1. s[L].at = D /\ s[L].len = s[i].len
            BY <3>3, <5>2
          <6>2. D = HeadLen + s[i].len - 1
            BY <4>1, <6>1
          <6>3. QED
            BY <1>2, <5>1, <6>2
        <5>3. QED
          BY <5>2
      <4> HIDE DEF size, D
      <4>4. /\ s[i].msg <= m
            /\ D + (j - L) < size => FALSE
            /\ D + (j - L) = size => m = s[i].msg + 1 /\ (j - L) - 1 = 0
        <5>1. PICK a \in Nat, b \in Nat, w \in Nat, e \in Int, d \in Nat \ {0} :
                  a = s[i].msg /\ b = s[L].msg /\ w = size /\ e = D /\ d = j - L
          BY <3>4
        <5>2. m \in Nat /\ b = m - 1 /\ a <= b
          BY <3>3, <4>1, <5>1
        <5>3. (e < w => e = w - 1) /\ (e = w => b = a + 1)
          BY <3>3, <4>3, <5>1
        <5>4. a <= m
          BY <5>2
        <5>5. ~(e + d < w)
          BY <5>3
        <5>6. e + d = w => e = w - 1 /\ d - 1 = 0
          BY <5>3
        <5>7. e < w => a = b
          BY <3>3, <5>1
        <5>8. e + d = w => m = a + 1 /\ d - 1 = 0
          BY <5>2, <5>6, <5>7
        <5>9. QED
          BY <5>1, <5>4, <5>5, <5>8
      <4>5. QED
        BY <3>2, <3>5, <3>6, <4>2, <4>4 DEF size
    <3>8. CASE n > 0
      <4>1. s[L].msg = m /\ s[L].at = n - 1 /\ s[L].len = len
        BY <1>11, <3>8
      <4>2. n - 1 + (j - L) < HeadLen + len
        BY <1>2, <3>1
      <4>3. D < size => s[i].msg = m /\ D = n - 1 /\ s[i].len = len /\ size = HeadLen + len
        BY <3>3, <4>1
      <4> HIDE DEF size, D
      <4>4. /\ s[i].msg <= m
            /\ D + (j - L) < size => m = s[i].msg /\ n + (j - L) - 1 = D + (j - L) /\ len = s[i].len
            /\ D + (j - L) = size => FALSE
        BY <3>3, <3>4, <4>1, <4>2, <4>3, <1>2
      <4>5. QED
        BY <3>2, <3>5, <3>6, <4>4 DEF size
    <3>9. QED
      BY <3>7, <3>8
  <2>4. QED
    BY <1>2, <2>1, <2>2, <2>3
<1>15. Chain(t)
  BY <1>12, <1>13, <1>14 DEF Chain
<1>16. t[Len(t)] = [msg |-> m, at |-> k - 1, len |-> len]
  <2>1. Len(t) \in (L + 1)..(L + (k - n))
    BY <1>2, <1>3
  <2>2. t[Len(t)] = [msg |-> m, at |-> n + (Len(t) - L) - 1, len |-> len]
    BY <1>5, <2>1
  <2>3. n + (Len(t) - L) - 1 = k - 1
    BY <1>2, <1>3
  <2>4. QED
    BY <2>2, <2>3
<1>17. QED
  BY <1>3, <1>4, <1>15, <1>16 DEF L

LEMMA ChainPrefix ==
    ASSUME NEW s \in Seq(Unit), Chain(s), NEW q \in Nat, q <= Len(s)
    PROVE  Chain(SubSeq(s, 1, q))
<1> DEFINE t == SubSeq(s, 1, q)
<1>1. Len(t) = q /\ \A i \in 1..q : t[i] = s[i]
  BY CutType
<1> HIDE DEF t
<1>2. \A i \in 1..q : i \in 1..Len(s)
  BY LenProperties
<1>3. \A i \in 1..Len(t) : t[i].msg >= 1 /\ t[i].at < HeadLen + t[i].len
  BY <1>1, <1>2 DEF Chain
<1>4. Len(t) > 0 => t[1].msg = 1 /\ t[1].at = 0
  <2>1. ASSUME q > 0 PROVE t[1].msg = 1 /\ t[1].at = 0
    <3>1. 1 \in 1..q /\ Len(s) > 0
      BY <2>1, LenProperties
    <3>2. s[1].msg = 1 /\ s[1].at = 0
      BY <3>1 DEF Chain
    <3>3. QED
      BY <1>1, <3>1, <3>2
  <2>2. QED
    BY <1>1, <2>1
<1>5. \A i, j \in 1..Len(t) : i <= j =>
          /\ t[i].msg <= t[j].msg
          /\ t[i].at + (j - i) < HeadLen + t[i].len =>
                 t[j].msg = t[i].msg /\ t[j].at = t[i].at + (j - i) /\ t[j].len = t[i].len
          /\ t[i].at + (j - i) = HeadLen + t[i].len =>
                 t[j].msg = t[i].msg + 1 /\ t[j].at = 0
  <2>1. ASSUME NEW i \in 1..q, NEW j \in 1..q, i <= j
        PROVE  /\ s[i].msg <= s[j].msg
               /\ s[i].at + (j - i) < HeadLen + s[i].len =>
                      s[j].msg = s[i].msg /\ s[j].at = s[i].at + (j - i) /\ s[j].len = s[i].len
               /\ s[i].at + (j - i) = HeadLen + s[i].len =>
                      s[j].msg = s[i].msg + 1 /\ s[j].at = 0
    BY <1>2, <2>1 DEF Chain
  <2>2. ASSUME NEW i \in 1..q, NEW j \in 1..q, i <= j
        PROVE  /\ t[i].msg <= t[j].msg
               /\ t[i].at + (j - i) < HeadLen + t[i].len =>
                      t[j].msg = t[i].msg /\ t[j].at = t[i].at + (j - i) /\ t[j].len = t[i].len
               /\ t[i].at + (j - i) = HeadLen + t[i].len =>
                      t[j].msg = t[i].msg + 1 /\ t[j].at = 0
    <3>1. t[i] = s[i] /\ t[j] = s[j]
      BY <1>1
    <3>2. QED
      BY <2>1, <2>2, <3>1
  <2>3. QED
    BY <1>1, <2>2
<1>6. QED
  BY <1>3, <1>4, <1>5 DEF Chain, t

(* Behind a boundary the next message begins. *)
LEMMA BoundaryNext ==
    ASSUME NEW s \in Seq(Unit), Chain(s), NEW p \in Nat, NEW n \in Nat, Boundary(s, p, n), p < Len(s)
    PROVE  p + 1 \in 1..Len(s) /\ s[p + 1].at = 0 /\ s[p + 1].msg = n + 1
<1>1. Len(s) \in Nat /\ p + 1 \in 1..Len(s)
  BY LenProperties
<1>2. CASE p = 0
  <2>1. s[1].msg = 1 /\ s[1].at = 0 /\ n = 0
    BY <1>1, <1>2 DEF Chain, Boundary
  <2>2. QED
    BY <1>1, <1>2, <2>1
<1>3. CASE p # 0
  <2>1. p \in 1..Len(s) /\ p <= p + 1
    BY <1>1, <1>3
  <2>2. s[p].at = HeadLen + s[p].len - 1 /\ s[p].msg = n
    BY <1>3 DEF Boundary
  <2>3. s[p].at + (p + 1 - p) = HeadLen + s[p].len => s[p + 1].msg = s[p].msg + 1 /\ s[p + 1].at = 0
    BY <1>1, <2>1 DEF Chain
  <2>4. s[p].len \in Nat /\ HeadLen \in Nat
    BY <2>1, UnitFields, Lens
  <2>5. s[p].at + (p + 1 - p) = HeadLen + s[p].len
    BY <2>2, <2>4
  <2>6. QED
    BY <1>1, <2>2, <2>3, <2>5
<1>4. QED
  BY <1>2, <1>3

(* All of a message belongs to it, and ends at a boundary. *)
LEMMA WholeMessage ==
    ASSUME NEW s \in Seq(Unit), Chain(s), NEW p \in Nat, p + 1 \in 1..Len(s), s[p + 1].at = 0,
           NEW d \in Nat, d <= HeadLen + s[p + 1].len, p + d <= Len(s)
    PROVE  /\ \A i \in (p + 1)..(p + d) : s[i].msg = s[p + 1].msg
           /\ d = HeadLen + s[p + 1].len => Boundary(s, p + d, s[p + 1].msg)
<1>1. Len(s) \in Nat /\ s[p + 1].len \in Nat /\ HeadLen \in Nat \ {0}
  BY UnitFields, Lens
<1>2. ASSUME NEW i \in (p + 1)..(p + d)
      PROVE  s[i].msg = s[p + 1].msg /\ s[i].at = i - (p + 1) /\ s[i].len = s[p + 1].len
  <2>1. i \in 1..Len(s) /\ p + 1 <= i
    BY <1>1
  <2>2. s[p + 1].at + (i - (p + 1)) < HeadLen + s[p + 1].len =>
            s[i].msg = s[p + 1].msg /\ s[i].at = s[p + 1].at + (i - (p + 1))
            /\ s[i].len = s[p + 1].len
    BY <2>1 DEF Chain
  <2>3. s[p + 1].at + (i - (p + 1)) = i - (p + 1) /\ i - (p + 1) < HeadLen + s[p + 1].len
    BY <1>1
  <2>4. QED
    BY <2>2, <2>3
<1>3. ASSUME d = HeadLen + s[p + 1].len PROVE Boundary(s, p + d, s[p + 1].msg)
  <2>1. p + d \in (p + 1)..(p + d) /\ p + d \in 0..Len(s) /\ p + d # 0
    BY <1>1, <1>3
  <2>2. s[p + d].msg = s[p + 1].msg /\ s[p + d].at = (p + d) - (p + 1) /\ s[p + d].len = s[p + 1].len
    BY <1>2, <2>1
  <2>3. (p + d) - (p + 1) = HeadLen + s[p + 1].len - 1
    <3>1. PICK len \in Nat : len = s[p + 1].len
      BY <1>1
    <3>2. d = HeadLen + len
      BY <1>3, <3>1
    <3>3. (p + d) - (p + 1) = HeadLen + len - 1
      BY <1>1, <3>2
    <3>4. QED
      BY <3>1, <3>3
  <2>4. s[p + d].at = HeadLen + s[p + d].len - 1
    BY <2>2, <2>3
  <2>5. QED
    BY <2>1, <2>2, <2>4 DEF Boundary
<1>4. QED
  BY <1>2, <1>3

LEMMA BoundaryKept ==
    ASSUME NEW s \in Seq(Unit), NEW t \in Seq(Unit), NEW p, NEW n, Boundary(s, p, n), p <= Len(t),
           p > 0 => t[p] = s[p]
    PROVE  Boundary(t, p, n)
<1>1. Len(s) \in Nat /\ Len(t) \in Nat
  BY LenProperties
<1>2. p \in 0..Len(t)
  BY <1>1 DEF Boundary
<1>3. QED
  BY <1>1, <1>2 DEF Boundary

----------------------------------------------------------------------------
(* What the follower has written.  It ends with a message, or with the part  *)
(* of one that sendall has sent; nothing is added once its end is known.     *)

InHand(c) == call[c].main.at = "send" /\ call[c].main.n > 0

EndInv(c) ==
    over[c] = "no" =>
        IF InHand(c)
        THEN Continues(out[c], call[c].main.msg, call[c].main.len, call[c].main.n)
        ELSE Boundary(out[c], Len(out[c]), LastMsg(out[c]))

EofInv(c) == c \in eof => over[c] \in {"closed", "reset"} /\ arrived[c] = Len(out[c])

SendInv(c) == Chain(out[c]) /\ EndInv(c) /\ EofInv(c)

LEMMA InitSend == Init => \A c \in Conns : SendInv(c)
<1> SUFFICES ASSUME Init, NEW c \in Conns PROVE SendInv(c)
  OBVIOUS
<1>1. out[c] = << >> /\ call[c].main = Idle /\ c \notin eof
  BY DEF Init
<1>2. Len(<< >>) = 0
  BY EmptySeq
<1>3. ~InHand(c)
  BY <1>1 DEF InHand, Idle
<1>4. Chain(<< >>)
  BY <1>2 DEF Chain
<1>5. Boundary(<< >>, 0, LastMsg(<< >>))
  BY <1>2 DEF Boundary, LastMsg
<1>6. QED
  BY <1>1, <1>2, <1>3, <1>4, <1>5 DEF SendInv, EndInv, EofInv

LEMMA SendKept ==
    ASSUME NEW d \in Conns, SendInv(d), out'[d] = out[d], over'[d] = over[d], arrived'[d] = arrived[d],
           d \in eof' <=> d \in eof,
           \/ call'[d].main = call[d].main
           \/ over[d] # "no"
           \/ ~InHand(d) /\ ~(call'[d].main.at = "send" /\ call'[d].main.n > 0)
    PROVE  SendInv(d)'
<1>1. Chain(out[d])' /\ EofInv(d)'
  BY DEF SendInv, EofInv, Chain
<1>2. EndInv(d)'
  BY DEF SendInv, EndInv, InHand, Continues, Boundary, LastMsg
<1>3. QED
  BY <1>1, <1>2 DEF SendInv

LEMMA GotoKeepsSend ==
    ASSUME TypeInv, \A d \in Conns : SendInv(d), NEW c \in Conns, NEW f, Goto(c, f),
           UNCHANGED <<out, over, eof, arrived>>,
           \/ over[c] # "no"
           \/ /\ ~(call[c][Top(c)].at = "send" /\ call[c][Top(c)].n > 0)
              /\ ~(f.at = "send" /\ f.n > 0)
    PROVE  \A d \in Conns : SendInv(d)'
<1>1. call \in [Conns -> Calls]
  BY DEF TypeInv, CallInv
<1>2. /\ \A d \in Conns : d # c => call'[d] = call[d]
      /\ Top(c) = "sig" => call'[c] = [main |-> call[c].main, sig |-> f]
      /\ Top(c) = "main" => call'[c] = [main |-> f, sig |-> call[c].sig]
  BY <1>1, GotoEffect
<1>3. Top(c) \in {"sig", "main"} /\ (Top(c) = "main" => call[c][Top(c)] = call[c].main)
  BY <1>1, TopFrame
<1>4. \/ call'[c].main = call[c].main
      \/ over[c] # "no"
      \/ ~InHand(c) /\ ~(call'[c].main.at = "send" /\ call'[c].main.n > 0)
  <2>1. CASE Top(c) = "sig"
    BY <1>2, <2>1
  <2>2. CASE Top(c) = "main"
    <3>1. call'[c].main = f
      BY <1>2, <2>2
    <3>2. call[c][Top(c)] = call[c].main
      BY <1>3, <2>2
    <3>3. QED
      BY <3>1, <3>2 DEF InHand
  <2>3. QED
    BY <1>3, <2>1, <2>2
<1>5. ASSUME NEW d \in Conns PROVE SendInv(d)'
  <2>1. CASE d = c
    BY <1>4, <2>1, SendKept
  <2>2. CASE d # c
    BY <1>2, <2>2, SendKept
  <2>3. QED
    BY <2>1, <2>2
<1>6. QED
  BY <1>5

LEMMA SendSomeSends ==
    ASSUME TypeInv, \A d \in Conns : SendInv(d), NEW c \in Conns, SendSome(c)
    PROVE  /\ \A d \in Conns : SendInv(d)'
           /\ \A i \in 1..Len(out[c]) : out'[c][i] = out[c][i]
           /\ Len(out[c]) <= Len(out'[c])
           /\ \A d \in Conns : d # c => out'[d] = out[d]
           /\ call[c][Top(c)].n = 0 => LastMsg(out'[c]) = LastMsg(out[c]) + 1
           /\ call[c][Top(c)].n # 0 => LastMsg(out'[c]) = LastMsg(out[c])
                                      /\ call[c][Top(c)].msg = LastMsg(out[c])
<1> DEFINE frame == call[c][Top(c)]
           m == IF frame.n = 0 THEN LastMsg(out[c]) + 1 ELSE frame.msg
           size == HeadLen + frame.len
<1>1. /\ over[c] = "no" /\ frame.at = "send"
      /\ UNCHANGED <<arrived, back, heard, over, eof, aggregator>>
  BY DEF SendSome, At
<1>2. PICK k \in (IF c \in Roomy THEN {size} ELSE (frame.n + 1)..size) : SendTo(c, m, frame, k)
  BY DEF SendSome
<1>3. /\ call \in [Conns -> Calls] /\ FrameInv(c)
      /\ out \in [Conns -> Seq(Unit)] /\ out[c] \in Seq(Unit)
  BY DEF TypeInv, CallInv, StreamInv
<1>4. frame \in Frame /\ FrameOK(c, frame)
  BY TopOK DEF TypeInv
<1>5. frame.len \in Contents \cup {RespLen} /\ frame.n < size /\ (c \in Roomy => frame.n = 0)
      /\ frame.n \in Nat /\ size \in Nat
  <2>1. frame.len \in Contents \cup {RespLen} /\ frame.n < HeadLen + frame.len
        /\ (c \in Roomy => frame.n = 0)
    BY <1>1, <1>4 DEF FrameOK
  <2>2. frame.n \in Nat /\ frame.len \in Nat /\ HeadLen \in Nat
    BY <1>4, Lens DEF Frame
  <2>3. QED
    BY <2>1, <2>2
<1>6. k \in Nat /\ frame.n < k /\ k <= size /\ (c \in Roomy => k = size)
  BY <1>2, <1>5
<1>7. out' = [out EXCEPT ![c] = @ \o Units(m, frame.len, frame.n, k)]
      /\ Goto(c, IF k = size THEN AwaitAnswer(m) ELSE [frame EXCEPT !.n = k, !.msg = m])
  BY <1>2 DEF SendTo
<1>8. /\ Top(c) \in {"sig", "main"}
      /\ Top(c) = "main" => frame = call[c].main
      /\ Top(c) = "sig" => frame = call[c].sig /\ c \in Roomy /\ ~InHand(c)
  <2>1. /\ Top(c) \in {"sig", "main"} /\ (Top(c) = "main" <=> call[c].sig.at = "idle")
        /\ (Top(c) = "sig" => frame = call[c].sig) /\ (Top(c) = "main" => frame = call[c].main)
    BY <1>3, TopFrame
  <2>2. ASSUME Top(c) = "sig" PROVE c \in Roomy
    <3>1. call[c].sig # Idle
      BY <2>1, <2>2 DEF Idle
    <3>2. QED
      BY <1>3, <3>1, RoomAssumption DEF FrameInv
  <2>3. c \in Roomy => ~InHand(c)
    BY <1>3 DEF FrameInv, FrameOK, InHand
  <2>4. QED
    BY <2>1, <2>2, <2>3
<1>9. LastMsg(out[c]) \in Nat
  BY <1>3, LastMsgType
<1>10. m \in Nat \ {0} /\ Continues(out[c], m, frame.len, frame.n)
  <2>1. SendInv(c)
    OBVIOUS
  <2>2. CASE frame.n = 0
    <3>1. ~InHand(c)
      BY <1>8, <2>2 DEF InHand
    <3>2. Boundary(out[c], Len(out[c]), LastMsg(out[c]))
      BY <1>1, <2>1, <3>1 DEF SendInv, EndInv
    <3>3. m = LastMsg(out[c]) + 1 /\ m - 1 = LastMsg(out[c])
      BY <1>9, <2>2
    <3>4. QED
      BY <1>9, <2>2, <3>2, <3>3 DEF Continues
  <2>3. CASE frame.n # 0
    <3>1. Top(c) = "main" /\ frame = call[c].main
      BY <1>5, <1>8, <2>3
    <3>2. InHand(c)
      BY <1>1, <1>5, <2>3, <3>1 DEF InHand
    <3>3. Continues(out[c], frame.msg, frame.len, frame.n)
      BY <1>1, <2>1, <3>1, <3>2 DEF SendInv, EndInv
    <3>4. m = frame.msg /\ m \in Nat
      BY <1>4, <2>3 DEF Frame
    <3>5. m >= 1
      <4>1. Len(out[c]) \in 1..Len(out[c])
            /\ out[c][Len(out[c])] = [msg |-> frame.msg, at |-> frame.n - 1, len |-> frame.len]
        BY <1>3, <2>3, <3>3, LenProperties DEF Continues
      <4>2. out[c][Len(out[c])].msg >= 1
        BY <2>1, <4>1 DEF SendInv, Chain
      <4>3. QED
        BY <3>4, <4>1, <4>2
    <3>6. QED
      BY <3>3, <3>4, <3>5
  <2>4. QED
    BY <2>2, <2>3
<1> DEFINE t == out[c] \o Units(m, frame.len, frame.n, k)
<1>11. /\ t \in Seq(Unit) /\ Chain(t)
       /\ Len(t) = Len(out[c]) + (k - frame.n)
       /\ \A i \in 1..Len(out[c]) : t[i] = out[c][i]
       /\ t[Len(t)] = [msg |-> m, at |-> k - 1, len |-> frame.len]
  <2>1. out[c] \in Seq(Unit) /\ Chain(out[c])
    BY <1>3 DEF SendInv
  <2>2. frame.len \in Contents \cup {RespLen} /\ frame.n \in Nat /\ k <= HeadLen + frame.len
    BY <1>5, <1>6
  <2>3. k \in Nat /\ frame.n < k
    BY <1>6
  <2>4. m \in Nat \ {0} /\ Continues(out[c], m, frame.len, frame.n)
    BY <1>10
  <2> HIDE DEF m, t
  <2>5. t = out[c] \o Units(m, frame.len, frame.n, k)
    BY DEF t
  <2> HIDE DEF frame
  <2>6. GrowsTo(out[c], t, m, frame.len, frame.n, k)
    BY <2>1, <2>2, <2>3, <2>4, <2>5 DEF GrowsTo
  <2>7. QED
    BY <2>6, ChainGrows
<1>12. out'[c] = t /\ \A d \in Conns : d # c => out'[d] = out[d]
  BY <1>3, <1>7
<1>13. frame.n # 0 => frame.msg = LastMsg(out[c])
  <2>1. ASSUME frame.n # 0 PROVE frame.msg = LastMsg(out[c])
    <3>1. m = frame.msg
      BY <2>1
    <3>2. Len(out[c]) > 0 /\ out[c][Len(out[c])] = [msg |-> m, at |-> frame.n - 1, len |-> frame.len]
      BY <1>10, <2>1 DEF Continues
    <3>3. out[c] # << >>
      BY <1>3, <3>2, EmptySeq
    <3> HIDE DEF m
    <3>4. out[c][Len(out[c])].msg = m
      BY <3>2
    <3>5. QED
      BY <3>1, <3>3, <3>4 DEF LastMsg
  <2>2. QED
    BY <2>1
<1>14. frame.n = 0 => m = LastMsg(out[c]) + 1
  OBVIOUS
<1>15. frame.n # 0 => m = frame.msg
  OBVIOUS
<1> HIDE DEF t, m
<1>16. Len(out[c]) \in Nat /\ Len(t) > Len(out[c]) /\ Len(t) \in Nat
  BY <1>3, <1>5, <1>6, <1>11, LenProperties
<1>17. LastMsg(t) = m
  <2>1. t # << >>
    BY <1>16, EmptySeq
  <2>2. t[Len(t)].msg = m
    BY <1>11
  <2>3. QED
    BY <2>1, <2>2 DEF LastMsg
<1>18. k = size => Boundary(t, Len(t), m)
  <2>1. ASSUME k = size PROVE Boundary(t, Len(t), m)
    <3>1. t[Len(t)].at = k - 1 /\ t[Len(t)].msg = m /\ t[Len(t)].len = frame.len
      BY <1>11
    <3>2. Len(t) \in 0..Len(t) /\ Len(t) # 0
      BY <1>16
    <3>3. k - 1 = HeadLen + frame.len - 1
      <4>1. frame.len \in Nat /\ HeadLen \in Nat
        BY <1>5, Lens
      <4>2. QED
        BY <1>6, <2>1, <4>1
    <3> HIDE DEF frame
    <3>4. QED
      BY <3>1, <3>2, <3>3 DEF Boundary
  <2>2. QED
    BY <2>1
<1>19. c \notin eof
  <2>1. SendInv(c)
    OBVIOUS
  <2>2. QED
    BY <1>1, <2>1 DEF SendInv, EofInv
<1>20. SendInv(c)'
  <2>1. EndInv(c)'
    <3>1. CASE Top(c) = "sig"
      <4>1. k = size /\ ~InHand(c)
        BY <1>6, <1>8, <3>1
      <4>2. call'[c].main = call[c].main
        <5>1. PICK f : Goto(c, f)
          BY <1>7
        <5>2. call'[c] = [main |-> call[c].main, sig |-> f]
          BY <1>3, <3>1, <5>1, GotoEffect
        <5>3. QED
          BY <5>2
      <4>3. ~InHand(c)'
        BY <4>1, <4>2 DEF InHand
      <4>4. QED
        BY <1>12, <1>17, <1>18, <4>1, <4>3 DEF EndInv
    <3>2. CASE Top(c) = "main" /\ k = size
      <4>1. call'[c].main = AwaitAnswer(m)
        <5>1. Goto(c, AwaitAnswer(m))
          BY <1>7, <3>2
        <5>2. call'[c] = [main |-> AwaitAnswer(m), sig |-> call[c].sig]
          BY <1>3, <3>2, <5>1, GotoEffect
        <5>3. QED
          BY <5>2
      <4>2. AwaitAnswer(m).at = "head"
        BY <1>10, FrameAwait
      <4>3. ~InHand(c)'
        BY <4>1, <4>2 DEF InHand
      <4>4. QED
        BY <1>12, <1>17, <1>18, <3>2, <4>3 DEF EndInv
    <3>3. CASE Top(c) = "main" /\ k # size
      <4>1. call'[c].main = [frame EXCEPT !.n = k, !.msg = m]
        <5> DEFINE g == [frame EXCEPT !.n = k, !.msg = m]
        <5>1. Goto(c, g)
          BY <1>7, <3>3
        <5> HIDE DEF g
        <5>2. call'[c] = [main |-> g, sig |-> call[c].sig]
          BY <1>3, <3>3, <5>1, GotoEffect
        <5>3. call'[c].main = g
          BY <5>2
        <5>4. QED
          BY <5>3 DEF g
      <4>2. call'[c].main.at = "send" /\ call'[c].main.n = k /\ call'[c].main.msg = m
            /\ call'[c].main.len = frame.len
        BY <1>1, <1>4, <4>1 DEF Frame
      <4>3. k # 0 /\ k > 0
        BY <1>5, <1>6
      <4>4. Continues(t, m, frame.len, k)
        BY <1>11, <1>16, <4>3 DEF Continues
      <4>5. InHand(c)'
        BY <4>2, <4>3 DEF InHand
      <4>6. QED
        BY <1>12, <4>2, <4>4, <4>5 DEF EndInv
    <3>4. QED
      BY <1>8, <3>1, <3>2, <3>3
  <2>2. Chain(out[c])'
    BY <1>11, <1>12
  <2>3. EofInv(c)'
    BY <1>1, <1>19 DEF EofInv
  <2>4. QED
    BY <2>1, <2>2, <2>3 DEF SendInv
<1>21. \A d \in Conns : d # c => call'[d] = call[d]
  BY <1>3, <1>7, GotoEffect
<1>22. ASSUME NEW d \in Conns, d # c PROVE SendInv(d)'
  BY <1>1, <1>12, <1>21, <1>22, SendKept
<1>23. \A d \in Conns : SendInv(d)'
  BY <1>20, <1>22
<1>24. LastMsg(out'[c]) = m
  BY <1>12, <1>17
<1>25. /\ \A i \in 1..Len(out[c]) : out'[c][i] = out[c][i]
       /\ Len(out[c]) <= Len(out'[c])
  BY <1>11, <1>12, <1>16
<1> HIDE DEF frame
<1>26. frame.n = 0 => LastMsg(out'[c]) = LastMsg(out[c]) + 1
  BY <1>14, <1>24
<1>27. frame.n # 0 => LastMsg(out'[c]) = LastMsg(out[c]) /\ frame.msg = LastMsg(out[c])
  BY <1>13, <1>15, <1>24
<1>28. QED
  BY <1>12, <1>23, <1>25, <1>26, <1>27 DEF frame

LEMMA AggregatorLeaves ==
    ASSUME AggregatorNext
    PROVE  UNCHANGED <<call, out, arrived, over, eof>>
  BY DEF AggregatorNext, EpollWait, Receive, RecvHead, RecvBody, CloseConnection, ShortHead, Handle, network

LEMMA FollowerSends ==
    ASSUME TypeInv, \A d \in Conns : SendInv(d), NEW c \in Conns,
           Begin(c) \/ Alarm(c) \/ FollowerNext(c)
    PROVE  \A d \in Conns : SendInv(d)'
<1> DEFINE frame == call[c][Top(c)]
<1>1. CASE Begin(c)
  <2>1. PICK len \in Contents : Goto(c, [Idle EXCEPT !.at = "send", !.len = len])
    BY <1>1 DEF Begin
  <2> DEFINE f == [Idle EXCEPT !.at = "send", !.len = len]
  <2>2. f.n = 0
    BY DEF Idle
  <2>3. frame.at = "idle"
    BY <1>1 DEF Begin, At
  <2>7. ~(f.n > 0)
    BY <2>2
  <2>8. frame.at # "send"
    BY <2>3
  <2>4. UNCHANGED <<out, over, eof, arrived>>
    BY <1>1 DEF Begin, network
  <2>5. Goto(c, f)
    BY <2>1 DEF f
  <2> HIDE DEF f
  <2>6. QED
    BY <2>7, <2>8, <2>4, <2>5, GotoKeepsSend
<1>2. CASE Alarm(c)
  <2>1. /\ call' = [call EXCEPT ![c].sig = [Idle EXCEPT !.at = "send", !.len = RespLen]]
        /\ UNCHANGED <<out, over, eof, arrived>>
    BY <1>2 DEF Alarm, network
  <2>2. ASSUME NEW d \in Conns PROVE call'[d].main = call[d].main
    <3>1. call \in [Conns -> Calls]
      BY DEF TypeInv, CallInv
    <3>2. QED
      BY <2>1, <3>1 DEF Calls
  <2>3. ASSUME NEW d \in Conns PROVE SendInv(d)'
    BY <2>1, <2>2, SendKept
  <2>4. QED
    BY <2>3
<1>3. CASE SendSome(c)
  BY <1>3, SendSomeSends
<1>4. ASSUME NEW f, Goto(c, f), UNCHANGED <<out, over, eof, arrived>>,
             over[c] # "no" \/ (frame.at # "send" /\ f.at # "send")
      PROVE  \A d \in Conns : SendInv(d)'
  BY <1>4, GotoKeepsSend
<1>5. CASE SendFails(c)
  <2>1. over[c] # "no" /\ UNCHANGED <<out, over, eof, arrived>>
    BY <1>5 DEF SendFails, network
  <2>2. PICK f : Goto(c, f)
    BY <1>5 DEF SendFails
  <2>3. QED
    BY <1>4, <2>1, <2>2
<1>6. Idle.at # "send"
  BY DEF Idle
<1>7. call[c][Top(c)] \in Frame
  BY TopOK DEF TypeInv
<1>8. CASE HearHead(c)
  <2>1. frame.at = "head" /\ UNCHANGED <<out, over, eof, arrived>>
    BY <1>8 DEF HearHead, At
  <2>2. PICK f : Goto(c, f) /\ f.at # "send"
    <3>1. ASSUME NEW k PROVE [frame EXCEPT !.n = @ + k].at = frame.at
      BY <1>7 DEF Frame
    <3>2. ASSUME NEW head
          PROVE [frame EXCEPT !.at = "body", !.n = 0, !.len = head.len, !.of = head.msg].at = "body"
      BY <1>7 DEF Frame
    <3>3. QED
      BY <1>8, <2>1, <3>1, <3>2 DEF HearHead
  <2>3. QED
    BY <1>4, <2>1, <2>2
<1>9. CASE HearBody(c)
  <2>1. frame.at = "body" /\ UNCHANGED <<out, over, eof, arrived>>
    BY <1>9 DEF HearBody, At
  <2>2. PICK f : Goto(c, f) /\ f.at # "send"
    <3>1. ASSUME NEW k PROVE [frame EXCEPT !.n = @ + k].at = frame.at
      BY <1>7 DEF Frame
    <3>2. QED
      BY <1>9, <2>1, <3>1 DEF HearBody
  <2>3. QED
    BY <1>4, <2>1, <2>2
<1>10. CASE Heard(c)
  <2>1. frame.at # "send" /\ Goto(c, Idle) /\ UNCHANGED <<out, over, eof, arrived>>
    BY <1>10 DEF Heard, At, network
  <2>2. QED
    BY <1>4, <1>6, <2>1
<1>11. CASE HearEnd(c)
  <2>1. over[c] # "no" /\ UNCHANGED <<out, over, eof, arrived>>
    BY <1>11 DEF HearEnd, network
  <2>2. PICK f : Goto(c, f)
    BY <1>11 DEF HearEnd
  <2>3. QED
    BY <1>4, <2>1, <2>2
<1>12. QED
  BY <1>1, <1>2, <1>3, <1>5, <1>8, <1>9, <1>10, <1>11 DEF FollowerNext

LEMMA NetworkSends ==
    ASSUME TypeInv, \A d \in Conns : SendInv(d), NEW c \in Conns,
           Deliver(c) \/ FollowerDies(c) \/ Reset(c) \/ HostVanishes(c)
    PROVE  \A d \in Conns : SendInv(d)'
<1>1. /\ SendInv(c) /\ out[c] \in Seq(Unit) /\ arrived[c] \in Nat /\ arrived[c] <= Len(out[c])
      /\ Len(out[c]) \in Nat
  BY LenProperties DEF TypeInv, StreamInv
<1>2. CASE Arrive(c)
  <2>1. over[c] \in {"no", "closed"} /\ UNCHANGED <<call, out, over, eof>>
    BY <1>2 DEF Arrive
  <2>2. PICK n \in (arrived[c] + 1)..Len(out[c]) : arrived' = [arrived EXCEPT ![c] = n]
    BY <1>2 DEF Arrive
  <2>3. arrived[c] # Len(out[c])
    BY <1>1, <2>2
  <2>4. c \notin eof
    BY <1>1, <2>3 DEF SendInv, EofInv
  <2>5. SendInv(c)'
    <3>1. EofInv(c)'
      BY <2>1, <2>4 DEF EofInv
    <3>2. EndInv(c)' /\ Chain(out[c])'
      BY <1>1, <2>1 DEF SendInv, EndInv, InHand
    <3>3. QED
      BY <3>1, <3>2 DEF SendInv
  <2>6. ASSUME NEW d \in Conns, d # c PROVE SendInv(d)'
    <3>1. arrived'[d] = arrived[d]
      BY <2>2, <2>6 DEF TypeInv, StreamInv
    <3>2. QED
      BY <2>1, <3>1, SendKept
  <2>7. QED
    BY <2>5, <2>6
<1>3. CASE EndArrives(c)
  <2>1. /\ over[c] = "closed" /\ UNCHANGED <<call, out, over>>
        /\ arrived' = [arrived EXCEPT ![c] = Len(out[c])] /\ eof' = eof \cup {c}
    BY <1>3 DEF EndArrives
  <2>2. arrived'[c] = Len(out[c]) /\ \A d \in Conns : d # c => arrived'[d] = arrived[d]
    BY <2>1 DEF TypeInv, StreamInv
  <2>3. EndInv(c)' /\ Chain(out[c])' /\ EofInv(c)'
    BY <1>1, <2>1, <2>2 DEF SendInv, EndInv, EofInv
  <2>4. ASSUME NEW d \in Conns, d # c PROVE SendInv(d)'
    BY <2>1, <2>2, <2>4, SendKept
  <2>5. QED
    BY <2>3, <2>4 DEF SendInv
<1>4. CASE FollowerDies(c) \/ Reset(c) \/ HostVanishes(c)
  <2>1. over[c] = "no" /\ \E v \in {"closed", "reset", "mute"} : over' = [over EXCEPT ![c] = v]
    BY <1>4 DEF FollowerDies, Reset, HostVanishes, MayEnd
  <2>2. c \notin eof
    BY <1>1, <2>1 DEF SendInv, EofInv
  <2>3. over'[c] # "no" /\ \A d \in Conns : d # c => over'[d] = over[d]
    BY <2>1 DEF TypeInv, StreamInv
  <2>4. EndInv(c)'
    BY <2>3 DEF EndInv
  <2>5. arrived' = arrived /\ \A d \in Conns : d # c => (call'[d] = call[d] /\ (d \in eof' <=> d \in eof))
    BY <1>4 DEF FollowerDies, Reset, HostVanishes, Gone, TypeInv, CallInv
  <2>6. out' = out \/ out' = [out EXCEPT ![c] = SubSeq(@, 1, arrived[c])]
    BY <1>4 DEF FollowerDies, Reset, HostVanishes
  <2>7. (\A d \in Conns : d # c => out'[d] = out[d])
        /\ (out'[c] = out[c] \/ out'[c] = SubSeq(out[c], 1, arrived[c]))
    BY <2>6 DEF TypeInv, StreamInv
  <2>8. Chain(out'[c])
    BY <1>1, <2>7, ChainPrefix DEF SendInv
  <2>9. EofInv(c)'
    <3>1. CASE Reset(c)
      <4>1. over' = [over EXCEPT ![c] = "reset"] /\ out' = [out EXCEPT ![c] = SubSeq(@, 1, arrived[c])]
        BY <3>1 DEF Reset
      <4>2. over'[c] = "reset" /\ Len(out'[c]) = arrived[c]
        BY <4>1, CutOut DEF TypeInv, StreamInv
      <4>3. QED
        BY <2>5, <4>2 DEF EofInv
    <3>2. CASE FollowerDies(c) \/ HostVanishes(c)
      <4>1. eof' = eof
        BY <3>2 DEF FollowerDies, HostVanishes
      <4>2. QED
        BY <2>2, <4>1 DEF EofInv
    <3>3. QED
      BY <1>4, <3>1, <3>2
  <2>10. SendInv(c)'
    BY <2>4, <2>8, <2>9 DEF SendInv
  <2>11. ASSUME NEW d \in Conns, d # c PROVE SendInv(d)'
    BY <2>3, <2>5, <2>7, <2>11, SendKept
  <2>12. QED
    BY <2>10, <2>11
<1>5. QED
  BY <1>2, <1>3, <1>4 DEF Deliver

LEMMA StepSend ==
    ASSUME TypeInv, \A d \in Conns : SendInv(d), [Next]_vars
    PROVE  \A d \in Conns : SendInv(d)'
<1>1. ASSUME UNCHANGED <<call, out, arrived, over, eof>> PROVE \A d \in Conns : SendInv(d)'
  BY <1>1, SendKept
<1>2. CASE UNCHANGED vars
  BY <1>1, <1>2 DEF vars, network
<1>3. QED
  BY <1>1, <1>2, AggregatorLeaves, FollowerSends, NetworkSends DEF Next

----------------------------------------------------------------------------
(* The reader.  What it has read of the message it is at begins where the    *)
(* messages already handled end; or a header was cut short; or what was      *)
(* handled last was, and then there is nothing more to read.                 *)

ReadOf(c) ==
    IF agg.conn # c THEN 0 ELSE IF agg.at = "body" THEN HeadLen + agg.n ELSE agg.n

From(c) == taken[c] - ReadOf(c)

AllWhole(c, n) == \A i \in 1..n : handled[c][i] = [msg |-> i, whole |-> TRUE]

Reading(c) ==
    /\ agg.at = "head" => agg.n < HeadLen
    /\ agg.at = "body" => /\ agg.msg = Len(handled[c]) + 1
                          /\ agg.n <= agg.len
                          /\ agg.len = out[c][From(c) + 1].len

InOrder(c) ==
    /\ AllWhole(c, Len(handled[c]))
    /\ Boundary(out[c], From(c), Len(handled[c]))
    /\ agg.conn = c => Reading(c)

CutShort(c) ==
    /\ AllWhole(c, Len(handled[c])) /\ Ended(c)
    /\ agg.conn = c /\ agg.at = "body" /\ agg.msg = 0

Over(c) ==
    /\ Len(handled[c]) > 0 /\ AllWhole(c, Len(handled[c]) - 1) /\ Ended(c)
    /\ agg.conn = c => agg.at = "head" /\ agg.n = 0

ReadInv(c) == InOrder(c) \/ CutShort(c) \/ Over(c)

LEMMA InitRead == Init => \A c \in Conns : ReadInv(c)
<1> SUFFICES ASSUME Init, NEW c \in Conns PROVE ReadInv(c)
  OBVIOUS
<1>1. handled[c] = << >> /\ out[c] = << >> /\ taken[c] = 0 /\ agg = Waiting
  BY DEF Init
<1>2. agg.conn = NoConn /\ c # NoConn
  BY <1>1, WaitingType, NoConnAssumption
<1>3. Len(handled[c]) = 0 /\ Len(out[c]) = 0
  BY <1>1
<1>4. From(c) = 0
  BY <1>1, <1>2 DEF From, ReadOf
<1>5. Boundary(out[c], From(c), Len(handled[c]))
  BY <1>3, <1>4 DEF Boundary
<1>6. AllWhole(c, Len(handled[c]))
  BY <1>3 DEF AllWhole
<1>7. QED
  BY <1>2, <1>5, <1>6 DEF ReadInv, InOrder

LEMMA ReadTypes ==
    ASSUME TypeInv, NEW c \in Conns
    PROVE  /\ ReadOf(c) \in Nat /\ taken[c] \in Nat /\ arrived[c] \in Nat /\ Len(out[c]) \in Nat
           /\ taken[c] <= arrived[c] /\ arrived[c] <= Len(out[c]) /\ out[c] \in Seq(Unit)
           /\ Len(handled[c]) \in Nat
           /\ agg.n \in Nat /\ agg.len \in Nat /\ agg.msg \in Nat
<1>1. agg.n \in Nat /\ agg.len \in Nat /\ agg.msg \in Nat
  BY Lens DEF TypeInv, AggInv, Agg
<1>2. ReadOf(c) \in Nat
  BY <1>1, Lens DEF ReadOf
<1>3. handled[c] \in Seq([msg : Nat, whole : BOOLEAN]) /\ out[c] \in Seq(Unit)
  BY DEF TypeInv, AggInv, StreamInv
<1>4. Len(handled[c]) \in Nat /\ Len(out[c]) \in Nat
  BY <1>3, LenProperties
<1>5. QED
  BY <1>1, <1>2, <1>3, <1>4 DEF TypeInv, StreamInv

(* The reader stands still, what has arrived does not change. *)
LEMMA ReadKept ==
    ASSUME TypeInv, NEW c \in Conns, ReadInv(c), UNCHANGED <<agg, taken, handled>>,
           out'[c] \in Seq(Unit), arrived[c] <= Len(out'[c]),
           \A i \in 1..arrived[c] : out'[c][i] = out[c][i],
           Ended(c) => Ended(c)'
    PROVE  ReadInv(c)'
<1>1. ReadOf(c)' = ReadOf(c) /\ From(c)' = From(c) /\ agg' = agg /\ handled' = handled /\ taken' = taken
  BY DEF ReadOf, From
<1>2. \A n : AllWhole(c, n) => AllWhole(c, n)'
  BY <1>1 DEF AllWhole
<1>3. CASE CutShort(c)
  BY <1>1, <1>2, <1>3 DEF CutShort, ReadInv
<1>4. CASE Over(c)
  BY <1>1, <1>2, <1>4 DEF Over, ReadInv
<1>5. CASE InOrder(c)
  <2>1. /\ ReadOf(c) \in Nat /\ taken[c] \in Nat /\ arrived[c] \in Nat /\ Len(out[c]) \in Nat
        /\ taken[c] <= arrived[c] /\ out[c] \in Seq(Unit)
    BY ReadTypes
  <2>2. From(c) <= taken[c] /\ From(c) \in Int
    BY <2>1 DEF From
  <2>3. Boundary(out[c], From(c), Len(handled[c]))
    BY <1>5 DEF InOrder
  <2>4. From(c) \in 0..Len(out[c])
    BY <2>3 DEF Boundary
  <2>5. From(c) <= Len(out'[c])
    <3>1. Len(out'[c]) \in Nat
      BY LenProperties
    <3>2. QED
      BY <2>1, <2>2, <3>1
  <2>6. From(c) > 0 => out'[c][From(c)] = out[c][From(c)]
    BY <2>1, <2>2, <2>4
  <2>7. Boundary(out'[c], From(c), Len(handled[c]))
    BY <2>1, <2>3, <2>5, <2>6, BoundaryKept
  <2>8. ASSUME agg.conn = c PROVE Reading(c)'
    <3>1. Reading(c)
      BY <1>5, <2>8 DEF InOrder
    <3>2. CASE agg.at = "body"
      <4>1. From(c) + 1 \in 1..arrived[c]
        <5>1. ReadOf(c) = HeadLen + agg.n /\ agg.n \in Nat
          BY <2>8, <3>2, ReadTypes DEF ReadOf
        <5>2. ReadOf(c) >= 1
          BY <5>1, Lens
        <5>3. QED
          BY <2>1, <2>4, <5>2 DEF From
      <4>2. out'[c][From(c) + 1] = out[c][From(c) + 1]
        BY <4>1
      <4>3. QED
        BY <1>1, <3>1, <3>2, <4>2 DEF Reading
    <3>3. CASE agg.at # "body"
      BY <1>1, <3>1, <3>3 DEF Reading
    <3>4. QED
      BY <3>2, <3>3
  <2>9. AllWhole(c, Len(handled[c]))
    BY <1>5 DEF InOrder
  <2>10. InOrder(c)'
    BY <1>1, <1>2, <2>7, <2>8, <2>9 DEF InOrder
  <2>11. QED
    BY <2>10 DEF ReadInv
<1>6. QED
  BY <1>3, <1>4, <1>5 DEF ReadInv

(* Connections the aggregator's thread is not at. *)
LEMMA ReadOther ==
    ASSUME NEW d \in Conns, ReadInv(d), agg.conn # d, agg'.conn # d, taken'[d] = taken[d],
           handled'[d] = handled[d], UNCHANGED <<out, arrived, eof>>
    PROVE  ReadInv(d)'
<1>1. From(d)' = From(d) /\ out'[d] = out[d] /\ ReadOf(d)' = 0 /\ ReadOf(d) = 0
  BY DEF From, ReadOf
<1>2. \A n : AllWhole(d, n) => AllWhole(d, n)'
  BY DEF AllWhole
<1>3. Ended(d) => Ended(d)'
  BY DEF Ended, Unread
<1>4. ~CutShort(d)
  BY DEF CutShort
<1>5. CASE InOrder(d)
  <2>1. InOrder(d)'
    BY <1>1, <1>2, <1>5 DEF InOrder
  <2>2. QED
    BY <2>1 DEF ReadInv
<1>6. CASE Over(d)
  <2>1. Over(d)'
    BY <1>2, <1>3, <1>6 DEF Over
  <2>2. QED
    BY <2>1 DEF ReadInv
<1>7. QED
  BY <1>4, <1>5, <1>6 DEF ReadInv

LEMMA FollowerReads ==
    ASSUME TypeInv, \A d \in Conns : SendInv(d), \A d \in Conns : ReadInv(d), NEW c \in Conns,
           Begin(c) \/ Alarm(c) \/ FollowerNext(c)
    PROVE  \A d \in Conns : ReadInv(d)'
<1>1. UNCHANGED <<agg, taken, handled, arrived, eof>>
  BY DEF Begin, Alarm, FollowerNext, SendSome, SendFails, HearHead, HearBody, Heard, HearEnd,
         network, aggregator
<1>2. ASSUME NEW d \in Conns, out'[d] \in Seq(Unit), Len(out[d]) <= Len(out'[d]),
             \A i \in 1..Len(out[d]) : out'[d][i] = out[d][i]
      PROVE  ReadInv(d)'
  <2>1. /\ arrived[d] \in Nat /\ Len(out[d]) \in Nat /\ arrived[d] <= Len(out[d])
    BY ReadTypes
  <2>2. Len(out'[d]) \in Nat
    BY <1>2, LenProperties
  <2>3. arrived[d] <= Len(out'[d]) /\ \A i \in 1..arrived[d] : out'[d][i] = out[d][i]
    BY <1>2, <2>1, <2>2
  <2>4. Ended(d) => Ended(d)'
    BY <1>1 DEF Ended, Unread
  <2>5. QED
    BY <1>1, <1>2, <2>3, <2>4, ReadKept
<1>3. ASSUME NEW d \in Conns, out'[d] = out[d] PROVE ReadInv(d)'
  <2>1. out[d] \in Seq(Unit) /\ Len(out[d]) \in Nat
    BY ReadTypes
  <2>2. Len(out[d]) <= Len(out'[d])
    BY <1>3, <2>1
  <2>3. QED
    BY <1>2, <1>3, <2>1, <2>2
<1>4. CASE SendSome(c)
  <2>1. ReadInv(c)'
    <3>1. out'[c] \in Seq(Unit)
      BY <1>4, SendSomeType DEF TypeInv, StreamInv
    <3>2. QED
      BY <1>2, <1>4, <3>1, SendSomeSends
  <2>2. ASSUME NEW d \in Conns, d # c PROVE ReadInv(d)'
    <3>1. out \in [Conns -> Seq(Unit)]
      BY DEF TypeInv, StreamInv
    <3>2. \E e : out' = [out EXCEPT ![c] = e]
      BY <1>4 DEF SendSome, SendTo
    <3>3. out'[d] = out[d]
      BY <2>2, <3>1, <3>2
    <3>4. QED
      BY <1>3, <3>3
  <2>3. QED
    BY <2>1, <2>2
<1>5. CASE ~SendSome(c)
  <2>1. out' = out
    BY <1>5 DEF Begin, Alarm, FollowerNext, SendFails, HearHead, HearBody, Heard, HearEnd, network
  <2>2. QED
    BY <1>3, <2>1
<1>6. QED
  BY <1>4, <1>5

LEMMA NetworkReads ==
    ASSUME TypeInv, \A d \in Conns : SendInv(d), \A d \in Conns : ReadInv(d), NEW c \in Conns,
           Deliver(c) \/ FollowerDies(c) \/ Reset(c) \/ HostVanishes(c)
    PROVE  \A d \in Conns : ReadInv(d)'
<1>1. UNCHANGED <<agg, taken, handled>>
  BY DEF Deliver, Arrive, EndArrives, FollowerDies, Reset, HostVanishes, aggregator
<1>2. ASSUME NEW d \in Conns, out'[d] = out[d], Ended(d) => Ended(d)' PROVE ReadInv(d)'
  <2>1. out[d] \in Seq(Unit) /\ arrived[d] <= Len(out[d])
    BY ReadTypes
  <2>2. QED
    BY <1>1, <1>2, <2>1, ReadKept
<1>3. ASSUME out' = [out EXCEPT ![c] = SubSeq(@, 1, arrived[c])], UNCHANGED arrived, eof \subseteq eof'
      PROVE  \A d \in Conns : ReadInv(d)'
  <2>1. StreamInv /\ out \in [Conns -> Seq(Unit)]
    BY DEF TypeInv, StreamInv
  <2>2. ASSUME NEW d \in Conns PROVE Ended(d) => Ended(d)'
    BY <1>1, <1>3 DEF Ended, Unread
  <2>3. ASSUME NEW d \in Conns, d # c PROVE ReadInv(d)'
    <3>1. out'[d] = out[d]
      BY <1>3, <2>1, <2>3
    <3>2. QED
      BY <1>2, <2>2, <3>1
  <2>4. ReadInv(c)'
    <3>1. out[c] \in Seq(Unit) /\ arrived[c] \in Nat /\ arrived[c] <= Len(out[c])
      BY ReadTypes
    <3>2. out'[c] = SubSeq(out[c], 1, arrived[c])
      BY <1>3, <2>1
    <3>3. /\ SubSeq(out[c], 1, arrived[c]) \in Seq(Unit)
          /\ Len(SubSeq(out[c], 1, arrived[c])) = arrived[c]
          /\ \A i \in 1..arrived[c] : SubSeq(out[c], 1, arrived[c])[i] = out[c][i]
      BY <3>1, CutType
    <3>4. arrived[c] <= Len(out'[c])
      BY <3>1, <3>2, <3>3
    <3>5. QED
      BY <1>1, <2>2, <3>2, <3>3, <3>4, ReadKept
  <2>5. QED
    BY <2>3, <2>4
<1>4. CASE Arrive(c)
  <2>1. over[c] \in {"no", "closed"} /\ UNCHANGED <<out, over, eof>>
    BY <1>4 DEF Arrive
  <2>2. PICK n \in (arrived[c] + 1)..Len(out[c]) : arrived' = [arrived EXCEPT ![c] = n]
    BY <1>4 DEF Arrive
  <2>3. arrived[c] # Len(out[c])
    <3>1. arrived[c] \in Nat /\ Len(out[c]) \in Nat
      BY ReadTypes
    <3>2. QED
      BY <2>2, <3>1
  <2>4. ~Ended(c)
    BY <2>3 DEF SendInv, EofInv, Ended
  <2>5. ASSUME NEW d \in Conns, d # c PROVE Ended(d) => Ended(d)'
    <3>1. arrived'[d] = arrived[d]
      BY <2>2, <2>5 DEF TypeInv, StreamInv
    <3>2. QED
      BY <1>1, <2>1, <3>1 DEF Ended, Unread
  <2>6. QED
    BY <1>2, <2>1, <2>4, <2>5
<1>5. CASE EndArrives(c)
  <2>1. c \notin eof /\ eof' = eof \cup {c} /\ UNCHANGED out
        /\ arrived' = [arrived EXCEPT ![c] = Len(out[c])]
    BY <1>5 DEF EndArrives
  <2>2. ~Ended(c)
    BY <2>1 DEF Ended
  <2>3. ASSUME NEW d \in Conns, d # c PROVE Ended(d) => Ended(d)'
    <3>1. arrived'[d] = arrived[d]
      BY <2>1, <2>3 DEF TypeInv, StreamInv
    <3>2. QED
      BY <1>1, <2>1, <3>1 DEF Ended, Unread
  <2>4. QED
    BY <1>2, <2>1, <2>2, <2>3
<1>6. CASE FollowerDies(c)
  <2>1. UNCHANGED <<out, arrived, eof>>
    BY <1>6 DEF FollowerDies
  <2>2. ASSUME NEW d \in Conns PROVE Ended(d) => Ended(d)'
    BY <1>1, <2>1 DEF Ended, Unread
  <2>3. QED
    BY <1>2, <2>1, <2>2
<1>7. CASE Reset(c)
  BY <1>3, <1>7 DEF Reset
<1>8. CASE HostVanishes(c)
  BY <1>3, <1>8 DEF HostVanishes
<1>9. QED
  BY <1>4, <1>5, <1>6, <1>7, <1>8 DEF Deliver

(* While there is something to read the reader is in order. *)
LEMMA ReadsInOrder == ASSUME TypeInv, NEW c \in Conns, ReadInv(c), Unread(c) > 0 PROVE InOrder(c)
<1>1. ~Ended(c)
  BY DEF Ended
<1>2. QED
  BY <1>1 DEF ReadInv, CutShort, Over

LEMMA EpollWaitReads ==
    ASSUME TypeInv, \A d \in Conns : ReadInv(d), EpollWait PROVE \A d \in Conns : ReadInv(d)'
<1>1. UNCHANGED <<network, agg, taken, handled>>
  BY DEF EpollWait
<1>2. ASSUME NEW d \in Conns PROVE ReadInv(d)'
  <2>1. out[d] \in Seq(Unit) /\ arrived[d] <= Len(out[d])
    BY ReadTypes
  <2>2. Ended(d) => Ended(d)'
    BY <1>1 DEF Ended, Unread, network
  <2>3. out' = out
    BY <1>1 DEF network
  <2>4. QED
    BY <1>1, <2>1, <2>2, <2>3, ReadKept
<1>3. QED
  BY <1>2

LEMMA ReceiveReads ==
    ASSUME TypeInv, \A d \in Conns : ReadInv(d), NEW c \in Conns, Receive(c)
    PROVE  \A d \in Conns : ReadInv(d)'
<1>1. agg = Waiting /\ agg' = [Waiting EXCEPT !.at = "head", !.conn = c]
      /\ UNCHANGED <<out, arrived, eof, taken, handled>>
  BY DEF Receive, network
<1>2. agg'.at = "head" /\ agg'.conn = c /\ agg'.n = 0 /\ agg.conn = NoConn /\ agg.at = "wait"
  BY <1>1, AggHead, WaitingType
<1>3. ASSUME NEW d \in Conns PROVE agg.conn # d
  BY <1>2, NoConnAssumption
<1>4. ASSUME NEW d \in Conns, d # c PROVE ReadInv(d)'
  <2>1. agg.conn # d /\ agg'.conn # d
    BY <1>2, <1>3, <1>4
  <2>2. QED
    BY <1>1, <2>1, ReadOther
<1>5. ReadInv(c)'
  <2>1. From(c)' = From(c) /\ out' = out
    BY <1>1, <1>2, <1>3 DEF From, ReadOf
  <2>2. \A n : AllWhole(c, n) => AllWhole(c, n)'
    BY <1>1 DEF AllWhole
  <2>3. CASE InOrder(c)
    <3>1. Reading(c)'
      BY <1>2, Lens DEF Reading
    <3>2. InOrder(c)'
      BY <1>1, <2>1, <2>2, <2>3, <3>1 DEF InOrder
    <3>3. QED
      BY <3>2 DEF ReadInv
  <2>4. CASE Over(c)
    <3>1. Ended(c)'
      BY <1>1, <2>4 DEF Over, Ended, Unread
    <3>2. Over(c)'
      BY <1>1, <1>2, <2>2, <2>4, <3>1 DEF Over
    <3>3. QED
      BY <3>2 DEF ReadInv
  <2>5. ~CutShort(c)
    BY <1>3 DEF CutShort
  <2>6. QED
    BY <2>3, <2>4, <2>5 DEF ReadInv
<1>6. QED
  BY <1>4, <1>5

LEMMA CloseConnectionReads ==
    ASSUME TypeInv, \A d \in Conns : ReadInv(d), NEW c \in Conns, CloseConnection(c)
    PROVE  \A d \in Conns : ReadInv(d)'
<1>1. agg.at = "head" /\ agg.conn = c /\ agg.n = 0 /\ agg' = Waiting
      /\ UNCHANGED <<out, arrived, eof, taken, handled>>
  BY DEF CloseConnection, network
<1>2. ASSUME NEW d \in Conns PROVE agg'.conn # d
  BY <1>1, WaitingType, NoConnAssumption
<1>3. ASSUME NEW d \in Conns, d # c PROVE ReadInv(d)'
  <2>1. agg.conn # d /\ agg'.conn # d
    BY <1>1, <1>2, <1>3
  <2>2. QED
    BY <1>1, <2>1, ReadOther
<1>4. ReadInv(c)'
  <2>1. ReadOf(c) = 0 /\ ReadOf(c)' = 0
    BY <1>1, <1>2 DEF ReadOf
  <2>2. From(c)' = From(c) /\ out' = out
    BY <1>1, <2>1 DEF From
  <2>3. \A n : AllWhole(c, n) => AllWhole(c, n)'
    BY <1>1 DEF AllWhole
  <2>4. CASE InOrder(c)
    <3>1. InOrder(c)'
      BY <1>1, <1>2, <2>2, <2>3, <2>4 DEF InOrder
    <3>2. QED
      BY <3>1 DEF ReadInv
  <2>5. CASE Over(c)
    <3>1. Ended(c)'
      BY <1>1, <2>5 DEF Over, Ended, Unread
    <3>2. Over(c)'
      BY <1>1, <1>2, <2>3, <2>5, <3>1 DEF Over
    <3>3. QED
      BY <3>2 DEF ReadInv
  <2>6. ~CutShort(c)
    BY <1>1 DEF CutShort
  <2>7. QED
    BY <2>4, <2>5, <2>6 DEF ReadInv
<1>5. QED
  BY <1>3, <1>4

LEMMA RecvBodyReads ==
    ASSUME TypeInv, \A d \in Conns : ReadInv(d), NEW c \in Conns, RecvBody(c)
    PROVE  \A d \in Conns : ReadInv(d)'
<1> DEFINE k == Min({Unread(c), agg.len - agg.n})
<1>1. /\ agg.at = "body" /\ agg.conn = c /\ k > 0
      /\ taken' = [taken EXCEPT ![c] = @ + k] /\ agg' = [agg EXCEPT !.n = @ + k]
      /\ UNCHANGED <<out, arrived, eof, handled>>
  BY DEF RecvBody, network
<1>2. agg \in Agg /\ agg.n \in Nat /\ agg.len \in Nat
  BY ReadTypes DEF TypeInv, AggInv
<1>3. k \in Nat /\ k <= Unread(c) /\ k <= agg.len - agg.n
  <2>1. agg.len - agg.n \in Int
    BY <1>2
  <2>2. QED
    BY <1>1, <2>1, RecvMin
<1> HIDE DEF k
<1>4. Unread(c) > 0
  <2>1. Unread(c) \in Int
    BY ReadTypes DEF Unread
  <2>2. QED
    BY <1>1, <1>3, <2>1
<1>5. InOrder(c)
  BY <1>4, ReadsInOrder
<1>6. /\ agg'.at = "body" /\ agg'.conn = c /\ agg'.msg = agg.msg /\ agg'.n = agg.n + k
      /\ agg'.len = agg.len
  BY <1>1, <1>2, <1>3, AggMore
<1>7. taken'[c] = taken[c] + k /\ \A d \in Conns : d # c => taken'[d] = taken[d]
  BY <1>1 DEF TypeInv, StreamInv
<1>8. From(c)' = From(c)
  <2>1. ReadOf(c) = HeadLen + agg.n /\ ReadOf(c)' = HeadLen + (agg.n + k)
    BY <1>1, <1>6 DEF ReadOf
  <2>2. taken[c] \in Nat
    BY ReadTypes
  <2>3. taken[c] + k - (HeadLen + (agg.n + k)) = taken[c] - (HeadLen + agg.n)
    BY <1>2, <1>3, <2>2, Lens
  <2>4. From(c)' = taken'[c] - ReadOf(c)'
    BY DEF From
  <2>5. From(c)' = taken[c] + k - (HeadLen + (agg.n + k))
    BY <1>2, <1>3, <1>7, <2>1, <2>2, <2>4, Lens
  <2>6. From(c) = taken[c] - (HeadLen + agg.n)
    BY <2>1 DEF From
  <2>7. QED
    BY <2>3, <2>5, <2>6
<1>9. Reading(c)'
  <2>1. Reading(c)
    BY <1>1, <1>5 DEF InOrder
  <2>2. agg.n + k <= agg.len
    BY <1>2, <1>3
  <2>3. QED
    BY <1>1, <1>6, <1>8, <2>1, <2>2 DEF Reading
<1>10. ReadInv(c)'
  <2>1. AllWhole(c, Len(handled[c]))'
    BY <1>1, <1>5 DEF InOrder, AllWhole
  <2>2. Boundary(out[c], From(c), Len(handled[c]))'
    BY <1>1, <1>5, <1>8 DEF InOrder
  <2>3. QED
    BY <1>9, <2>1, <2>2 DEF ReadInv, InOrder
<1>11. ASSUME NEW d \in Conns, d # c PROVE ReadInv(d)'
  <2>1. agg.conn # d /\ agg'.conn # d /\ taken'[d] = taken[d]
    BY <1>1, <1>6, <1>7, <1>11
  <2>2. QED
    BY <1>1, <2>1, ReadOther
<1>12. QED
  BY <1>10, <1>11

LEMMA AnnouncedHead ==
    ASSUME NEW s, NEW upto, NEW at, upto >= HeadLen, at = upto - HeadLen + 1, s[at].at = 0
    PROVE  Announced(s, upto) = {[msg |-> s[at].msg, len |-> s[at].len]}
  BY DEF Announced

LEMMA RecvHeadReads ==
    ASSUME TypeInv, \A d \in Conns : SendInv(d), \A d \in Conns : ReadInv(d), NEW c \in Conns,
           RecvHead(c)
    PROVE  \A d \in Conns : ReadInv(d)'
<1> DEFINE k == Min({Unread(c), HeadLen - agg.n})
<1>1. /\ agg.at = "head" /\ agg.conn = c /\ k > 0
      /\ taken' = [taken EXCEPT ![c] = @ + k]
      /\ IF agg.n + k < HeadLen
         THEN agg' = [agg EXCEPT !.n = @ + k]
         ELSE \E head \in Announced(out[c], taken[c] + k) :
                agg' = [agg EXCEPT !.at = "body", !.n = 0, !.msg = head.msg, !.len = head.len]
      /\ UNCHANGED <<out, arrived, eof, handled>>
  BY DEF RecvHead, network
<1>2. agg \in Agg /\ agg.n \in Nat
  BY ReadTypes DEF TypeInv, AggInv
<1>3. k \in Nat /\ k <= Unread(c) /\ k <= HeadLen - agg.n
  <2>1. HeadLen - agg.n \in Int
    BY <1>2, Lens
  <2>2. QED
    BY <1>1, <2>1, RecvMin
<1> HIDE DEF k
<1>4. InOrder(c)
  <2>1. PICK u \in Int : u = Unread(c)
    BY ReadTypes DEF Unread
  <2>2. k > 0 /\ k <= u
    BY <1>1, <1>3, <2>1
  <2>3. u > 0
    BY <1>3, <2>2
  <2>4. QED
    BY <2>1, <2>3, ReadsInOrder
<1>5. taken'[c] = taken[c] + k /\ \A d \in Conns : d # c => taken'[d] = taken[d]
  BY <1>1 DEF TypeInv, StreamInv
<1>6. /\ taken[c] \in Nat /\ arrived[c] \in Nat /\ Len(out[c]) \in Nat /\ arrived[c] <= Len(out[c])
      /\ taken[c] + k <= arrived[c] /\ out[c] \in Seq(Unit) /\ Len(handled[c]) \in Nat
  BY <1>3, ReadTypes DEF Unread
<1>7. From(c) = taken[c] - agg.n /\ From(c)' = taken[c] + k - ReadOf(c)'
  <2>1. ReadOf(c) = agg.n
    BY <1>1 DEF ReadOf
  <2>2. From(c)' = taken'[c] - ReadOf(c)'
    BY DEF From
  <2>3. ReadOf(c)' \in Nat
    <3>1. agg' \in Agg
      BY RecvHeadType DEF TypeInv, AggInv
    <3>2. agg'.n \in Nat
      BY <3>1 DEF Agg
    <3>3. QED
      BY <3>2, Lens DEF ReadOf
  <2>4. QED
    BY <1>2, <1>3, <1>5, <1>6, <2>1, <2>2, <2>3 DEF From
<1>8. Boundary(out[c], From(c), Len(handled[c]))
  BY <1>4 DEF InOrder
<1>9. From(c) \in 0..Len(out[c])
  BY <1>8 DEF Boundary
<1>10. agg'.conn = c /\ From(c)' = From(c) /\ Reading(c)'
  <2>1. CASE agg.n + k < HeadLen
    <3>1. agg'.at = "head" /\ agg'.conn = c /\ agg'.n = agg.n + k
      BY <1>1, <1>2, <1>3, <2>1, AggMore
    <3>2. ReadOf(c)' = agg.n + k
      BY <3>1 DEF ReadOf
    <3>3. From(c)' = From(c)
      BY <1>2, <1>3, <1>6, <1>7, <3>2
    <3>4. Reading(c)'
      BY <2>1, <3>1 DEF Reading
    <3>5. QED
      BY <3>1, <3>3, <3>4
  <2>2. CASE ~(agg.n + k < HeadLen)
    <3>1. PICK head \in Announced(out[c], taken[c] + k) :
              agg' = [agg EXCEPT !.at = "body", !.n = 0, !.msg = head.msg, !.len = head.len]
      BY <1>1, <2>2
    <3>2. agg.n + k = HeadLen /\ HeadLen \in Nat \ {0}
      BY <1>2, <1>3, <2>2, Lens
    <3>3. taken[c] + k = From(c) + HeadLen /\ From(c) < Len(out[c]) /\ From(c) \in Nat
      <4>1. From(c) \in Nat
        BY <1>6, <1>9
      <4>2. taken[c] + k = From(c) + HeadLen
        BY <1>2, <1>3, <1>6, <1>7, <3>2
      <4>3. QED
        BY <1>3, <1>6, <3>2, <4>1, <4>2
    <3>4. Chain(out[c])
      BY DEF SendInv
    <3>5. out[c][From(c) + 1].at = 0 /\ out[c][From(c) + 1].msg = Len(handled[c]) + 1
      BY <1>6, <1>8, <3>3, <3>4, BoundaryNext
    <3>6. head = [msg |-> out[c][From(c) + 1].msg, len |-> out[c][From(c) + 1].len]
      <4>1. PICK p, upto : p \in Nat /\ p = From(c) /\ upto = taken[c] + k
        BY <3>3
      <4>2. upto = p + HeadLen
        BY <3>3, <4>1
      <4>3. p \in Nat /\ HeadLen \in Nat
        BY <3>2, <4>1
      <4>4. upto >= HeadLen /\ p + 1 = upto - HeadLen + 1
        BY <4>2, <4>3
      <4>5. out[c][p + 1].at = 0
        BY <3>5, <4>1
      <4>6. Announced(out[c], upto) = {[msg |-> out[c][p + 1].msg, len |-> out[c][p + 1].len]}
        BY <4>4, <4>5, AnnouncedHead
      <4>7. head \in Announced(out[c], upto)
        BY <3>1, <4>1
      <4>8. head = [msg |-> out[c][p + 1].msg, len |-> out[c][p + 1].len]
        BY <4>6, <4>7
      <4>9. QED
        BY <4>1, <4>8
    <3>7. head.msg = Len(handled[c]) + 1 /\ head.len = out[c][From(c) + 1].len
      BY <3>5, <3>6
    <3>8. head.msg \in Nat /\ head.len \in Lengths
      <4>1. taken[c] + k \in Nat /\ taken[c] + k <= Len(out[c])
        BY <1>3, <1>6
      <4>2. QED
        BY <1>6, <4>1, AnnouncedType
    <3>9. agg'.at = "body" /\ agg'.conn = agg.conn /\ agg'.msg = head.msg /\ agg'.n = 0
          /\ agg'.len = head.len
      <4>1. PICK m \in Nat, len \in Lengths : m = head.msg /\ len = head.len
        BY <3>8
      <4>2. agg' = [agg EXCEPT !.at = "body", !.n = 0, !.msg = m, !.len = len]
        BY <3>1, <4>1
      <4>3. agg'.at = "body" /\ agg'.conn = agg.conn /\ agg'.msg = m /\ agg'.n = 0
            /\ agg'.len = len
        BY <1>2, <4>1, <4>2 DEF Agg
      <4>4. QED
        BY <4>1, <4>3
    <3>10. ReadOf(c)' = HeadLen + 0
      BY <1>1, <3>9 DEF ReadOf
    <3>11. From(c)' = From(c)
      BY <1>3, <1>6, <1>7, <3>2, <3>3, <3>10
    <3>12. 0 <= head.len
      <4>1. head.len \in Nat
        BY <3>8, Lens
      <4>2. QED
        BY <4>1
    <3>13. Reading(c)'
      BY <1>1, <3>7, <3>9, <3>11, <3>12 DEF Reading
    <3>14. QED
      BY <1>1, <3>9, <3>11, <3>13
  <2>3. QED
    BY <2>1, <2>2
<1>11. ReadInv(c)'
  <2>1. AllWhole(c, Len(handled[c]))'
    BY <1>1, <1>4 DEF InOrder, AllWhole
  <2>2. Boundary(out[c], From(c), Len(handled[c]))'
    BY <1>1, <1>8, <1>10
  <2>3. QED
    BY <1>10, <2>1, <2>2 DEF ReadInv, InOrder
<1>12. ASSUME NEW d \in Conns, d # c PROVE ReadInv(d)'
  <2>1. agg.conn # d /\ agg'.conn # d /\ taken'[d] = taken[d]
    BY <1>1, <1>5, <1>10, <1>12
  <2>2. QED
    BY <1>1, <2>1, ReadOther
<1>13. QED
  BY <1>11, <1>12

LEMMA ShortHeadReads ==
    ASSUME TypeInv, \A d \in Conns : ReadInv(d), NEW c \in Conns, ShortHead(c)
    PROVE  \A d \in Conns : ReadInv(d)'
<1>1. agg.at = "head" /\ agg.conn = c /\ agg.n > 0 /\ Ended(c)
      /\ UNCHANGED <<out, arrived, eof, taken, handled>>
  BY DEF ShortHead, network
<1>2. PICK len \in {0, Huge} : agg' = [agg EXCEPT !.at = "body", !.n = 0, !.len = len]
  BY DEF ShortHead
<1>3. agg \in Agg /\ agg.msg = 0
  BY <1>1 DEF TypeInv, AggInv
<1>4. agg'.at = "body" /\ agg'.conn = c /\ agg'.msg = 0
  <2>1. len \in Lengths
    BY Lens
  <2>2. QED
    BY <1>1, <1>2, <1>3, <2>1, AggShort
<1>5. agg.n # 0
  BY <1>1
<1>6. ~CutShort(c) /\ ~Over(c)
  BY <1>1, <1>5 DEF CutShort, Over
<1>7. AllWhole(c, Len(handled[c]))'
  BY <1>1, <1>6 DEF ReadInv, InOrder, AllWhole
<1>8. Ended(c)'
  BY <1>1 DEF Ended, Unread
<1>9. ReadInv(c)'
  BY <1>4, <1>7, <1>8 DEF ReadInv, CutShort
<1>10. ASSUME NEW d \in Conns, d # c PROVE ReadInv(d)'
  <2>1. agg.conn # d /\ agg'.conn # d
    BY <1>1, <1>4, <1>10
  <2>2. QED
    BY <1>1, <2>1, ReadOther
<1>11. QED
  BY <1>9, <1>10

LEMMA HandleReads ==
    ASSUME TypeInv, \A d \in Conns : SendInv(d), \A d \in Conns : ReadInv(d), NEW c \in Conns,
           Handle(c)
    PROVE  \A d \in Conns : ReadInv(d)'
<1> DEFINE h == [msg |-> agg.msg, whole |-> IsWhole(c)]
           N == Len(handled[c])
<1>1. /\ agg.at = "body" /\ agg.conn = c /\ (agg.n = agg.len \/ Ended(c))
      /\ handled' = [handled EXCEPT ![c] = Append(@, h)] /\ agg' = Waiting
      /\ UNCHANGED <<out, arrived, eof, taken>>
  BY DEF Handle
<1>2. ASSUME NEW d \in Conns PROVE agg'.conn # d
  BY <1>1, WaitingType, NoConnAssumption
<1>3. /\ handled[c] \in Seq([msg : Nat, whole : BOOLEAN]) /\ N \in Nat
      /\ handled'[c] = Append(handled[c], h)
      /\ \A d \in Conns : d # c => handled'[d] = handled[d]
  BY <1>1, ReadTypes DEF TypeInv, AggInv
<1>4. h.msg = agg.msg /\ h.whole = IsWhole(c)
  OBVIOUS
<1>5. h \in [msg : Nat, whole : BOOLEAN]
  <2>1. agg.msg \in Nat
    BY ReadTypes
  <2>2. IsWhole(c) \in BOOLEAN
    BY DEF IsWhole
  <2>3. QED
    BY <2>1, <2>2
<1> HIDE DEF h
<1>6. Len(handled'[c]) = N + 1 /\ handled'[c][N + 1] = h
      /\ \A i \in 1..N : handled'[c][i] = handled[c][i]
  BY <1>3, <1>5, AppendProperties
<1> HIDE DEF N
<1>7. AllWhole(c, N)
  BY <1>1 DEF ReadInv, InOrder, CutShort, Over, N
<1>8. \A i \in 1..N : handled'[c][i] = [msg |-> i, whole |-> TRUE]
  BY <1>6, <1>7 DEF AllWhole
<1>9. ASSUME Ended(c) PROVE Over(c)'
  <2>1. Ended(c)'
    BY <1>1, <1>9 DEF Ended, Unread
  <2>2. AllWhole(c, Len(handled[c]) - 1)'
    <3>1. Len(handled'[c]) - 1 = N
      BY <1>3, <1>6
    <3>2. QED
      BY <1>8, <3>1 DEF AllWhole
  <2>3. Len(handled'[c]) > 0
    BY <1>3, <1>6
  <2>4. QED
    BY <1>2, <2>1, <2>2, <2>3 DEF Over
<1>10. ASSUME ~Ended(c) PROVE InOrder(c)'
  <2>1. InOrder(c) /\ agg.n = agg.len
    BY <1>1, <1>10 DEF ReadInv, CutShort, Over
  <2>2. Boundary(out[c], From(c), N) /\ agg.msg = N + 1 /\ agg.len = out[c][From(c) + 1].len
    BY <1>1, <2>1 DEF InOrder, Reading, N
  <2>3. /\ taken[c] \in Nat /\ Len(out[c]) \in Nat /\ taken[c] <= Len(out[c]) /\ out[c] \in Seq(Unit)
        /\ agg.n \in Nat /\ agg.len \in Nat
    BY ReadTypes
  <2>4. From(c) = taken[c] - (HeadLen + agg.len) /\ HeadLen \in Nat \ {0}
    BY <1>1, <2>1, Lens DEF From, ReadOf
  <2>5. From(c) \in Nat /\ From(c) < Len(out[c])
    <3>1. From(c) \in 0..Len(out[c])
      BY <2>2 DEF Boundary
    <3>2. QED
      BY <2>3, <2>4, <3>1
  <2>6. Chain(out[c])
    BY DEF SendInv
  <2>7. From(c) + 1 \in 1..Len(out[c]) /\ out[c][From(c) + 1].at = 0
        /\ out[c][From(c) + 1].msg = N + 1
    BY <1>3, <2>2, <2>3, <2>5, <2>6, BoundaryNext
  <2>8. PICK e \in Nat : e = HeadLen + agg.len
    BY <2>3, <2>4
  <2>9. e = HeadLen + out[c][From(c) + 1].len /\ From(c) + e = taken[c]
    <3>1. e = HeadLen + out[c][From(c) + 1].len
      BY <2>2, <2>8
    <3>2. From(c) + e = taken[c]
      BY <2>3, <2>4, <2>5, <2>8
    <3>3. QED
      BY <3>1, <3>2
  <2>10. e <= HeadLen + out[c][From(c) + 1].len /\ From(c) + e <= Len(out[c])
    BY <2>3, <2>8, <2>9
  <2>11. /\ \A i \in (From(c) + 1)..(From(c) + e) : out[c][i].msg = out[c][From(c) + 1].msg
         /\ Boundary(out[c], From(c) + e, out[c][From(c) + 1].msg)
    BY <2>3, <2>5, <2>6, <2>7, <2>8, <2>9, <2>10, WholeMessage
  <2>12. Boundary(out[c], taken[c], N + 1)
    BY <2>7, <2>9, <2>11
  <2>13. IsWhole(c)
    <3>1. \A i \in (taken[c] - agg.len + 1)..taken[c] : out[c][i].msg = agg.msg
      <4>1. ASSUME NEW i \in (taken[c] - agg.len + 1)..taken[c] PROVE out[c][i].msg = agg.msg
        <5>1. i \in (From(c) + 1)..(From(c) + e)
          <6>1. From(c) + e = taken[c]
            BY <2>9
          <6>2. From(c) + 1 <= taken[c] - agg.len + 1
            BY <2>3, <2>4, <2>5
          <6>3. QED
            BY <2>3, <2>5, <6>1, <6>2
        <5>2. QED
          BY <2>2, <2>7, <2>11, <5>1
      <4>2. QED
        BY <4>1
    <3>2. agg.msg > 0
      BY <1>3, <2>2
    <3>3. QED
      BY <2>1, <3>1, <3>2 DEF IsWhole
  <2>14. h = [msg |-> N + 1, whole |-> TRUE]
    BY <2>2, <2>13 DEF h
  <2>15. AllWhole(c, Len(handled[c]))'
    <3>1. ASSUME NEW i \in 1..(N + 1) PROVE handled'[c][i] = [msg |-> i, whole |-> TRUE]
      <4>1. CASE i = N + 1
        BY <1>6, <2>14, <4>1
      <4>2. CASE i # N + 1
        <5>1. i \in 1..N
          BY <1>3, <4>2
        <5>2. QED
          BY <1>6, <1>7, <5>1 DEF AllWhole
      <4>3. QED
        BY <4>1, <4>2
    <3>2. QED
      BY <1>6, <3>1 DEF AllWhole
  <2>16. From(c)' = taken[c]
    <3>1. ReadOf(c)' = 0
      BY <1>2 DEF ReadOf
    <3>2. From(c)' = taken'[c] - 0
      BY <3>1 DEF From
    <3>3. QED
      BY <1>1, <2>3, <3>2
  <2>17. Boundary(out[c], From(c), Len(handled[c]))'
    BY <1>1, <1>6, <2>12, <2>16
  <2>18. QED
    BY <1>2, <2>15, <2>17 DEF InOrder
<1>11. ReadInv(c)'
  BY <1>9, <1>10 DEF ReadInv
<1>12. ASSUME NEW d \in Conns, d # c PROVE ReadInv(d)'
  <2>1. agg.conn # d /\ agg'.conn # d /\ handled'[d] = handled[d]
    BY <1>1, <1>2, <1>3, <1>12
  <2>2. QED
    BY <1>1, <2>1, ReadOther
<1>13. QED
  BY <1>11, <1>12

LEMMA StepRead ==
    ASSUME TypeInv, \A d \in Conns : SendInv(d), \A d \in Conns : ReadInv(d), [Next]_vars
    PROVE  \A d \in Conns : ReadInv(d)'
<1>1. CASE UNCHANGED vars
  <2>1. UNCHANGED <<agg, taken, handled, out, arrived, eof>>
    BY <1>1 DEF vars, network, aggregator
  <2>2. ASSUME NEW d \in Conns PROVE ReadInv(d)'
    <3>1. out[d] \in Seq(Unit) /\ arrived[d] <= Len(out[d])
      BY ReadTypes
    <3>2. Ended(d) => Ended(d)'
      BY <2>1 DEF Ended, Unread
    <3>3. QED
      BY <2>1, <3>1, <3>2, ReadKept
  <2>3. QED
    BY <2>2
<1>2. CASE AggregatorNext
  BY <1>2, EpollWaitReads, ReceiveReads, RecvHeadReads, RecvBodyReads, CloseConnectionReads,
     ShortHeadReads, HandleReads DEF AggregatorNext
<1>3. QED
  BY <1>1, <1>2, FollowerReads, NetworkReads DEF Next

LEMMA ReadImplies == (\A c \in Conns : ReadInv(c)) /\ TypeInv => WholeOrLast
<1> SUFFICES ASSUME \A c \in Conns : ReadInv(c), TypeInv, NEW c \in Conns, NEW i \in DOMAIN handled[c]
             PROVE  \/ handled[c][i] = [msg |-> i, whole |-> TRUE]
                    \/ i = Len(handled[c]) /\ Ended(c)
  BY DEF WholeOrLast
<1>1. Len(handled[c]) \in Nat /\ i \in 1..Len(handled[c])
  <2>1. handled[c] \in Seq([msg : Nat, whole : BOOLEAN])
    BY DEF TypeInv, AggInv
  <2>2. QED
    BY <2>1, LenProperties
<1>2. CASE InOrder(c) \/ CutShort(c)
  BY <1>1, <1>2 DEF InOrder, CutShort, AllWhole
<1>3. CASE Over(c)
  <2>1. i \in 1..(Len(handled[c]) - 1) \/ i = Len(handled[c])
    BY <1>1
  <2>2. QED
    BY <1>3, <2>1 DEF Over, AllWhole
<1>4. QED
  BY <1>2, <1>3 DEF ReadInv

StreamsInv == TypeInv /\ (\A c \in Conns : SendInv(c)) /\ (\A c \in Conns : ReadInv(c))

(* The inductive invariant: types, the shape of what is written, and what    *)
(* the reader has of it.                                                     *)
THEOREM StreamsInvariant == Spec => []StreamsInv
<1>1. Init => StreamsInv
  BY InitType, InitSend, InitRead DEF StreamsInv
<1>2. StreamsInv /\ [Next]_vars => StreamsInv'
  <2>1. SUFFICES ASSUME StreamsInv, [Next]_vars PROVE StreamsInv'
    OBVIOUS
  <2>2. TypeInv /\ (\A c \in Conns : SendInv(c)) /\ (\A c \in Conns : ReadInv(c))
    BY <2>1 DEF StreamsInv
  <2>3. TypeInv'
    BY <2>1, <2>2, StepType
  <2>4. \A c \in Conns : SendInv(c)'
    BY <2>1, <2>2, StepSend
  <2>5. \A c \in Conns : ReadInv(c)'
    BY <2>1, <2>2, StepRead
  <2>6. QED
    BY <2>3, <2>4, <2>5 DEF StreamsInv
<1>3. QED
  BY <1>1, <1>2, PTL DEF Spec

(* A handler is called with the messages of a connection one by one, each    *)
(* whole and in the order they were written, in spite of signal handlers     *)
(* that send, of partial sends and of arrivals in pieces of any size; only   *)
(* the last before the end of the connection may be cut short.               *)
THEOREM WholeOrLastHolds == Spec => []WholeOrLast
<1>1. StreamsInv => WholeOrLast
  BY ReadImplies DEF StreamsInv
<1>2. QED
  BY <1>1, StreamsInvariant, PTL

----------------------------------------------------------------------------
(* The queue of messages. *)

Done(c) == Len(handled[c]) - IF c \in Spoilt THEN 1 ELSE 0

LEMMA WholeNotSpoilt ==
    ASSUME TypeInv, NEW c \in Conns, AllWhole(c, Len(handled[c]))
    PROVE  c \notin Spoilt
<1>1. \A i \in DOMAIN handled[c] : handled[c][i].whole
  <2>1. handled[c] \in Seq([msg : Nat, whole : BOOLEAN])
    BY DEF TypeInv, AggInv
  <2>2. DOMAIN handled[c] = 1..Len(handled[c])
    BY <2>1, LenProperties
  <2>3. ASSUME NEW i \in DOMAIN handled[c] PROVE handled[c][i].whole
    <3>1. handled[c][i] = [msg |-> i, whole |-> TRUE]
      BY <2>2 DEF AllWhole
    <3>2. handled[c][i].whole = TRUE
      BY <3>1
    <3>3. QED
      BY <3>2, Zenon
  <2>4. QED
    BY <2>3
<1>2. QED
  BY <1>1 DEF Spoilt

LEMMA LastOfStream ==
    ASSUME NEW s \in Seq(Unit), Chain(s), NEW i \in 1..Len(s)
    PROVE  s[i].msg <= LastMsg(s) /\ LastMsg(s) = s[Len(s)].msg
<1>1. Len(s) \in Nat /\ Len(s) \in 1..Len(s) /\ s # << >>
  BY LenProperties, EmptySeq
<1>2. s[i].msg <= s[Len(s)].msg
  BY <1>1 DEF Chain
<1>3. QED
  BY <1>1, <1>2 DEF LastMsg

(* What is cut off was not handled. *)
LEMMA CutLoses ==
    ASSUME TypeInv, NEW c \in Conns, SendInv(c), ReadInv(c), over[c] = "no"
    PROVE  LastMsg(SubSeq(out[c], 1, arrived[c])) \in Done(c)..LastMsg(out[c])
<1> DEFINE t == SubSeq(out[c], 1, arrived[c])
<1>1. ~Ended(c)
  BY DEF SendInv, EofInv, Ended
<1>2. InOrder(c)
  BY <1>1 DEF ReadInv, CutShort, Over
<1>3. /\ ReadOf(c) \in Nat /\ taken[c] \in Nat /\ arrived[c] \in Nat /\ Len(out[c]) \in Nat
      /\ taken[c] <= arrived[c] /\ arrived[c] <= Len(out[c]) /\ out[c] \in Seq(Unit)
      /\ Len(handled[c]) \in Nat
  BY ReadTypes
<1>4. Done(c) = Len(handled[c])
  <2>1. c \notin Spoilt
    BY <1>2, WholeNotSpoilt DEF InOrder
  <2>2. QED
    BY <1>3, <2>1 DEF Done
<1>5. Chain(out[c]) /\ Boundary(out[c], From(c), Len(handled[c]))
  BY <1>2 DEF InOrder, SendInv
<1>6. From(c) \in 0..arrived[c]
  <2>1. From(c) \in 0..Len(out[c])
    BY <1>5 DEF Boundary
  <2>2. QED
    BY <1>3, <2>1 DEF From
<1>7. t \in Seq(Unit) /\ Len(t) = arrived[c] /\ \A i \in 1..arrived[c] : t[i] = out[c][i]
  BY <1>3, CutType
<1>8. LastMsg(t) \in Nat /\ LastMsg(out[c]) \in Nat
  BY <1>3, <1>7, LastMsgType
<1>9. Chain(t)
  BY <1>3, <1>5, ChainPrefix
<1> HIDE DEF t
<1>10. CASE arrived[c] = 0
  <2>1. t = << >>
    BY <1>7, <1>10, EmptySeq
  <2>2. LastMsg(t) = 0
    BY <2>1 DEF LastMsg
  <2>3. Len(handled[c]) = 0
    BY <1>5, <1>6, <1>10 DEF Boundary
  <2>4. QED
    BY <1>4, <1>8, <2>2, <2>3 DEF t
<1>11. CASE arrived[c] # 0
  <2>1. arrived[c] \in 1..Len(t) /\ arrived[c] \in 1..Len(out[c])
    BY <1>3, <1>7, <1>11
  <2>2. LastMsg(t) = t[arrived[c]].msg
    BY <1>7, <1>9, <2>1, LastOfStream
  <2>3. out[c][arrived[c]].msg <= LastMsg(out[c])
    BY <1>3, <1>5, <2>1, LastOfStream
  <2>4. t[arrived[c]] = out[c][arrived[c]]
    BY <1>7, <2>1
  <2>5. Len(handled[c]) <= LastMsg(t)
    <3>1. CASE From(c) = 0
      <4>1. Len(handled[c]) = 0
        BY <1>5, <3>1 DEF Boundary
      <4>2. QED
        BY <1>8, <4>1
    <3>2. CASE From(c) # 0
      <4>1. From(c) \in 1..Len(t)
        BY <1>3, <1>6, <1>7, <3>2
      <4>2. t[From(c)].msg <= LastMsg(t)
        BY <1>7, <1>9, <4>1, LastOfStream
      <4>3. t[From(c)] = out[c][From(c)]
        BY <1>7, <4>1
      <4>4. out[c][From(c)].msg = Len(handled[c])
        BY <1>5, <3>2 DEF Boundary
      <4>5. QED
        BY <4>2, <4>3, <4>4
    <3>3. QED
      BY <3>1, <3>2
  <2>6. LastMsg(t) <= LastMsg(out[c])
    BY <2>2, <2>3, <2>4
  <2>7. QED
    BY <1>3, <1>4, <1>8, <2>5, <2>6 DEF t
<1>12. QED
  BY <1>10, <1>11

(* A handler is called with the next message, or, once, with a spoilt one. *)
LEMMA HandleTakes ==
    ASSUME TypeInv, NEW c \in Conns, SendInv(c), ReadInv(c), Handle(c)
    PROVE  /\ \A d \in Conns : d # c => handled'[d] = handled[d]
           /\ Len(handled[c]) \in Nat /\ Len(handled'[c]) = Len(handled[c]) + 1
           /\ c \notin Spoilt
           /\ c \notin Spoilt' => Len(handled[c]) < LastMsg(out[c])
<1> DEFINE h == [msg |-> agg.msg, whole |-> IsWhole(c)]
           N == Len(handled[c])
<1>1. agg.at = "body" /\ agg.conn = c /\ handled' = [handled EXCEPT ![c] = Append(@, h)]
  BY DEF Handle
<1>2. /\ handled[c] \in Seq([msg : Nat, whole : BOOLEAN]) /\ N \in Nat
      /\ handled'[c] = Append(handled[c], h)
      /\ \A d \in Conns : d # c => handled'[d] = handled[d]
  BY <1>1, ReadTypes DEF TypeInv, AggInv
<1>3. h \in [msg : Nat, whole : BOOLEAN] /\ h.whole = IsWhole(c)
  <2>1. agg.msg \in Nat
    BY ReadTypes
  <2>2. IsWhole(c) \in BOOLEAN
    BY DEF IsWhole
  <2>3. QED
    BY <2>1, <2>2
<1> HIDE DEF h
<1>4. Len(handled'[c]) = N + 1 /\ handled'[c][N + 1] = h /\ handled'[c] \in Seq([msg : Nat, whole : BOOLEAN])
  BY <1>2, <1>3, AppendProperties
<1>5. ~Over(c)
  BY <1>1 DEF Over
<1>6. AllWhole(c, N)
  BY <1>5 DEF ReadInv, InOrder, CutShort
<1>7. c \notin Spoilt
  BY <1>6, WholeNotSpoilt
<1>8. ASSUME c \notin Spoilt' PROVE N < LastMsg(out[c])
  <2>1. h.whole
    <3>1. N + 1 \in DOMAIN handled'[c]
      BY <1>2, <1>4, LenProperties
    <3>2. handled'[c][N + 1].whole
      BY <1>8, <3>1 DEF Spoilt
    <3>3. QED
      BY <1>4, <3>2
  <2>2. agg.msg > 0
    BY <1>3, <2>1 DEF IsWhole
  <2>3. InOrder(c)
    <3>1. agg.msg # 0
      BY <2>2
    <3>2. QED
      BY <1>5, <3>1 DEF ReadInv, CutShort
  <2>4. Boundary(out[c], From(c), N) /\ Chain(out[c])
    BY <2>3 DEF InOrder, SendInv
  <2>5. /\ taken[c] \in Nat /\ Len(out[c]) \in Nat /\ taken[c] <= Len(out[c]) /\ out[c] \in Seq(Unit)
        /\ agg.n \in Nat
    BY ReadTypes
  <2>6. From(c) = taken[c] - (HeadLen + agg.n) /\ HeadLen \in Nat \ {0}
    BY <1>1, Lens DEF From, ReadOf
  <2>7. From(c) \in Nat /\ From(c) < Len(out[c])
    <3>1. From(c) \in 0..Len(out[c])
      BY <2>4 DEF Boundary
    <3>2. QED
      BY <2>5, <2>6, <3>1
  <2>8. From(c) + 1 \in 1..Len(out[c]) /\ out[c][From(c) + 1].msg = N + 1
    BY <1>2, <2>4, <2>5, <2>7, BoundaryNext
  <2>9. N + 1 <= LastMsg(out[c])
    BY <2>4, <2>5, <2>8, LastOfStream
  <2>10. QED
    <3>1. LastMsg(out[c]) \in Nat
      BY <2>5, LastMsgType
    <3>2. QED
      BY <1>2, <2>9, <3>1
<1>9. QED
  BY <1>2, <1>4, <1>7, <1>8

Written   == [c \in Conns |-> LastMsg(out[c])]
DoneWhole == [c \in Conns |-> Done(c)]

LEMMA QueueStutters ==
    ASSUME UNCHANGED <<out, handled>>
    PROVE  UNCHANGED <<Written, DoneWhole, Spoilt>>
<1>1. Spoilt' = Spoilt
  BY DEF Spoilt
<1>2. QED
  BY <1>1 DEF Written, DoneWhole, Done

LEMMA QueueWrites ==
    ASSUME TypeInv, \A d \in Conns : SendInv(d), NEW c \in Conns, SendSome(c)
    PROVE  \/ UNCHANGED <<Written, DoneWhole, Spoilt>>
           \/ Written' = [Written EXCEPT ![c] = @ + 1] /\ UNCHANGED <<DoneWhole, Spoilt>>
<1>1. handled' = handled
  BY DEF SendSome, aggregator
<1>2. UNCHANGED <<DoneWhole, Spoilt>>
  <2>1. Spoilt' = Spoilt
    BY <1>1 DEF Spoilt
  <2>2. QED
    BY <1>1, <2>1 DEF DoneWhole, Done
<1>3. /\ \A d \in Conns : d # c => out'[d] = out[d]
      /\ LastMsg(out'[c]) = LastMsg(out[c]) + 1 \/ LastMsg(out'[c]) = LastMsg(out[c])
  BY SendSomeSends
<1>4. CASE LastMsg(out'[c]) = LastMsg(out[c]) + 1
  <2>1. Written' = [Written EXCEPT ![c] = @ + 1]
    BY <1>3, <1>4 DEF Written
  <2>2. QED
    BY <1>2, <2>1
<1>5. CASE LastMsg(out'[c]) = LastMsg(out[c])
  <2>1. Written' = Written
    BY <1>3, <1>5 DEF Written
  <2>2. QED
    BY <1>2, <2>1
<1>6. QED
  BY <1>3, <1>4, <1>5

LEMMA QueueLoses ==
    ASSUME TypeInv, \A d \in Conns : SendInv(d), \A d \in Conns : ReadInv(d), NEW c \in Conns,
           over[c] = "no", out' = [out EXCEPT ![c] = SubSeq(@, 1, arrived[c])], handled' = handled
    PROVE  /\ Written' \in {[Written EXCEPT ![c] = n] : n \in DoneWhole[c]..Written[c]}
           /\ UNCHANGED <<DoneWhole, Spoilt>>
<1>1. UNCHANGED <<DoneWhole, Spoilt>>
  <2>1. Spoilt' = Spoilt
    BY DEF Spoilt
  <2>2. QED
    BY <2>1 DEF DoneWhole, Done
<1>2. out'[c] = SubSeq(out[c], 1, arrived[c]) /\ \A d \in Conns : d # c => out'[d] = out[d]
  BY DEF TypeInv, StreamInv
<1>3. LastMsg(out'[c]) \in Done(c)..LastMsg(out[c])
  BY <1>2, CutLoses
<1>4. Written[c] = LastMsg(out[c]) /\ DoneWhole[c] = Done(c)
  BY DEF Written, DoneWhole
<1>5. Written' = [Written EXCEPT ![c] = LastMsg(out'[c])]
  <2> DEFINE n == LastMsg(out'[c])
  <2>1. ASSUME NEW d \in Conns, d # c PROVE LastMsg(out'[d]) = Written[d]
    BY <1>2, <2>1 DEF Written
  <2>2. Written' = [d \in Conns |-> LastMsg(out'[d])]
    BY DEF Written
  <2>3. LastMsg(out'[c]) = n
    OBVIOUS
  <2> HIDE DEF n
  <2>4. Written' = [d \in Conns |-> IF d = c THEN n ELSE Written[d]]
    BY <2>1, <2>2, <2>3
  <2>5. Written = [d \in Conns |-> Written[d]]
    BY DEF Written
  <2>6. Written' = [Written EXCEPT ![c] = n]
    BY <2>4, <2>5
  <2>7. QED
    BY <2>6 DEF n
<1>6. QED
  BY <1>1, <1>3, <1>4, <1>5

LEMMA QueueHandles ==
    ASSUME TypeInv, NEW c \in Conns, SendInv(c), ReadInv(c), Handle(c)
    PROVE  /\ Written' = Written /\ c \notin Spoilt
           /\ \/ /\ DoneWhole[c] < Written[c] /\ Spoilt' = Spoilt
                 /\ DoneWhole' = [DoneWhole EXCEPT ![c] = @ + 1]
              \/ Spoilt' = Spoilt \cup {c} /\ DoneWhole' = DoneWhole
<1>1. out' = out
  BY DEF Handle
<1>2. /\ \A d \in Conns : d # c => handled'[d] = handled[d]
      /\ Len(handled[c]) \in Nat /\ Len(handled'[c]) = Len(handled[c]) + 1
      /\ c \notin Spoilt
      /\ c \notin Spoilt' => Len(handled[c]) < LastMsg(out[c])
  BY HandleTakes
<1>3. \A d \in Conns : d # c => (d \in Spoilt' <=> d \in Spoilt)
  BY <1>2 DEF Spoilt
<1>4. Spoilt \subseteq Conns /\ Spoilt' \subseteq Conns
  BY DEF Spoilt
<1>5. Written' = Written
  BY <1>1 DEF Written
<1>6. \A d \in Conns : d # c => Done(d)' = Done(d)
  BY <1>2, <1>3 DEF Done
<1>7. Done(c) = Len(handled[c])
  BY <1>2 DEF Done
<1>8. CASE c \in Spoilt'
  <2>1. Done(c)' = Done(c)
    BY <1>2, <1>7, <1>8 DEF Done
  <2>2. DoneWhole' = DoneWhole
    BY <1>6, <2>1 DEF DoneWhole
  <2>3. Spoilt' = Spoilt \cup {c}
    BY <1>3, <1>4, <1>8
  <2>4. QED
    BY <1>2, <1>5, <2>2, <2>3
<1>9. CASE c \notin Spoilt'
  <2>1. Done(c)' = Done(c) + 1
    BY <1>2, <1>7, <1>9 DEF Done
  <2>2. DoneWhole' = [DoneWhole EXCEPT ![c] = @ + 1]
    BY <1>6, <2>1 DEF DoneWhole
  <2>3. Spoilt' = Spoilt
    BY <1>2, <1>3, <1>4, <1>9
  <2>4. DoneWhole[c] < Written[c]
    BY <1>2, <1>7, <1>9 DEF DoneWhole, Written
  <2>5. QED
    BY <1>2, <1>5, <2>2, <2>3, <2>4
<1>10. QED
  BY <1>8, <1>9

LEMMA InitQueue == Init => Queue!QInit
<1> SUFFICES ASSUME Init PROVE Queue!QInit
  OBVIOUS
<1>1. out = [c \in Conns |-> << >>] /\ handled = [c \in Conns |-> << >>]
  BY DEF Init
<1>2. Spoilt = {}
  <2>1. ASSUME NEW c \in Conns PROVE c \notin Spoilt
    <3>1. DOMAIN handled[c] = {}
      BY <1>1
    <3>2. QED
      BY <3>1 DEF Spoilt
  <2>2. QED
    BY <2>1 DEF Spoilt
<1>3. ASSUME NEW c \in Conns PROVE LastMsg(out[c]) = 0 /\ Len(handled[c]) - (IF c \in Spoilt THEN 1 ELSE 0) = 0
  BY <1>1, <1>2 DEF LastMsg
<1>4. QED
  BY <1>2, <1>3 DEF Queue!QInit

LEMMA StepQueue ==
    ASSUME TypeInv, \A d \in Conns : SendInv(d), \A d \in Conns : ReadInv(d), [Next]_vars
    PROVE  [Queue!QNext]_(Queue!qvars)
<1>1. ASSUME UNCHANGED <<Written, DoneWhole, Spoilt>> PROVE UNCHANGED Queue!qvars
  BY <1>1 DEF Queue!qvars, Written, DoneWhole, Done
<1>2. ASSUME NEW c \in Conns, SendSome(c) PROVE [Queue!QNext]_(Queue!qvars)
  <2>1. CASE Written' = [Written EXCEPT ![c] = @ + 1] /\ UNCHANGED <<DoneWhole, Spoilt>>
    <3>1. Queue!Write(c)
      BY <2>1 DEF Queue!Write, Written, DoneWhole, Done
    <3>2. QED
      BY <3>1 DEF Queue!QNext
  <2>2. QED
    BY <1>1, <1>2, <2>1, QueueWrites
<1>3. ASSUME NEW c \in Conns, Reset(c) \/ HostVanishes(c) PROVE [Queue!QNext]_(Queue!qvars)
  <2>1. over[c] = "no" /\ out' = [out EXCEPT ![c] = SubSeq(@, 1, arrived[c])] /\ handled' = handled
    BY <1>3 DEF Reset, HostVanishes, MayEnd, aggregator
  <2>2. /\ Written' \in {[Written EXCEPT ![c] = n] : n \in DoneWhole[c]..Written[c]}
        /\ UNCHANGED <<DoneWhole, Spoilt>>
    BY <2>1, QueueLoses
  <2>3. Queue!Lose(c)
    BY <2>2 DEF Queue!Lose, Written, DoneWhole, Done
  <2>4. QED
    BY <2>3 DEF Queue!QNext
<1>4. ASSUME NEW c \in Conns, Handle(c) PROVE [Queue!QNext]_(Queue!qvars)
  <2>1. /\ Written' = Written /\ c \notin Spoilt
        /\ \/ /\ DoneWhole[c] < Written[c] /\ Spoilt' = Spoilt
              /\ DoneWhole' = [DoneWhole EXCEPT ![c] = @ + 1]
           \/ Spoilt' = Spoilt \cup {c} /\ DoneWhole' = DoneWhole
    BY <1>4, QueueHandles
  <2>2. Queue!Handle(c) \/ Queue!Spoil(c)
    BY <2>1 DEF Queue!Handle, Queue!Spoil, Written, DoneWhole, Done
  <2>3. QED
    BY <2>2 DEF Queue!QNext
<1>5. ASSUME UNCHANGED <<out, handled>> PROVE [Queue!QNext]_(Queue!qvars)
  BY <1>1, <1>5, QueueStutters
<1>6. CASE UNCHANGED vars
  BY <1>5, <1>6 DEF vars, network, aggregator
<1>7. ASSUME NEW c \in Conns, Begin(c) \/ Alarm(c) \/ (FollowerNext(c) /\ ~SendSome(c))
      PROVE  UNCHANGED <<out, handled>>
  BY <1>7 DEF Begin, Alarm, FollowerNext, SendFails, HearHead, HearBody, Heard, HearEnd,
              network, aggregator
<1>8. ASSUME NEW c \in Conns, Deliver(c) \/ FollowerDies(c) PROVE UNCHANGED <<out, handled>>
  BY <1>8 DEF Deliver, Arrive, EndArrives, FollowerDies, aggregator
<1>9. ASSUME AggregatorNext, \A c \in Conns : ~Handle(c) PROVE UNCHANGED <<out, handled>>
  BY <1>9 DEF AggregatorNext, EpollWait, Receive, RecvHead, RecvBody, CloseConnection, ShortHead,
              network
<1>10. QED
  BY <1>2, <1>3, <1>4, <1>5, <1>6, <1>7, <1>8, <1>9 DEF Next

(* Between the bytes lies the queue: every step of sockets, readers and      *)
(* signals is a step of the queue of messages or none.                       *)
THEOREM QueueImplemented == Spec => ImplementsQueue
<1>1. StreamsInv /\ [Next]_vars => [Queue!QNext]_(Queue!qvars)
  BY StepQueue DEF StreamsInv
<1>2. QED
  BY <1>1, StreamsInvariant, InitQueue, PTL DEF Spec, ImplementsQueue, Queue!QSpec

----------------------------------------------------------------------------
(* The answers.  A follower on whose connection no handler sends is, in what *)
(* it has read of the answers, where its exchange says: f is the exchange,   *)
(* s the answers, h of which it has read, last the last message it wrote.    *)

Asked(f, s, h, last) ==
    /\ (f.at = "idle" \/ (f.at = "send" /\ f.n = 0)) => Boundary(s, h, last)
    /\ (f.at = "send" /\ f.n # 0) => Boundary(s, h, last - 1)
    /\ f.at = "head" => /\ f.msg = last /\ f.n < HeadLen
                        /\ Boundary(s, h - f.n, last - 1)
    /\ f.at = "body" => /\ f.msg = last /\ f.of = last /\ f.n <= f.len
                        /\ Boundary(s, h - HeadLen - f.n, last - 1)
                        /\ f.len = s[h - HeadLen - f.n + 1].len

BackInv(c) ==
    over[c] = "no" =>
        /\ Chain(back[c])
        /\ Boundary(back[c], Len(back[c]), Len(handled[c]))
        /\ c \notin Rotating => Asked(call[c].main, back[c], heard[c], LastMsg(out[c]))

LEMMA InitBack == Init => \A c \in Conns : BackInv(c)
<1> SUFFICES ASSUME Init, NEW c \in Conns PROVE BackInv(c)
  OBVIOUS
<1>1. /\ call[c].main = Idle /\ back[c] = << >> /\ heard[c] = 0 /\ out[c] = << >>
      /\ handled[c] = << >>
  BY DEF Init
<1>2. Chain(back[c])
  BY <1>1 DEF Chain
<1>3. Boundary(back[c], 0, 0)
  BY <1>1 DEF Boundary
<1>4. Asked(call[c].main, back[c], heard[c], LastMsg(out[c]))
  BY <1>1, <1>3 DEF Asked, LastMsg, Idle
<1>5. QED
  BY <1>1, <1>2, <1>3, <1>4 DEF BackInv

LEMMA BackKept ==
    ASSUME NEW c, BackInv(c), over'[c] = over[c], back'[c] = back[c], heard'[c] = heard[c],
           out'[c] = out[c], call'[c].main = call[c].main, handled'[c] = handled[c]
    PROVE  BackInv(c)'
  BY DEF BackInv

(* A step of an exchange. *)
LEMMA GotoBack ==
    ASSUME TypeInv, \A d \in Conns : BackInv(d), NEW c \in Conns, NEW f, Goto(c, f),
           UNCHANGED <<back, over, handled>>,
           \A d \in Conns : d # c => heard'[d] = heard[d] /\ out'[d] = out[d],
           over[c] = "no" /\ c \notin Rotating => Asked(f, back[c], heard'[c], LastMsg(out'[c]))
    PROVE  \A d \in Conns : BackInv(d)'
<1>1. call \in [Conns -> Calls] /\ FrameInv(c)
  BY DEF TypeInv, CallInv
<1>2. /\ \A d \in Conns : d # c => call'[d] = call[d]
      /\ Top(c) = "main" => call'[c] = [main |-> f, sig |-> call[c].sig]
  BY <1>1, GotoEffect
<1>3. c \notin Rotating => call'[c].main = f
  <2>1. ASSUME c \notin Rotating PROVE call'[c].main = f
    <3>1. Top(c) = "main"
      BY <1>1, <2>1 DEF FrameInv, Top, Idle
    <3>2. QED
      BY <1>2, <3>1
  <2>2. QED
    BY <2>1
<1>4. BackInv(c)'
  BY <1>3 DEF BackInv
<1>5. ASSUME NEW d \in Conns, d # c PROVE BackInv(d)'
  BY <1>2, <1>5, BackKept
<1>6. QED
  BY <1>4, <1>5

(* On a connection without a handler the main loop's exchange is on top. *)
LEMMA MainOnTop ==
    ASSUME TypeInv, \A d \in Conns : BackInv(d), NEW c \in Conns, over[c] = "no", c \notin Rotating
    PROVE  /\ call[c][Top(c)] = call[c].main /\ call[c].main \in Frame
           /\ Asked(call[c].main, back[c], heard[c], LastMsg(out[c])) /\ Chain(back[c])
           /\ back[c] \in Seq(Unit) /\ Len(back[c]) \in Nat /\ heard[c] \in Nat
           /\ heard[c] <= Len(back[c]) /\ LastMsg(out[c]) \in Nat
<1>1. call \in [Conns -> Calls] /\ FrameInv(c)
  BY DEF TypeInv, CallInv
<1>2. Top(c) = "main"
  BY <1>1 DEF FrameInv, Top, Idle
<1>3. call[c][Top(c)] = call[c].main /\ call[c][Top(c)] \in Frame
  BY <1>1, <1>2, TopFrame
<1>4. back[c] \in Seq(Unit) /\ heard[c] \in Nat /\ heard[c] <= Len(back[c]) /\ out[c] \in Seq(Unit)
  BY DEF TypeInv, StreamInv
<1>5. Len(back[c]) \in Nat /\ LastMsg(out[c]) \in Nat
  BY <1>4, LenProperties, LastMsgType
<1>6. QED
  BY <1>3, <1>4, <1>5 DEF BackInv

LEMMA BeginBack ==
    ASSUME TypeInv, \A d \in Conns : BackInv(d), NEW c \in Conns, Begin(c)
    PROVE  \A d \in Conns : BackInv(d)'
<1>1. UNCHANGED <<back, over, handled, heard, out>> /\ call[c][Top(c)].at = "idle"
  BY DEF Begin, network, aggregator, At
<1>2. PICK len \in Contents : Goto(c, [Idle EXCEPT !.at = "send", !.len = len])
  BY DEF Begin
<1> DEFINE f == [Idle EXCEPT !.at = "send", !.len = len]
<1>3. f.at = "send" /\ f.n = 0
  BY DEF Idle
<1> HIDE DEF f
<1>4. ASSUME over[c] = "no", c \notin Rotating PROVE Asked(f, back[c], heard[c], LastMsg(out[c]))
  <2>1. call[c].main.at = "idle" /\ Asked(call[c].main, back[c], heard[c], LastMsg(out[c]))
    BY <1>1, <1>4, MainOnTop
  <2>2. Boundary(back[c], heard[c], LastMsg(out[c]))
    BY <2>1 DEF Asked
  <2>3. QED
    BY <1>3, <2>2 DEF Asked
<1>5. Goto(c, f)
  BY <1>2 DEF f
<1>6. QED
  BY <1>1, <1>4, <1>5, GotoBack

LEMMA SendSomeBack ==
    ASSUME TypeInv, \A d \in Conns : SendInv(d), \A d \in Conns : BackInv(d), NEW c \in Conns,
           SendSome(c)
    PROVE  \A d \in Conns : BackInv(d)'
<1> DEFINE frame == call[c][Top(c)]
           m == IF frame.n = 0 THEN LastMsg(out[c]) + 1 ELSE frame.msg
           size == HeadLen + frame.len
<1>1. frame.at = "send" /\ UNCHANGED <<back, over, handled, heard>>
  BY DEF SendSome, aggregator, At
<1>2. PICK k \in (IF c \in Roomy THEN {size} ELSE (frame.n + 1)..size) : SendTo(c, m, frame, k)
  BY DEF SendSome
<1>3. Goto(c, IF k = size THEN AwaitAnswer(m) ELSE [frame EXCEPT !.n = k, !.msg = m])
  BY <1>2 DEF SendTo
<1>4. frame \in Frame /\ frame.n \in Nat /\ frame.len \in Nat /\ size \in Nat /\ size # 0
  <2>1. frame \in Frame
    BY TopOK DEF TypeInv
  <2>2. frame.n \in Nat /\ frame.len \in Nat
    BY <2>1, Lens DEF Frame
  <2>3. QED
    BY <2>1, <2>2, Lens
<1>5. k \in Nat /\ k # 0
  BY <1>2, <1>4
<1>6. /\ \A d \in Conns : d # c => out'[d] = out[d]
      /\ LastMsg(out'[c]) = m
      /\ frame.n = 0 => LastMsg(out'[c]) = LastMsg(out[c]) + 1
      /\ frame.n # 0 => LastMsg(out'[c]) = LastMsg(out[c])
  BY SendSomeSends
<1>7. m \in Nat
  <2>1. out'[c] \in Seq(Unit)
    BY SendSomeType DEF TypeInv, StreamInv
  <2>2. QED
    BY <1>6, <2>1, LastMsgType
<1> HIDE DEF m, frame
<1>8. ASSUME over[c] = "no", c \notin Rotating
      PROVE  Boundary(back[c], heard[c], m - 1)
  <2>1. /\ frame = call[c].main /\ Asked(call[c].main, back[c], heard[c], LastMsg(out[c]))
        /\ LastMsg(out[c]) \in Nat
    BY <1>8, MainOnTop DEF frame
  <2>2. CASE frame.n = 0
    <3>1. Boundary(back[c], heard[c], LastMsg(out[c]))
      BY <1>1, <2>1, <2>2 DEF Asked
    <3>2. m - 1 = LastMsg(out[c])
      BY <1>6, <2>1, <2>2
    <3>3. QED
      BY <3>1, <3>2
  <2>3. CASE frame.n # 0
    BY <1>1, <1>6, <2>1, <2>3 DEF Asked
  <2>4. QED
    BY <2>2, <2>3
<1>9. CASE k = size
  <2> DEFINE f == AwaitAnswer(m)
  <2>1. f.at = "head" /\ f.msg = m /\ f.n = 0
    BY <1>7, FrameAwait
  <2>2. Goto(c, f)
    BY <1>3, <1>9
  <2> HIDE DEF f
  <2>3. ASSUME over[c] = "no", c \notin Rotating PROVE Asked(f, back[c], heard[c], m)
    <3>1. heard[c] - 0 = heard[c] /\ 0 < HeadLen
      BY <2>3, MainOnTop, Lens
    <3>2. Boundary(back[c], heard[c] - f.n, m - 1)
      BY <1>8, <2>1, <2>3, <3>1
    <3>3. QED
      BY <2>1, <3>1, <3>2 DEF Asked
  <2>4. QED
    BY <1>1, <1>6, <2>2, <2>3, GotoBack
<1>10. CASE k # size
  <2> DEFINE f == [frame EXCEPT !.n = k, !.msg = m]
  <2>1. f.at = "send" /\ f.n = k
    BY <1>1, <1>4 DEF Frame
  <2>2. Goto(c, f)
    BY <1>3, <1>10
  <2> HIDE DEF f
  <2>3. ASSUME over[c] = "no", c \notin Rotating PROVE Asked(f, back[c], heard[c], m)
    BY <1>5, <1>8, <2>1, <2>3 DEF Asked
  <2>4. QED
    BY <1>1, <1>6, <2>2, <2>3, GotoBack
<1>11. QED
  BY <1>9, <1>10

LEMMA HearMin ==
    ASSUME TypeInv, NEW c \in Conns, NEW b \in Int, Min({Unheard(c), b}) > 0
    PROVE  /\ Min({Unheard(c), b}) \in Nat
           /\ Min({Unheard(c), b}) <= Unheard(c) /\ Min({Unheard(c), b}) <= b
<1>1. Unheard(c) \in Int
  <2>1. back[c] \in Seq(Unit) /\ heard[c] \in Nat
    BY DEF TypeInv, StreamInv
  <2>2. Len(back[c]) \in Nat
    BY <2>1, LenProperties
  <2>3. QED
    BY <2>1, <2>2 DEF Unheard
<1>2. LET k == Min({Unheard(c), b}) IN k <= Unheard(c) /\ k <= b /\ k \in {Unheard(c), b}
  BY <1>1, MinInts, Zenon
<1>3. QED
  BY <1>1, <1>2

LEMMA HearHeadBack ==
    ASSUME TypeInv, \A d \in Conns : BackInv(d), NEW c \in Conns, HearHead(c)
    PROVE  \A d \in Conns : BackInv(d)'
<1> DEFINE frame == call[c][Top(c)]
           k == Min({Unheard(c), HeadLen - frame.n})
<1>1. /\ frame.at = "head" /\ k > 0 /\ heard' = [heard EXCEPT ![c] = @ + k]
      /\ UNCHANGED <<out, back, over, handled>>
  BY DEF HearHead, At, aggregator
<1>2. IF frame.n + k < HeadLen THEN Goto(c, [frame EXCEPT !.n = @ + k])
      ELSE \E head \in Announced(back[c], heard[c] + k) :
               Goto(c, [frame EXCEPT !.at = "body", !.n = 0, !.len = head.len, !.of = head.msg])
  BY DEF HearHead
<1>3. frame \in Frame /\ frame.n \in Nat /\ HeadLen \in Nat \ {0}
  <2>1. frame \in Frame
    BY TopOK DEF TypeInv
  <2>2. QED
    BY <2>1, Lens DEF Frame
<1>4. k \in Nat /\ k <= Unheard(c) /\ k <= HeadLen - frame.n
  <2>1. HeadLen - frame.n \in Int
    BY <1>3
  <2>2. QED
    BY <1>1, <2>1, HearMin
<1> HIDE DEF k
<1>5. heard'[c] = heard[c] + k /\ \A d \in Conns : d # c => heard'[d] = heard[d] /\ out'[d] = out[d]
  BY <1>1 DEF TypeInv, StreamInv
<1> DEFINE last == LastMsg(out[c])
           p == heard[c] - frame.n
<1>6. ASSUME over[c] = "no", c \notin Rotating
      PROVE  /\ frame = call[c].main /\ frame.msg = last /\ Boundary(back[c], p, last - 1)
             /\ Chain(back[c]) /\ back[c] \in Seq(Unit) /\ Len(back[c]) \in Nat /\ heard[c] \in Nat
             /\ heard[c] + k <= Len(back[c]) /\ last \in Nat
  <2>1. /\ frame = call[c].main /\ Asked(frame, back[c], heard[c], last)
        /\ Chain(back[c]) /\ back[c] \in Seq(Unit) /\ Len(back[c]) \in Nat /\ heard[c] \in Nat
        /\ heard[c] <= Len(back[c]) /\ last \in Nat
    BY <1>6, MainOnTop
  <2>2. frame.msg = last /\ Boundary(back[c], p, last - 1)
    BY <1>1, <2>1 DEF Asked
  <2>3. heard[c] + k <= Len(back[c])
    BY <1>4, <2>1 DEF Unheard
  <2>4. QED
    BY <2>1, <2>2, <2>3
<1>7. LastMsg(out'[c]) = last
  BY <1>1
<1> HIDE DEF frame, last, p
<1>8. CASE frame.n + k < HeadLen
  <2> DEFINE f == [frame EXCEPT !.n = @ + k]
  <2>1. f.at = "head" /\ f.msg = frame.msg /\ f.n = frame.n + k
    BY <1>1, <1>3 DEF Frame
  <2>2. Goto(c, f)
    BY <1>2, <1>8
  <2> HIDE DEF f
  <2>3. ASSUME over[c] = "no", c \notin Rotating PROVE Asked(f, back[c], heard'[c], last)
    <3>1. heard'[c] - f.n = p
      <4>1. heard[c] \in Nat
        BY <1>6, <2>3
      <4>2. heard[c] + k - (frame.n + k) = heard[c] - frame.n
        BY <1>3, <1>4, <4>1
      <4>3. QED
        BY <1>3, <1>4, <1>5, <2>1, <4>1, <4>2 DEF p
    <3>2. Boundary(back[c], heard'[c] - f.n, last - 1) /\ f.msg = last
      BY <1>6, <2>1, <2>3, <3>1
    <3>3. f.n < HeadLen
      BY <1>8, <2>1
    <3>4. QED
      BY <2>1, <3>2, <3>3 DEF Asked
  <2>4. QED
    BY <1>1, <1>5, <1>7, <2>2, <2>3, GotoBack
<1>9. CASE ~(frame.n + k < HeadLen)
  <2>1. PICK head \in Announced(back[c], heard[c] + k) :
            Goto(c, [frame EXCEPT !.at = "body", !.n = 0, !.len = head.len, !.of = head.msg])
    BY <1>2, <1>9
  <2> DEFINE f == [frame EXCEPT !.at = "body", !.n = 0, !.len = head.len, !.of = head.msg]
  <2>2. f.at = "body" /\ f.n = 0 /\ f.len = head.len /\ f.of = head.msg /\ f.msg = frame.msg
    BY <1>3 DEF Frame
  <2>3. Goto(c, f)
    BY <2>1
  <2> HIDE DEF f
  <2>4. ASSUME over[c] = "no", c \notin Rotating PROVE Asked(f, back[c], heard'[c], last)
    <3>1. frame.n + k = HeadLen
      BY <1>3, <1>4, <1>9
    <3>2. /\ Boundary(back[c], p, last - 1) /\ Chain(back[c]) /\ back[c] \in Seq(Unit)
          /\ Len(back[c]) \in Nat /\ heard[c] \in Nat /\ heard[c] + k <= Len(back[c])
          /\ last \in Nat /\ frame.msg = last
      BY <1>6, <2>4
    <3>3. p \in Nat /\ heard[c] + k = p + HeadLen /\ p < Len(back[c])
      <4>1. p \in 0..Len(back[c])
        BY <3>2 DEF Boundary
      <4>2. heard[c] + k = p + HeadLen
        BY <1>3, <1>4, <3>1, <3>2 DEF p
      <4>3. QED
        BY <1>3, <1>4, <3>2, <4>1, <4>2
    <3>4. last - 1 \in Nat
      <4>1. CASE p = 0
        BY <3>2, <4>1 DEF Boundary
      <4>2. CASE p # 0
        <5>1. p \in 1..Len(back[c]) /\ back[c][p].msg = last - 1
          BY <3>2, <3>3, <4>2 DEF Boundary
        <5>2. back[c][p].msg \in Nat
          BY <3>2, <5>1, UnitFields
        <5>3. QED
          BY <5>1, <5>2
      <4>3. QED
        BY <4>1, <4>2
    <3>5. back[c][p + 1].at = 0 /\ back[c][p + 1].msg = last - 1 + 1 /\ p + 1 \in 1..Len(back[c])
      BY <3>2, <3>3, <3>4, BoundaryNext
    <3>6. PICK upto \in Nat : upto = heard[c] + k
      BY <1>4, <3>2
    <3>7. upto >= HeadLen /\ upto - HeadLen + 1 = p + 1
      BY <1>3, <3>3, <3>6
    <3>8. back[c][upto - HeadLen + 1].at = 0
      BY <3>5, <3>7
    <3>9. Announced(back[c], upto) = {[msg |-> back[c][upto - HeadLen + 1].msg,
                                       len |-> back[c][upto - HeadLen + 1].len]}
      BY <3>7, <3>8, AnnouncedHead
    <3>10. head \in Announced(back[c], upto)
      BY <3>6
    <3>11. head.msg = back[c][p + 1].msg /\ head.len = back[c][p + 1].len
      BY <3>7, <3>9, <3>10
    <3>12. head.msg = last
      BY <3>2, <3>5, <3>11
    <3>13. back[c][p + 1].len \in Nat
      BY <3>2, <3>5, UnitFields
    <3>14. f.n <= f.len
      BY <2>2, <3>11, <3>13
    <3>15. heard'[c] - HeadLen - f.n = p
      BY <1>3, <1>4, <1>5, <2>2, <3>2, <3>3
    <3>16. f.len = back[c][heard'[c] - HeadLen - f.n + 1].len
      BY <2>2, <3>11, <3>15
    <3>17. QED
      BY <2>2, <3>2, <3>12, <3>14, <3>15, <3>16 DEF Asked
  <2>5. QED
    BY <1>1, <1>5, <1>7, <2>3, <2>4, GotoBack
<1>10. QED
  BY <1>8, <1>9

LEMMA HearBodyBack ==
    ASSUME TypeInv, \A d \in Conns : BackInv(d), NEW c \in Conns, HearBody(c)
    PROVE  \A d \in Conns : BackInv(d)'
<1> DEFINE frame == call[c][Top(c)]
           k == Min({Unheard(c), frame.len - frame.n})
           f == [frame EXCEPT !.n = @ + k]
           last == LastMsg(out[c])
<1>1. /\ frame.at = "body" /\ k > 0 /\ heard' = [heard EXCEPT ![c] = @ + k] /\ Goto(c, f)
      /\ UNCHANGED <<out, back, over, handled>>
  BY DEF HearBody, At, aggregator
<1>2. frame \in Frame /\ frame.n \in Nat /\ frame.len \in Nat
  <2>1. frame \in Frame
    BY TopOK DEF TypeInv
  <2>2. QED
    BY <2>1, Lens DEF Frame
<1>3. k \in Nat /\ k <= frame.len - frame.n
  <2>1. frame.len - frame.n \in Int
    BY <1>2
  <2>2. QED
    BY <1>1, <2>1, HearMin
<1> HIDE DEF k
<1>4. heard'[c] = heard[c] + k /\ \A d \in Conns : d # c => heard'[d] = heard[d] /\ out'[d] = out[d]
  BY <1>1 DEF TypeInv, StreamInv
<1>5. /\ f.at = "body" /\ f.msg = frame.msg /\ f.n = frame.n + k /\ f.len = frame.len
      /\ f.of = frame.of
  BY <1>1, <1>2 DEF Frame
<1>6. ASSUME over[c] = "no", c \notin Rotating
      PROVE  Asked(frame, back[c], heard[c], last) /\ heard[c] \in Nat
  BY <1>6, MainOnTop
<1>7. LastMsg(out'[c]) = last
  BY <1>1
<1> HIDE DEF f, frame, last
<1>8. ASSUME over[c] = "no", c \notin Rotating PROVE Asked(f, back[c], heard'[c], last)
  <2>1. /\ frame.msg = last /\ frame.of = last
        /\ Boundary(back[c], heard[c] - HeadLen - frame.n, last - 1)
        /\ frame.len = back[c][heard[c] - HeadLen - frame.n + 1].len
    BY <1>1, <1>6, <1>8 DEF Asked
  <2>2. heard'[c] - HeadLen - f.n = heard[c] - HeadLen - frame.n
    <3>1. heard[c] \in Nat /\ HeadLen \in Nat
      BY <1>6, <1>8, Lens
    <3>2. heard[c] + k - HeadLen - (frame.n + k) = heard[c] - HeadLen - frame.n
      BY <1>2, <1>3, <3>1
    <3>3. QED
      BY <1>2, <1>3, <1>4, <1>5, <3>1, <3>2
  <2>3. f.n <= f.len
    BY <1>2, <1>3, <1>5
  <2>4. /\ Boundary(back[c], heard'[c] - HeadLen - f.n, last - 1)
        /\ f.len = back[c][heard'[c] - HeadLen - f.n + 1].len
    BY <1>5, <2>1, <2>2
  <2>5. QED
    BY <1>5, <2>1, <2>3, <2>4 DEF Asked
<1>9. QED
  BY <1>1, <1>4, <1>7, <1>8, GotoBack

LEMMA HeardBack ==
    ASSUME TypeInv, \A d \in Conns : BackInv(d), NEW c \in Conns, Heard(c)
    PROVE  \A d \in Conns : BackInv(d)'
<1> DEFINE frame == call[c][Top(c)]
           last == LastMsg(out[c])
           p == heard[c] - HeadLen - frame.n
<1>1. /\ frame.at = "body" /\ Goto(c, Idle) /\ UNCHANGED <<out, heard, back, over, handled>>
      /\ frame.n = frame.len \/ over[c] = "reset"
  BY DEF Heard, At, network, aggregator
<1>2. frame \in Frame /\ frame.n \in Nat /\ frame.len \in Nat /\ HeadLen \in Nat \ {0}
  <2>1. frame \in Frame
    BY TopOK DEF TypeInv
  <2>2. QED
    BY <2>1, Lens DEF Frame
<1>3. Idle.at = "idle"
  BY DEF Idle
<1>4. ASSUME over[c] = "no", c \notin Rotating PROVE Asked(Idle, back[c], heard[c], last)
  <2>1. /\ frame = call[c].main /\ Asked(frame, back[c], heard[c], last)
        /\ Chain(back[c]) /\ back[c] \in Seq(Unit) /\ Len(back[c]) \in Nat /\ heard[c] \in Nat
        /\ heard[c] <= Len(back[c]) /\ last \in Nat
    BY <1>4, MainOnTop
  <2>2. frame.n = frame.len
    BY <1>1, <1>4
  <2> HIDE DEF frame, last, p
  <2>3. Boundary(back[c], p, last - 1) /\ frame.len = back[c][p + 1].len
    BY <1>1, <2>1 DEF Asked, p
  <2>4. p \in Nat /\ heard[c] = p + (HeadLen + frame.n) /\ p < Len(back[c])
    <3>1. p \in 0..Len(back[c])
      BY <2>3 DEF Boundary
    <3>2. heard[c] = p + (HeadLen + frame.n)
      BY <1>2, <2>1 DEF p
    <3>3. QED
      BY <1>2, <2>1, <3>1, <3>2
  <2>5. last - 1 \in Nat
    <3>1. CASE p = 0
      BY <2>3, <3>1 DEF Boundary
    <3>2. CASE p # 0
      <4>1. p \in 1..Len(back[c]) /\ back[c][p].msg = last - 1
        BY <2>1, <2>3, <2>4, <3>2 DEF Boundary
      <4>2. back[c][p].msg \in Nat
        BY <2>1, <4>1, UnitFields
      <4>3. QED
        BY <4>1, <4>2
    <3>3. QED
      BY <3>1, <3>2
  <2>6. back[c][p + 1].at = 0 /\ back[c][p + 1].msg = last - 1 + 1 /\ p + 1 \in 1..Len(back[c])
    BY <2>1, <2>3, <2>4, <2>5, BoundaryNext
  <2>7. PICK e \in Nat : e = HeadLen + frame.n
    BY <1>2
  <2>8. e = HeadLen + back[c][p + 1].len /\ p + e = heard[c]
    BY <1>2, <2>2, <2>3, <2>4, <2>7
  <2>9. e <= HeadLen + back[c][p + 1].len /\ p + e <= Len(back[c])
    BY <2>1, <2>7, <2>8
  <2>10. Boundary(back[c], p + e, back[c][p + 1].msg)
    BY <2>1, <2>4, <2>6, <2>7, <2>8, <2>9, WholeMessage
  <2>11. Boundary(back[c], heard[c], last)
    BY <2>1, <2>6, <2>8, <2>10
  <2>12. QED
    BY <1>3, <2>11 DEF Asked
<1>5. LastMsg(out'[c]) = last /\ heard' = heard
  BY <1>1
<1> HIDE DEF last, frame
<1>6. QED
  BY <1>1, <1>4, <1>5, GotoBack

LEMMA FollowerBack ==
    ASSUME TypeInv, \A d \in Conns : SendInv(d), \A d \in Conns : BackInv(d), NEW c \in Conns,
           Begin(c) \/ Alarm(c) \/ FollowerNext(c)
    PROVE  \A d \in Conns : BackInv(d)'
<1>1. CASE Alarm(c)
  <2>1. /\ call' = [call EXCEPT ![c].sig = [Idle EXCEPT !.at = "send", !.len = RespLen]]
        /\ UNCHANGED <<out, heard, back, over, handled>>
    BY <1>1 DEF Alarm, network, aggregator
  <2>2. ASSUME NEW d \in Conns PROVE BackInv(d)'
    <3>1. call \in [Conns -> Calls]
      BY DEF TypeInv, CallInv
    <3>2. call'[d].main = call[d].main
      BY <2>1, <3>1 DEF Calls
    <3>3. QED
      BY <2>1, <3>2, BackKept
  <2>3. QED
    BY <2>2
<1>2. CASE SendFails(c) \/ HearEnd(c)
  <2>1. over[c] # "no" /\ UNCHANGED <<out, heard, back, over, handled>>
    BY <1>2 DEF SendFails, HearEnd, network, aggregator
  <2>2. PICK f : Goto(c, f)
    BY <1>2 DEF SendFails, HearEnd
  <2>3. QED
    BY <2>1, <2>2, GotoBack
<1>3. QED
  BY <1>1, <1>2, BeginBack, SendSomeBack, HearHeadBack, HearBodyBack, HeardBack DEF FollowerNext

LEMMA NetworkBack ==
    ASSUME TypeInv, \A d \in Conns : BackInv(d), NEW c \in Conns,
           Deliver(c) \/ FollowerDies(c) \/ Reset(c) \/ HostVanishes(c)
    PROVE  \A d \in Conns : BackInv(d)'
<1>1. CASE Deliver(c)
  <2>1. UNCHANGED <<call, out, heard, back, over, handled>>
    BY <1>1 DEF Deliver, Arrive, EndArrives
  <2>2. QED
    BY <2>1, BackKept
<1>2. CASE FollowerDies(c) \/ Reset(c) \/ HostVanishes(c)
  <2>1. over'[c] # "no"
    <3>1. \E v \in {"closed", "reset", "mute"} : over' = [over EXCEPT ![c] = v]
      BY <1>2 DEF FollowerDies, Reset, HostVanishes
    <3>2. QED
      BY <3>1 DEF TypeInv, StreamInv
  <2>2. BackInv(c)'
    BY <2>1 DEF BackInv
  <2>3. ASSUME NEW d \in Conns, d # c PROVE BackInv(d)'
    <3>1. handled' = handled
      BY <1>2 DEF FollowerDies, Reset, HostVanishes, aggregator
    <3>2. over'[d] = over[d] /\ out'[d] = out[d]
      BY <1>2, <2>3 DEF FollowerDies, Reset, HostVanishes, TypeInv, StreamInv
    <3>3. heard'[d] = heard[d] /\ back'[d] = back[d]
      BY <1>2, <2>3 DEF FollowerDies, Reset, HostVanishes, Gone, TypeInv, StreamInv
    <3>4. call'[d].main = call[d].main
      BY <1>2, <2>3 DEF FollowerDies, Reset, HostVanishes, Gone, TypeInv, CallInv
    <3>5. QED
      BY <3>1, <3>2, <3>3, <3>4, BackKept
  <2>4. QED
    BY <2>2, <2>3
<1>3. QED
  BY <1>1, <1>2

(* What grows behind the place an exchange is at. *)
LEMMA AskedGrows ==
    ASSUME NEW f \in Frame, NEW s \in Seq(Unit), NEW t \in Seq(Unit), NEW h \in Nat, NEW last,
           Len(s) <= Len(t), \A i \in 1..Len(s) : t[i] = s[i], h <= Len(s), Asked(f, s, h, last)
    PROVE  Asked(f, t, h, last)
<1>1. Len(s) \in Nat /\ Len(t) \in Nat /\ f.n \in Nat /\ HeadLen \in Nat \ {0}
  BY LenProperties, Lens DEF Frame
<1>2. ASSUME NEW p, NEW n, Boundary(s, p, n) PROVE Boundary(t, p, n)
  <2>1. p \in 0..Len(s)
    BY <1>2 DEF Boundary
  <2>2. p <= Len(t) /\ (p > 0 => t[p] = s[p])
    BY <1>1, <2>1
  <2>3. QED
    BY <1>2, <2>2, BoundaryKept
<1>3. ASSUME f.at = "body"
      PROVE  t[h - HeadLen - f.n + 1].len = s[h - HeadLen - f.n + 1].len
  <2>1. Boundary(s, h - HeadLen - f.n, last - 1)
    BY <1>3 DEF Asked
  <2>2. h - HeadLen - f.n \in 0..Len(s)
    BY <2>1 DEF Boundary
  <2>3. h - HeadLen - f.n + 1 \in 1..Len(s)
    BY <1>1, <2>2
  <2>4. QED
    BY <2>3
<1>4. (f.at = "idle" \/ (f.at = "send" /\ f.n = 0)) => Boundary(t, h, last)
  BY <1>2 DEF Asked
<1>5. (f.at = "send" /\ f.n # 0) => Boundary(t, h, last - 1)
  BY <1>2 DEF Asked
<1>6. f.at = "head" => /\ f.msg = last /\ f.n < HeadLen
                       /\ Boundary(t, h - f.n, last - 1)
  BY <1>2 DEF Asked
<1>7. f.at = "body" => /\ f.msg = last /\ f.of = last /\ f.n <= f.len
                       /\ Boundary(t, h - HeadLen - f.n, last - 1)
                       /\ f.len = t[h - HeadLen - f.n + 1].len
  BY <1>2, <1>3 DEF Asked
<1>8. QED
  BY <1>4, <1>5, <1>6, <1>7 DEF Asked

LEMMA HandleBack ==
    ASSUME TypeInv, \A d \in Conns : SendInv(d), \A d \in Conns : ReadInv(d),
           \A d \in Conns : BackInv(d), NEW c \in Conns, Handle(c)
    PROVE  \A d \in Conns : BackInv(d)'
<1> DEFINE N == Len(handled[c])
           s == back[c]
           u == Units(agg.msg, RespLen, 0, HeadLen + RespLen)
<1>1. agg.at = "body" /\ agg.conn = c /\ Answer(c) /\ UNCHANGED <<call, out, heard, over>>
  BY DEF Handle
<1>2. /\ \A d \in Conns : d # c => handled'[d] = handled[d]
      /\ N \in Nat /\ Len(handled'[c]) = N + 1
  BY HandleTakes
<1>3. back \in [Conns -> Seq(Unit)] /\ s \in Seq(Unit) /\ heard[c] \in Nat /\ heard[c] <= Len(s)
  BY DEF TypeInv, StreamInv
<1>4. ASSUME NEW d \in Conns, d # c PROVE BackInv(d)'
  <2>1. back'[d] = back[d]
    BY <1>1, <1>3, <1>4 DEF Answer
  <2>2. QED
    BY <1>1, <1>2, <1>4, <2>1, BackKept
<1>5. ASSUME over[c] = "no" PROVE BackInv(c)'
  <2>1. back' = [back EXCEPT ![c] = @ \o u]
    BY <1>1, <1>5 DEF Answer
  <2>2. back'[c] = s \o u
    BY <1>3, <2>1
  <2>3. agg.msg = N + 1
    <3>1. ~Ended(c)
      BY <1>5 DEF SendInv, EofInv, Ended
    <3>2. InOrder(c)
      BY <3>1 DEF ReadInv, CutShort, Over
    <3>3. QED
      BY <1>1, <3>2 DEF InOrder, Reading
  <2>4. Chain(s) /\ Boundary(s, Len(s), N)
    BY <1>5 DEF BackInv
  <2>5. PICK m \in Nat \ {0}, size \in Nat, from \in Nat :
            m = agg.msg /\ size = HeadLen + RespLen /\ from = 0
    BY <1>2, <2>3, Lens
  <2>6. Continues(s, m, RespLen, from)
    <3>1. m - 1 = N
      BY <1>2, <2>3, <2>5
    <3>2. QED
      BY <2>4, <2>5, <3>1 DEF Continues
  <2>7. RespLen \in Contents \cup {RespLen} /\ from < size /\ size <= HeadLen + RespLen
    BY <2>5, Lens
  <2> DEFINE t == s \o Units(m, RespLen, from, size)
  <2>8. /\ t \in Seq(Unit) /\ Chain(t) /\ Len(t) = Len(s) + (size - from)
        /\ \A i \in 1..Len(s) : t[i] = s[i]
        /\ t[Len(t)] = [msg |-> m, at |-> size - 1, len |-> RespLen]
    <3>1. t = s \o Units(m, RespLen, from, size)
      OBVIOUS
    <3> HIDE DEF t, s, u, N
    <3>2. GrowsTo(s, t, m, RespLen, from, size)
      BY <1>3, <2>4, <2>6, <2>7, <3>1 DEF GrowsTo
    <3>3. QED
      BY <3>2, ChainGrows
  <2>9. back'[c] = t
    BY <2>2, <2>5
  <2> HIDE DEF t, s, u, N
  <2>10. Len(s) \in Nat /\ Len(t) \in Nat /\ Len(s) <= Len(t) /\ Len(t) # 0
    BY <1>3, <2>7, <2>8, LenProperties
  <2>11. Boundary(t, Len(t), N + 1)
    <3>1. t[Len(t)].at = HeadLen + t[Len(t)].len - 1 /\ t[Len(t)].msg = N + 1
      <4>1. t[Len(t)].at = size - 1 /\ t[Len(t)].msg = m /\ t[Len(t)].len = RespLen
        BY <2>8
      <4>2. size - 1 = HeadLen + RespLen - 1 /\ m = N + 1
        <5>1. size - 1 = HeadLen + RespLen - 1
          BY <2>5, Lens
        <5>2. m = N + 1
          BY <2>3, <2>5
        <5>3. QED
          BY <5>1, <5>2
      <4>3. QED
        BY <4>1, <4>2
    <3>2. Len(t) \in 0..Len(t)
      BY <2>10
    <3>3. QED
      BY <2>10, <3>1, <3>2 DEF Boundary
  <2>12. ASSUME c \notin Rotating PROVE Asked(call[c].main, t, heard[c], LastMsg(out[c]))
    <3>1. call[c].main \in Frame /\ Asked(call[c].main, s, heard[c], LastMsg(out[c]))
      BY <1>5, <2>12, MainOnTop DEF s
    <3>2. QED
      BY <1>3, <2>8, <2>10, <3>1, AskedGrows
  <2>13. Len(handled'[c]) = N + 1
    BY <1>2 DEF N
  <2>14. QED
    BY <1>1, <2>8, <2>9, <2>11, <2>12, <2>13 DEF BackInv
<1>6. ASSUME over[c] # "no" PROVE BackInv(c)'
  BY <1>1, <1>6 DEF BackInv
<1>7. QED
  BY <1>4, <1>5, <1>6

LEMMA StepBack ==
    ASSUME TypeInv, \A d \in Conns : SendInv(d), \A d \in Conns : ReadInv(d),
           \A d \in Conns : BackInv(d), [Next]_vars
    PROVE  \A d \in Conns : BackInv(d)'
<1>1. ASSUME UNCHANGED <<call, out, heard, back, over, handled>> PROVE \A d \in Conns : BackInv(d)'
  BY <1>1, BackKept
<1>2. CASE UNCHANGED vars
  BY <1>1, <1>2 DEF vars, network, aggregator
<1>3. CASE AggregatorNext
  <2>1. CASE \E c \in Conns : Handle(c)
    BY <2>1, HandleBack
  <2>2. CASE ~\E c \in Conns : Handle(c)
    <3>1. UNCHANGED <<call, out, heard, back, over, handled>>
      BY <1>3, <2>2 DEF AggregatorNext, EpollWait, Receive, RecvHead, RecvBody, CloseConnection,
                        ShortHead, network
    <3>2. QED
      BY <1>1, <3>1
  <2>3. QED
    BY <2>1, <2>2
<1>4. QED
  BY <1>2, <1>3, FollowerBack, NetworkBack DEF Next

LEMMA BackImplies == TypeInv /\ (\A c \in Conns : BackInv(c)) => AnswersOwn
<1> SUFFICES ASSUME TypeInv, \A d \in Conns : BackInv(d), NEW c \in Conns \ Rotating,
                    call[c].main.at = "body", over[c] = "no"
             PROVE  call[c].main.of = call[c].main.msg
  BY DEF AnswersOwn
<1>1. Asked(call[c].main, back[c], heard[c], LastMsg(out[c]))
  BY DEF BackInv
<1>2. QED
  BY <1>1 DEF Asked

(* Where no handler sends, the answer whose content a follower reads is the  *)
(* answer to the message it last wrote, whatever the lengths and however     *)
(* both arrive.                                                              *)
THEOREM AnswersOwnHolds == Spec => []AnswersOwn
<1> DEFINE Backs == \A c \in Conns : BackInv(c)
<1>1. Init => Backs
  BY InitBack
<1>2. StreamsInv /\ Backs /\ [Next]_vars => Backs'
  <2>1. SUFFICES ASSUME StreamsInv, Backs, [Next]_vars PROVE Backs'
    OBVIOUS
  <2>2. TypeInv /\ (\A c \in Conns : SendInv(c)) /\ (\A c \in Conns : ReadInv(c))
    BY <2>1 DEF StreamsInv
  <2>3. QED
    BY <2>1, <2>2, StepBack
<1>3. StreamsInv /\ Backs => AnswersOwn
  BY BackImplies DEF StreamsInv
<1> HIDE DEF Backs
<1>4. QED
  BY <1>1, <1>2, <1>3, StreamsInvariant, PTL DEF Spec

----------------------------------------------------------------------------
(* Keeping in step.  All answers have one length; an exchange knows whose    *)
(* content it reads only when it does, and only after it has read something. *)

RespFrame(f, h) ==
    /\ f.at # "body" => f.of = 0
    /\ f.at = "body" /\ f.of > 0 => f.len = RespLen
    /\ f.at = "body" \/ (f.at = "head" /\ f.n > 0) => h > 0

RespInv(c) ==
    /\ \A i \in 1..Len(back[c]) : back[c][i].len = RespLen
    /\ RespFrame(call[c].main, heard[c]) /\ RespFrame(call[c].sig, heard[c])

LEMMA IdleResp == ASSUME NEW h PROVE RespFrame(Idle, h)
  BY DEF RespFrame, Idle

LEMMA InitResp == Init => \A c \in Conns : RespInv(c)
<1> SUFFICES ASSUME Init, NEW c \in Conns PROVE RespInv(c)
  OBVIOUS
<1>1. call[c] = [main |-> Idle, sig |-> Idle] /\ back[c] = << >>
  BY DEF Init
<1>2. call[c].main = Idle /\ call[c].sig = Idle /\ Len(back[c]) = 0
  BY <1>1
<1>3. QED
  BY <1>2, IdleResp DEF RespInv

LEMMA RespKept ==
    ASSUME NEW c, RespInv(c), call'[c] = call[c], back'[c] = back[c], heard'[c] = heard[c]
    PROVE  RespInv(c)'
  BY DEF RespInv

LEMMA RespLater ==
    ASSUME NEW f, NEW h \in Nat, NEW g \in Nat, h <= g, RespFrame(f, h)
    PROVE  RespFrame(f, g)
  BY DEF RespFrame

(* A step of an exchange that has read no less than before. *)
LEMMA GotoResp ==
    ASSUME TypeInv, TypeInv', \A d \in Conns : RespInv(d), NEW c \in Conns, NEW f, Goto(c, f),
           UNCHANGED back, \A d \in Conns : d # c => heard'[d] = heard[d],
           heard[c] <= heard'[c], RespFrame(f, heard'[c])
    PROVE  \A d \in Conns : RespInv(d)'
<1>1. call \in [Conns -> Calls]
  BY DEF TypeInv, CallInv
<1>2. /\ \A d \in Conns : d # c => call'[d] = call[d]
      /\ Top(c) = "sig" => call'[c] = [main |-> call[c].main, sig |-> f]
      /\ Top(c) = "main" => call'[c] = [main |-> f, sig |-> call[c].sig]
      /\ Top(c) \in {"sig", "main"}
  BY <1>1, GotoEffect, TopFrame
<1>3. RespInv(c)'
  <2>1. heard[c] \in Nat /\ heard'[c] \in Nat
    BY DEF TypeInv, StreamInv
  <2>2. RespFrame(call[c].main, heard'[c]) /\ RespFrame(call[c].sig, heard'[c])
    BY <2>1, RespLater DEF RespInv
  <2>3. call'[c].main \in {call[c].main, f} /\ call'[c].sig \in {call[c].sig, f}
    BY <1>2
  <2>4. RespFrame(call'[c].main, heard'[c]) /\ RespFrame(call'[c].sig, heard'[c])
    BY <2>2, <2>3
  <2>5. \A i \in 1..Len(back'[c]) : back'[c][i].len = RespLen
    BY DEF RespInv
  <2>6. QED
    BY <2>4, <2>5 DEF RespInv
<1>4. ASSUME NEW d \in Conns, d # c PROVE RespInv(d)'
  BY <1>2, <1>4, RespKept
<1>5. QED
  BY <1>3, <1>4

(* The frame on top. *)
LEMMA TopResp ==
    ASSUME TypeInv, NEW c \in Conns, RespInv(c)
    PROVE  /\ call[c][Top(c)] \in Frame /\ RespFrame(call[c][Top(c)], heard[c])
           /\ heard[c] \in Nat /\ back[c] \in Seq(Unit) /\ heard[c] <= Len(back[c])
<1>1. call \in [Conns -> Calls]
  BY DEF TypeInv, CallInv
<1>2. QED
  BY <1>1, TopFrame DEF RespInv, TypeInv, StreamInv

LEMMA AnnouncedResp ==
    ASSUME NEW s \in Seq(Unit), \A i \in 1..Len(s) : s[i].len = RespLen,
           NEW upto \in Nat, upto <= Len(s), NEW head \in Announced(s, upto), head.msg > 0
    PROVE  head.len = RespLen
<1>1. CASE upto >= HeadLen /\ s[upto - HeadLen + 1].at = 0
  <2>1. upto - HeadLen + 1 \in 1..Len(s)
    BY <1>1, Lens, LenProperties
  <2>2. head = [msg |-> s[upto - HeadLen + 1].msg, len |-> s[upto - HeadLen + 1].len]
    BY <1>1 DEF Announced
  <2>3. QED
    BY <2>1, <2>2
<1>2. CASE ~(upto >= HeadLen /\ s[upto - HeadLen + 1].at = 0)
  <2>1. PICK len \in {0, Huge} : head = [msg |-> 0, len |-> len]
    BY <1>2 DEF Announced
  <2>2. head.msg = 0
    BY <2>1
  <2>3. QED
    BY <2>2
<1>3. QED
  BY <1>1, <1>2

LEMMA SendsResp ==
    ASSUME TypeInv, TypeInv', \A d \in Conns : RespInv(d), NEW c \in Conns,
           Begin(c) \/ SendSome(c) \/ SendFails(c) \/ Heard(c)
    PROVE  \A d \in Conns : RespInv(d)'
<1> DEFINE frame == call[c][Top(c)]
<1>1. UNCHANGED <<back, heard>>
  BY DEF Begin, SendSome, SendFails, Heard, network
<1>2. frame \in Frame /\ RespFrame(frame, heard[c]) /\ heard[c] \in Nat
  BY TopResp
<1>3. \E f : Goto(c, f) /\ RespFrame(f, heard[c])
  <2>1. CASE Begin(c)
    <3>1. PICK len \in Contents : Goto(c, [Idle EXCEPT !.at = "send", !.len = len])
      BY <2>1 DEF Begin
    <3>2. RespFrame([Idle EXCEPT !.at = "send", !.len = len], heard[c])
      BY DEF RespFrame, Idle
    <3>3. QED
      BY <3>1, <3>2
  <2>2. CASE SendSome(c)
    <3>1. frame.at = "send"
      BY <2>2 DEF SendSome, At
    <3>2. PICK k, m : SendTo(c, m, frame, k)
      BY <2>2 DEF SendSome
    <3>3. RespFrame(AwaitAnswer(m), heard[c])
      BY DEF RespFrame, AwaitAnswer, Idle
    <3>4. RespFrame([frame EXCEPT !.n = k, !.msg = m], heard[c])
      BY <1>2, <3>1 DEF RespFrame, Frame
    <3> HIDE DEF frame
    <3>5. QED
      BY <3>2, <3>3, <3>4 DEF SendTo
  <2>3. CASE SendFails(c)
    <3>1. PICK f : Goto(c, f) /\ f \in {AwaitAnswer(frame.msg), Idle}
      BY <2>3 DEF SendFails
    <3>2. RespFrame(AwaitAnswer(frame.msg), heard[c])
      BY DEF RespFrame, AwaitAnswer, Idle
    <3>3. QED
      BY <3>1, <3>2, IdleResp
  <2>4. CASE Heard(c)
    BY <2>4, IdleResp DEF Heard
  <2>5. QED
    BY <2>1, <2>2, <2>3, <2>4
<1>4. PICK f : Goto(c, f) /\ RespFrame(f, heard[c])
  BY <1>3
<1>5. heard[c] <= heard'[c] /\ RespFrame(f, heard'[c]) /\ \A d \in Conns : heard'[d] = heard[d]
  BY <1>1, <1>2, <1>4
<1>6. QED
  BY <1>1, <1>4, <1>5, GotoResp

LEMMA HearsResp ==
    ASSUME TypeInv, TypeInv', \A d \in Conns : RespInv(d), NEW c \in Conns,
           HearHead(c) \/ HearBody(c)
    PROVE  \A d \in Conns : RespInv(d)'
<1> DEFINE frame == call[c][Top(c)]
<1>1. UNCHANGED back
  BY DEF HearHead, HearBody
<1>2. /\ frame \in Frame /\ RespFrame(frame, heard[c]) /\ heard[c] \in Nat
      /\ back[c] \in Seq(Unit) /\ frame.n \in Nat /\ frame.len \in Nat /\ HeadLen \in Nat
      /\ \A i \in 1..Len(back[c]) : back[c][i].len = RespLen
  <2>1. frame \in Frame
    BY TopResp
  <2>2. frame.n \in Nat /\ frame.len \in Nat /\ HeadLen \in Nat
    BY <2>1, Lens DEF Frame
  <2>3. QED
    BY <2>1, <2>2, TopResp DEF RespInv
<1>3. \E k \in Nat : \E f : /\ k > 0 /\ heard' = [heard EXCEPT ![c] = @ + k] /\ Goto(c, f)
                             /\ RespFrame(f, heard[c] + k)
  <2>1. CASE HearBody(c)
    <3> DEFINE k == Min({Unheard(c), frame.len - frame.n})
               f == [frame EXCEPT !.n = @ + k]
    <3>1. frame.at = "body" /\ k > 0 /\ heard' = [heard EXCEPT ![c] = @ + k] /\ Goto(c, f)
      BY <2>1 DEF HearBody, At
    <3>2. k \in Nat
      <4>1. frame.len - frame.n \in Int
        BY <1>2
      <4>2. QED
        BY <3>1, <4>1, HearMin
    <3> HIDE DEF k
    <3>3. f.at = "body" /\ f.of = frame.of /\ f.len = frame.len
      BY <1>2, <3>1 DEF Frame
    <3> HIDE DEF f, frame
    <3>4. heard[c] + k > 0
      BY <1>2, <3>1, <3>2
    <3>5. RespFrame(f, heard[c] + k)
      BY <1>2, <3>1, <3>3, <3>4 DEF RespFrame
    <3>6. QED
      BY <3>1, <3>2, <3>5
  <2>2. CASE HearHead(c)
    <3> DEFINE k == Min({Unheard(c), HeadLen - frame.n})
    <3>1. frame.at = "head" /\ k > 0 /\ heard' = [heard EXCEPT ![c] = @ + k]
      BY <2>2 DEF HearHead, At
    <3>2. IF frame.n + k < HeadLen THEN Goto(c, [frame EXCEPT !.n = @ + k])
          ELSE \E head \in Announced(back[c], heard[c] + k) :
                   Goto(c, [frame EXCEPT !.at = "body", !.n = 0, !.len = head.len, !.of = head.msg])
      BY <2>2 DEF HearHead
    <3>3. k \in Nat /\ k <= Unheard(c)
      <4>1. HeadLen - frame.n \in Int
        BY <1>2
      <4>2. QED
        BY <3>1, <4>1, HearMin
    <3> HIDE DEF k
    <3>4. heard[c] + k \in Nat /\ heard[c] + k > 0 /\ heard[c] + k <= Len(back[c])
      <4>1. Len(back[c]) \in Nat
        BY <1>2, LenProperties
      <4>2. QED
        BY <1>2, <3>1, <3>3, <4>1 DEF Unheard
    <3>5. CASE frame.n + k < HeadLen
      <4> DEFINE f == [frame EXCEPT !.n = @ + k]
      <4>1. f.at = "head" /\ f.of = frame.of
        BY <1>2, <3>1 DEF Frame
      <4>2. Goto(c, f)
        BY <3>2, <3>5
      <4> HIDE DEF f, frame
      <4>3. RespFrame(f, heard[c] + k)
        BY <1>2, <3>1, <3>4, <4>1 DEF RespFrame
      <4>4. QED
        BY <3>1, <3>3, <4>2, <4>3
    <3>6. CASE ~(frame.n + k < HeadLen)
      <4>1. PICK head \in Announced(back[c], heard[c] + k) :
                Goto(c, [frame EXCEPT !.at = "body", !.n = 0, !.len = head.len, !.of = head.msg])
        BY <3>2, <3>6
      <4> DEFINE f == [frame EXCEPT !.at = "body", !.n = 0, !.len = head.len, !.of = head.msg]
      <4>2. f.at = "body" /\ f.len = head.len /\ f.of = head.msg
        BY <1>2 DEF Frame
      <4>3. Goto(c, f)
        BY <4>1
      <4> HIDE DEF f, frame
      <4>4. head.msg > 0 => head.len = RespLen
        BY <1>2, <3>4, AnnouncedResp
      <4>5. RespFrame(f, heard[c] + k)
        BY <3>4, <4>2, <4>4 DEF RespFrame
      <4>6. QED
        BY <3>1, <3>3, <4>3, <4>5
    <3>7. QED
      BY <3>5, <3>6
  <2>3. QED
    BY <2>1, <2>2
<1>4. PICK k \in Nat : \E f : /\ k > 0 /\ heard' = [heard EXCEPT ![c] = @ + k] /\ Goto(c, f)
                               /\ RespFrame(f, heard[c] + k)
  BY <1>3
<1>5. PICK f : Goto(c, f) /\ RespFrame(f, heard[c] + k)
  BY <1>4
<1>6. heard'[c] = heard[c] + k /\ \A d \in Conns : d # c => heard'[d] = heard[d]
  BY <1>4 DEF TypeInv, StreamInv
<1>7. heard[c] <= heard'[c] /\ RespFrame(f, heard'[c])
  BY <1>2, <1>4, <1>5, <1>6
<1>8. QED
  BY <1>1, <1>5, <1>6, <1>7, GotoResp

LEMMA HearEndResp ==
    ASSUME TypeInv, TypeInv', \A d \in Conns : RespInv(d), NEW c \in Conns, HearEnd(c)
    PROVE  \A d \in Conns : RespInv(d)'
<1> DEFINE frame == call[c][Top(c)]
<1>1. UNCHANGED <<back, heard>>
  BY DEF HearEnd, network
<1>2. frame \in Frame /\ RespFrame(frame, heard[c]) /\ heard[c] \in Nat
  BY TopResp
<1>3. \E f : Goto(c, f) /\ RespFrame(f, heard[c])
  <2>1. CASE Goto(c, Idle)
    BY <2>1, IdleResp
  <2>2. CASE ~Goto(c, Idle)
    <3>1. frame.at = "head" /\ frame.n > 0
          /\ \E len \in {0, Huge} : Goto(c, [frame EXCEPT !.at = "body", !.n = 0, !.len = len])
      BY <2>2 DEF HearEnd, At
    <3>2. PICK len \in {0, Huge} : Goto(c, [frame EXCEPT !.at = "body", !.n = 0, !.len = len])
      BY <3>1
    <3> DEFINE f == [frame EXCEPT !.at = "body", !.n = 0, !.len = len]
    <3>3. f.at = "body" /\ f.of = frame.of
      BY <1>2 DEF Frame
    <3>4. Goto(c, f)
      BY <3>2
    <3> HIDE DEF f, frame
    <3>5. frame.of = 0 /\ heard[c] > 0
      BY <1>2, <3>1 DEF RespFrame
    <3>6. RespFrame(f, heard[c])
      BY <3>3, <3>5 DEF RespFrame
    <3>7. QED
      BY <3>4, <3>6
  <2>3. QED
    BY <2>1, <2>2
<1>4. PICK f : Goto(c, f) /\ RespFrame(f, heard[c])
  BY <1>3
<1>5. heard[c] <= heard'[c] /\ RespFrame(f, heard'[c]) /\ \A d \in Conns : heard'[d] = heard[d]
  BY <1>1, <1>2, <1>4
<1>6. QED
  BY <1>1, <1>4, <1>5, GotoResp

LEMMA EndsResp ==
    ASSUME TypeInv, \A d \in Conns : RespInv(d), NEW c \in Conns,
           FollowerDies(c) \/ Reset(c) \/ HostVanishes(c)
    PROVE  \A d \in Conns : RespInv(d)'
<1>1. call \in [Conns -> Calls] /\ back \in [Conns -> Seq(Unit)] /\ heard \in [Conns -> Nat]
      /\ heard[c] <= Len(back[c])
  BY DEF TypeInv, CallInv, StreamInv
<1>2. ASSUME Gone(c) PROVE \A d \in Conns : RespInv(d)'
  <2>1. call'[c] = [main |-> Idle, sig |-> Idle] /\ back'[c] = << >>
    BY <1>1, <1>2 DEF Gone
  <2>2. call'[c].main = Idle /\ call'[c].sig = Idle /\ Len(back'[c]) = 0
    BY <2>1
  <2>3. RespInv(c)'
    BY <2>2, IdleResp DEF RespInv
  <2>4. ASSUME NEW d \in Conns, d # c PROVE RespInv(d)'
    <3>1. call'[d] = call[d] /\ back'[d] = back[d] /\ heard'[d] = heard[d]
      BY <1>1, <1>2, <2>4 DEF Gone
    <3>2. QED
      BY <3>1, RespKept
  <2>5. QED
    BY <2>3, <2>4
<1>3. CASE Reset(c)
  <2>1. PICK n \in heard[c]..Len(back[c]) : back' = [back EXCEPT ![c] = SubSeq(@, 1, n)]
    BY <1>3 DEF Reset
  <2>2. call' = call /\ heard' = heard
    BY <1>3 DEF Reset
  <2>3. n \in Nat /\ n <= Len(back[c])
    BY <1>1, <2>1, LenProperties
  <2>4. back'[c] = SubSeq(back[c], 1, n)
    BY <1>1, <2>1
  <2>5. Len(back'[c]) = n /\ \A i \in 1..n : back'[c][i] = back[c][i]
    BY <1>1, <2>3, <2>4, CutType
  <2>6. \A i \in 1..n : i \in 1..Len(back[c])
    BY <1>1, <2>3, LenProperties
  <2>7. RespInv(c)'
    BY <2>2, <2>5, <2>6 DEF RespInv
  <2>8. ASSUME NEW d \in Conns, d # c PROVE RespInv(d)'
    <3>1. back'[d] = back[d]
      BY <1>1, <2>1, <2>8
    <3>2. QED
      BY <2>2, <3>1, RespKept
  <2>9. QED
    BY <2>7, <2>8
<1>4. QED
  BY <1>2, <1>3 DEF FollowerDies, HostVanishes

(* What the follower has yet to read only grows. *)
LEMMA HandleGrows ==
    ASSUME TypeInv, NEW c \in Conns, Handle(c)
    PROVE  /\ \A d \in Conns : d # c => back'[d] = back[d]
           /\ over[c] # "no" => back'[c] = back[c]
           /\ over[c] = "no" =>
                 /\ Len(back[c]) <= Len(back'[c])
                 /\ \A i \in 1..Len(back[c]) : back'[c][i] = back[c][i]
                 /\ \A i \in 1..Len(back'[c]) : i > Len(back[c]) => back'[c][i].len = RespLen
<1> DEFINE s == back[c]
           u == Units(agg.msg, RespLen, 0, HeadLen + RespLen)
<1>1. Answer(c)
  BY DEF Handle
<1>2. back \in [Conns -> Seq(Unit)] /\ s \in Seq(Unit) /\ agg.msg \in Nat
  BY DEF TypeInv, StreamInv, AggInv, Agg
<1>3. \A d \in Conns : d # c => back'[d] = back[d]
  BY <1>1, <1>2 DEF Answer
<1>4. over[c] # "no" => back'[c] = back[c]
  BY <1>1 DEF Answer
<1>5. ASSUME over[c] = "no"
      PROVE  /\ Len(back[c]) <= Len(back'[c])
             /\ \A i \in 1..Len(back[c]) : back'[c][i] = back[c][i]
             /\ \A i \in 1..Len(back'[c]) : i > Len(back[c]) => back'[c][i].len = RespLen
  <2>1. back' = [back EXCEPT ![c] = @ \o u]
    BY <1>1, <1>5 DEF Answer
  <2>2. back'[c] = s \o u
    BY <1>2, <2>1
  <2>3. PICK m \in Nat, size \in Nat, from \in Nat :
            m = agg.msg /\ size = HeadLen + RespLen /\ from = 0
    BY <1>2, Lens
  <2>4. RespLen \in Contents \cup {RespLen} /\ from <= size
    BY <2>3
  <2> DEFINE v == Units(m, RespLen, from, size)
  <2>5. v \in Seq(Unit) /\ Len(v) = size - from
    BY <2>4, UnitsSeq
  <2>6. back'[c] = s \o v
    BY <2>2, <2>3
  <2>7. \A i \in 1..Len(v) : v[i].len = RespLen
    <3>1. \A i \in 1..(size - from) : v[i] = [msg |-> m, at |-> from + i - 1, len |-> RespLen]
      BY DEF Units
    <3> HIDE DEF v
    <3>2. ASSUME NEW i \in 1..(size - from) PROVE v[i].len = RespLen
      <4>1. v[i] = [msg |-> m, at |-> from + i - 1, len |-> RespLen]
        BY <3>1
      <4>2. QED
        BY <4>1
    <3>3. QED
      BY <2>5, <3>2
  <2> HIDE DEF v, s, u
  <2>8. Len(s) \in Nat /\ Len(v) \in Nat
    BY <1>2, <2>5, LenProperties
  <2>9. /\ Len(s \o v) = Len(s) + Len(v)
        /\ \A i \in 1..(Len(s) + Len(v)) : (s \o v)[i] = IF i <= Len(s) THEN s[i] ELSE v[i - Len(s)]
    BY <1>2, <2>5, ConcatProperties
  <2>10. ASSUME NEW i \in 1..(Len(s) + Len(v)), i > Len(s) PROVE (s \o v)[i].len = RespLen
    <3>1. i - Len(s) \in 1..Len(v) /\ ~(i <= Len(s))
      BY <2>8, <2>10
    <3>2. (s \o v)[i] = v[i - Len(s)]
      BY <2>9, <3>1
    <3>3. QED
      BY <2>7, <3>1, <3>2
  <2>11. \A i \in 1..Len(s) : (s \o v)[i] = s[i]
    <3>1. \A i \in 1..Len(s) : i \in 1..(Len(s) + Len(v)) /\ i <= Len(s)
      BY <2>8
    <3>2. QED
      BY <2>9, <3>1
  <2>12. Len(s) <= Len(s \o v)
    BY <2>8, <2>9
  <2>13. QED
    BY <2>6, <2>9, <2>10, <2>11, <2>12 DEF s
<1>6. QED
  BY <1>3, <1>4, <1>5

LEMMA HandleResp ==
    ASSUME TypeInv, \A d \in Conns : RespInv(d), NEW c \in Conns, Handle(c)
    PROVE  \A d \in Conns : RespInv(d)'
<1>1. call' = call /\ heard' = heard
  BY DEF Handle
<1>2. ASSUME NEW d \in Conns, back'[d] = back[d] PROVE RespInv(d)'
  BY <1>1, <1>2, RespKept
<1>3. ASSUME over[c] = "no" PROVE RespInv(c)'
  <2>1. Len(back[c]) \in Nat
    BY LenProperties DEF TypeInv, StreamInv
  <2>2. ASSUME NEW i \in 1..Len(back'[c]) PROVE back'[c][i].len = RespLen
    <3>1. i \in 1..Len(back[c]) \/ i > Len(back[c])
      BY <2>1, <2>2
    <3>2. QED
      BY <1>3, <3>1, HandleGrows DEF RespInv
  <2>3. QED
    BY <1>1, <2>2 DEF RespInv
<1>4. QED
  BY <1>2, <1>3, HandleGrows

LEMMA StepResp ==
    ASSUME TypeInv, TypeInv', \A d \in Conns : RespInv(d), [Next]_vars
    PROVE  \A d \in Conns : RespInv(d)'
<1>1. ASSUME UNCHANGED <<call, back, heard>> PROVE \A d \in Conns : RespInv(d)'
  BY <1>1, RespKept
<1>2. CASE UNCHANGED vars
  BY <1>1, <1>2 DEF vars, network
<1>3. ASSUME NEW c \in Conns, Begin(c) \/ Alarm(c) \/ FollowerNext(c)
      PROVE  \A d \in Conns : RespInv(d)'
  <2>1. CASE Alarm(c)
    <3>1. /\ call' = [call EXCEPT ![c].sig = [Idle EXCEPT !.at = "send", !.len = RespLen]]
          /\ UNCHANGED <<heard, back>>
      BY <2>1 DEF Alarm, network
    <3>2. call \in [Conns -> Calls]
      BY DEF TypeInv, CallInv
    <3>3. ASSUME NEW d \in Conns, d # c PROVE RespInv(d)'
      BY <3>1, <3>2, <3>3, RespKept
    <3>4. call'[c].main = call[c].main
          /\ call'[c].sig = [Idle EXCEPT !.at = "send", !.len = RespLen]
      BY <3>1, <3>2 DEF Calls
    <3>5. RespFrame([Idle EXCEPT !.at = "send", !.len = RespLen], heard[c])
      BY DEF RespFrame, Idle
    <3>6. RespInv(c)'
      BY <3>1, <3>4, <3>5 DEF RespInv
    <3>7. QED
      BY <3>3, <3>6
  <2>2. QED
    BY <1>3, <2>1, SendsResp, HearsResp, HearEndResp DEF FollowerNext
<1>4. ASSUME NEW c \in Conns, Deliver(c) PROVE \A d \in Conns : RespInv(d)'
  BY <1>1, <1>4 DEF Deliver, Arrive, EndArrives
<1>5. CASE AggregatorNext
  <2>1. CASE \E c \in Conns : Handle(c)
    BY <2>1, HandleResp
  <2>2. CASE ~\E c \in Conns : Handle(c)
    <3>1. UNCHANGED <<call, back, heard>>
      BY <1>5, <2>2 DEF AggregatorNext, EpollWait, Receive, RecvHead, RecvBody, CloseConnection,
                        ShortHead, network
    <3>2. QED
      BY <1>1, <3>1
  <2>3. QED
    BY <2>1, <2>2
<1>6. QED
  BY <1>2, <1>3, <1>4, <1>5, EndsResp DEF Next

(* InStep in parts: exchange f is, after h units of the answers s, where it  *)
(* believes to be.                                                           *)
Reads(f, s, h) ==
    /\ f.at = "head" /\ f.n > 0 => s[h].at = f.n - 1
    /\ f.at = "body" /\ f.n < f.len => f.of > 0 /\ s[h].at = HeadLen + f.n - 1
    /\ ~Amid(f) => AtBoundary(s, h)

LEMMA InStepParts ==
    ASSUME NEW c
    PROVE  InStep(c) <=> /\ Top(c) = "sig" => ~Amid(call[c].main)
                         /\ Reads(call[c][Top(c)], back[c], heard[c])
  BY DEF InStep, Reads, Amid

LEMMA InStepNext ==
    ASSUME NEW c
    PROVE  InStep(c)' <=> /\ Top(c)' = "sig" => ~Amid(call'[c].main)
                          /\ Reads(call'[c][Top(c)'], back'[c], heard'[c])
  BY DEF InStep, Reads, Amid, AtBoundary

LEMMA InStepKept ==
    ASSUME NEW c, InStep(c), call'[c] = call[c], back'[c] = back[c], heard'[c] = heard[c]
    PROVE  InStep(c)'
  BY DEF InStep, Top

(* Between two answers every exchange may follow. *)
LEMMA BetweenAnswers ==
    ASSUME NEW f, NEW g, NEW s, NEW h, ~Amid(f), ~Amid(g), Reads(f, s, h)
    PROVE  Reads(g, s, h)
  BY DEF Reads, Amid

LEMMA GotoInStep ==
    ASSUME TypeInv, NEW c \in Conns, InStep(c), NEW f, Goto(c, f), Reads(f, back'[c], heard'[c])
    PROVE  InStep(c)'
<1>1. call \in [Conns -> Calls]
  BY DEF TypeInv, CallInv
<1>2. /\ Top(c) = "sig" => call'[c] = [main |-> call[c].main, sig |-> f]
      /\ Top(c) = "main" => call'[c] = [main |-> f, sig |-> call[c].sig]
      /\ Top(c) \in {"sig", "main"} /\ (Top(c) = "main" <=> call[c].sig.at = "idle")
  BY <1>1, GotoEffect, TopFrame
<1>3. CASE Top(c) = "main"
  <2>1. call'[c].sig.at = "idle" /\ call'[c]["main"] = f
    BY <1>2, <1>3
  <2>2. Top(c)' = "main"
    BY <2>1 DEF Top
  <2>3. QED
    BY <2>1, <2>2, InStepNext
<1>4. CASE Top(c) = "sig"
  <2>1. call'[c].main = call[c].main /\ call'[c]["main"] = call[c].main
        /\ call'[c].sig = f /\ call'[c]["sig"] = f
    BY <1>2, <1>4
  <2>2. ~Amid(call[c].main)
    BY <1>4, InStepParts
  <2>3. CASE f.at = "idle"
    <3>1. Top(c)' = "main"
      BY <2>1, <2>3 DEF Top
    <3>2. ~Amid(f)
      BY <2>3 DEF Amid
    <3>3. Reads(call[c].main, back'[c], heard'[c])
      BY <2>2, <3>2, BetweenAnswers
    <3>4. QED
      BY <2>1, <3>1, <3>3, InStepNext
  <2>4. CASE f.at # "idle"
    <3>1. Top(c)' = "sig"
      BY <2>1, <2>4 DEF Top
    <3>2. QED
      BY <2>1, <2>2, <3>1, InStepNext
  <2>5. QED
    BY <2>3, <2>4
<1>5. QED
  BY <1>2, <1>3, <1>4

(* The start of the answer whose header is being read. *)
LEMMA HeadStart ==
    ASSUME NEW s \in Seq(Unit), Chain(s), NEW n \in Nat, n > 0, n <= HeadLen,
           NEW h \in 1..Len(s), s[h].at = n - 1
    PROVE  h - n + 1 \in 1..Len(s) /\ s[h - n + 1].at = 0
<1>1. Len(s) \in Nat /\ HeadLen \in Nat /\ h \in Nat /\ 1 <= h
  BY LenProperties, Lens
<1>2. n <= h
  <2>1. SUFFICES ASSUME h < n PROVE FALSE
    BY <1>1
  <2>2. 1 \in 1..Len(s) /\ 1 <= h
    BY <1>1
  <2>3. s[1].at = 0 /\ s[1].len \in Nat
    BY <1>1, <2>2, UnitFields DEF Chain
  <2>4. s[1].at + (h - 1) < HeadLen + s[1].len
    BY <1>1, <2>1, <2>3
  <2>5. s[h].at = s[1].at + (h - 1)
    BY <2>2, <2>4 DEF Chain
  <2>6. QED
    BY <1>1, <2>1, <2>3, <2>5
<1>3. PICK i \in 1..Len(s) : i = h - n + 1
  BY <1>1, <1>2
<1>4. s[i].at \in Nat /\ s[i].len \in Nat /\ s[i].at < HeadLen + s[i].len
  BY UnitFields DEF Chain
<1>5. PICK a \in Nat, w \in Nat : a = s[i].at /\ w = HeadLen + s[i].len
  BY <1>1, <1>4
<1>6. a < w /\ i <= h /\ i \in Nat /\ h - i = n - 1
  BY <1>1, <1>3, <1>4, <1>5
<1>7. \A j \in 1..Len(s) : i <= j /\ a + (j - i) = w => s[j].at = 0
  BY <1>5 DEF Chain
<1>8. CASE a + (h - i) < w
  <2>1. s[h].at = a + (h - i)
    <3>1. s[i].at + (h - i) < HeadLen + s[i].len
      BY <1>5, <1>8
    <3>2. s[h].at = s[i].at + (h - i)
      BY <1>6, <3>1 DEF Chain
    <3>3. QED
      BY <1>5, <3>2
  <2>2. a = 0
    BY <1>1, <1>6, <2>1
  <2>3. QED
    BY <1>3, <1>5, <2>2
<1>9. CASE ~(a + (h - i) < w)
  <2>1. PICK j \in Int : j = i + (w - a)
    BY <1>6
  <2>2. i < j /\ j <= h /\ a + (j - i) = w /\ h - j < HeadLen
    BY <1>1, <1>6, <1>9, <2>1
  <2>3. j \in 1..Len(s)
    BY <1>1, <1>6, <2>2
  <2>4. s[j].at = 0
    BY <1>7, <2>2, <2>3
  <2>5. 0 + (h - j) < HeadLen + s[j].len
    <3>1. PICK b \in Nat : b = s[j].len
      BY <2>3, UnitFields
    <3>2. h - j < HeadLen + b
      BY <1>1, <2>1, <2>2
    <3>3. QED
      BY <1>1, <2>1, <3>1, <3>2
  <2>6. s[h].at = 0 + (h - j)
    BY <2>2, <2>3, <2>4, <2>5 DEF Chain
  <2>7. h - j # n - 1
    BY <1>1, <1>6, <2>1, <2>2
  <2>8. QED
    BY <1>1, <2>1, <2>6, <2>7
<1>10. QED
  BY <1>8, <1>9

(* Units p+1 and on, up to the length of an answer, are those of one answer. *)
LEMMA HeadUnits ==
    ASSUME NEW s \in Seq(Unit), Chain(s), \A i \in 1..Len(s) : s[i].len = RespLen,
           NEW f \in Frame, f.at = "head", f.n < HeadLen, NEW h \in Nat, h < Len(s),
           Reads(f, s, h), f.n > 0 => h > 0
    PROVE  \E p \in Nat : /\ h = p + f.n /\ p + 1 \in 1..Len(s) /\ s[p + 1].at = 0
                          /\ \A d \in Nat : d < HeadLen + RespLen /\ p + 1 + d <= Len(s) =>
                                 p + 1 + d \in 1..Len(s) /\ s[p + 1 + d].at = d
<1>1. Len(s) \in Nat /\ HeadLen \in Nat \ {0} /\ RespLen \in Nat /\ f.n \in Nat
  BY LenProperties, Lens DEF Frame
<1>2. \E p \in Nat : h = p + f.n /\ p + 1 \in 1..Len(s) /\ s[p + 1].at = 0
  <2>1. CASE f.n = 0
    <3>1. AtBoundary(s, h)
      BY <1>1, <2>1 DEF Reads, Amid
    <3>2. PICK n \in Nat : n = (IF h = 0 THEN 0 ELSE s[h].msg)
      <4>1. CASE h = 0
        BY <4>1
      <4>2. CASE h # 0
        <5>1. h \in 1..Len(s)
          BY <1>1, <4>2
        <5>2. s[h].msg \in Nat
          BY <5>1, UnitFields
        <5>3. QED
          BY <4>2, <5>2
      <4>3. QED
        BY <4>1, <4>2
    <3>3. h \in 0..Len(s)
      BY <1>1
    <3>4. Boundary(s, h, n)
      BY <3>1, <3>2, <3>3 DEF Boundary, AtBoundary
    <3>5. h + 1 \in 1..Len(s) /\ s[h + 1].at = 0
      BY <3>4, BoundaryNext
    <3>6. h = h + f.n
      BY <2>1
    <3>7. QED
      BY <3>5, <3>6
  <2>2. CASE f.n # 0
    <3>1. f.n > 0 /\ h \in 1..Len(s) /\ f.n <= HeadLen
      BY <1>1, <2>2
    <3>2. s[h].at = f.n - 1
      BY <3>1 DEF Reads
    <3>3. PICK n \in Nat : n = f.n
      BY <1>1
    <3>4. n > 0 /\ n <= HeadLen /\ s[h].at = n - 1
      BY <3>1, <3>2, <3>3
    <3>5. h - n + 1 \in 1..Len(s) /\ s[h - n + 1].at = 0
      BY <3>1, <3>4, HeadStart
    <3>6. h - n \in Nat /\ h = (h - n) + n
      BY <1>1, <3>5
    <3>7. QED
      BY <3>3, <3>5, <3>6
  <2>3. QED
    BY <2>1, <2>2
<1>3. PICK p \in Nat : h = p + f.n /\ p + 1 \in 1..Len(s) /\ s[p + 1].at = 0
  BY <1>2
<1>4. ASSUME NEW d \in Nat, d < HeadLen + RespLen, p + 1 + d <= Len(s)
      PROVE  p + 1 + d \in 1..Len(s) /\ s[p + 1 + d].at = d
  <2>1. PICK i \in 1..Len(s), j \in 1..Len(s) : i = p + 1 /\ j = p + 1 + d
    <3>1. p + 1 + d \in 1..Len(s)
      BY <1>1, <1>4
    <3>2. QED
      BY <1>3, <3>1
  <2>2. i <= j /\ j - i = d
    BY <1>1, <2>1
  <2>3. s[i].at = 0 /\ s[i].len = RespLen
    BY <1>3, <2>1
  <2>4. s[i].at + (j - i) < HeadLen + s[i].len
    BY <1>1, <1>4, <2>2, <2>3
  <2>5. s[j].at = s[i].at + (j - i)
    BY <2>2, <2>4 DEF Chain
  <2>6. QED
    BY <2>1, <2>2, <2>3, <2>5
<1>5. QED
  BY <1>3, <1>4

LEMMA HearHeadInStep ==
    ASSUME TypeInv, NEW c \in Conns, over[c] = "no", RespInv(c), BackInv(c), InStep(c), HearHead(c)
    PROVE  InStep(c)'
<1> DEFINE frame == call[c][Top(c)]
           k == Min({Unheard(c), HeadLen - frame.n})
           s == back[c]
           h == heard[c]
<1>1. frame.at = "head" /\ k > 0 /\ heard' = [heard EXCEPT ![c] = @ + k] /\ back' = back
  BY DEF HearHead, At
<1>2. IF frame.n + k < HeadLen THEN Goto(c, [frame EXCEPT !.n = @ + k])
      ELSE \E head \in Announced(s, h + k) :
               Goto(c, [frame EXCEPT !.at = "body", !.n = 0, !.len = head.len, !.of = head.msg])
  BY DEF HearHead
<1>3. /\ frame \in Frame /\ RespFrame(frame, h) /\ h \in Nat /\ s \in Seq(Unit) /\ Len(s) \in Nat
      /\ frame.n \in Nat /\ HeadLen \in Nat \ {0} /\ RespLen \in Nat
      /\ \A i \in 1..Len(s) : s[i].len = RespLen
      /\ Chain(s) /\ Reads(frame, s, h)
  <2>1. frame \in Frame /\ RespFrame(frame, h) /\ h \in Nat /\ s \in Seq(Unit)
    BY TopResp
  <2>2. Len(s) \in Nat /\ frame.n \in Nat /\ HeadLen \in Nat \ {0} /\ RespLen \in Nat
    BY <2>1, LenProperties, Lens DEF Frame
  <2>3. (\A i \in 1..Len(s) : s[i].len = RespLen) /\ Chain(s)
    BY DEF RespInv, BackInv
  <2>4. Reads(frame, s, h)
    BY InStepParts
  <2>5. QED
    BY <2>1, <2>2, <2>3, <2>4
<1>4. k \in Nat /\ k <= Len(s) - h /\ k <= HeadLen - frame.n
  <2>1. HeadLen - frame.n \in Int
    BY <1>3
  <2>2. k \in Nat /\ k <= Unheard(c) /\ k <= HeadLen - frame.n
    BY <1>1, <2>1, HearMin
  <2> HIDE DEF k
  <2>3. QED
    BY <2>2 DEF Unheard
<1> HIDE DEF k
<1>5. heard'[c] = h + k /\ back'[c] = s
  BY <1>1 DEF TypeInv, StreamInv
<1> HIDE DEF frame, s, h
<1>6. h < Len(s) /\ frame.n < HeadLen /\ (frame.n > 0 => h > 0)
  <2>1. h < Len(s) /\ frame.n < HeadLen
    BY <1>1, <1>3, <1>4
  <2>2. QED
    BY <1>1, <1>3, <2>1 DEF RespFrame
<1>7. PICK p \in Nat : /\ h = p + frame.n /\ p + 1 \in 1..Len(s) /\ s[p + 1].at = 0
                       /\ \A d \in Nat : d < HeadLen + RespLen /\ p + 1 + d <= Len(s) =>
                              p + 1 + d \in 1..Len(s) /\ s[p + 1 + d].at = d
  <2>1. s \in Seq(Unit) /\ Chain(s) /\ frame \in Frame /\ h \in Nat /\ Reads(frame, s, h)
    BY <1>3
  <2>2. \A i \in 1..Len(s) : s[i].len = RespLen
    BY <1>3
  <2>3. frame.at = "head"
    BY <1>1
  <2>4. QED
    BY <1>6, <2>1, <2>2, <2>3, HeadUnits
<1>8. PICK n \in Nat : n = frame.n + k
  BY <1>3, <1>4
<1>9. h + k = p + n /\ n > 0 /\ n <= HeadLen /\ p + n <= Len(s)
  <2>1. n > 0 /\ n <= HeadLen
    BY <1>1, <1>3, <1>4, <1>8
  <2>2. h + k = p + n
    BY <1>3, <1>4, <1>7, <1>8
  <2>3. h + k <= Len(s)
    BY <1>3, <1>4
  <2>4. QED
    BY <2>1, <2>2, <2>3
<1>10. p + n \in 1..Len(s) /\ s[p + n].at = n - 1
  <2>1. PICK d \in Nat : d = n - 1
    BY <1>9
  <2>2. d < HeadLen + RespLen /\ p + 1 + d = p + n
    BY <1>3, <1>9, <2>1
  <2>3. p + 1 + d \in 1..Len(s) /\ s[p + 1 + d].at = d
    BY <1>7, <1>9, <2>2
  <2>4. QED
    BY <2>1, <2>2, <2>3
<1>11. CASE n < HeadLen
  <2> DEFINE f == [frame EXCEPT !.n = @ + k]
  <2>1. f.at = "head" /\ f.n = n
    BY <1>1, <1>3, <1>8 DEF Frame
  <2>2. Goto(c, f)
    BY <1>2, <1>8, <1>11
  <2> HIDE DEF f
  <2>3. Reads(f, s, p + n)
    BY <1>9, <1>10, <2>1 DEF Reads, Amid
  <2>4. Reads(f, back'[c], heard'[c])
    BY <1>5, <1>9, <2>3
  <2>5. QED
    BY <2>2, <2>4, GotoInStep
<1>12. CASE ~(n < HeadLen)
  <2>1. PICK head \in Announced(s, h + k) :
            Goto(c, [frame EXCEPT !.at = "body", !.n = 0, !.len = head.len, !.of = head.msg])
    BY <1>2, <1>8, <1>12
  <2> DEFINE f == [frame EXCEPT !.at = "body", !.n = 0, !.len = head.len, !.of = head.msg]
  <2>2. f.at = "body" /\ f.n = 0 /\ f.len = head.len /\ f.of = head.msg
    BY <1>3 DEF Frame
  <2>3. Goto(c, f)
    BY <2>1
  <2> HIDE DEF f
  <2>4. n = HeadLen
    BY <1>3, <1>9, <1>12
  <2>5. PICK upto \in Nat : upto = h + k
    BY <1>3, <1>4
  <2>6. upto >= HeadLen /\ upto - HeadLen + 1 = p + 1
    BY <1>3, <1>9, <2>4, <2>5
  <2>7. s[upto - HeadLen + 1].at = 0
    BY <1>7, <2>6
  <2>8. Announced(s, upto) = {[msg |-> s[upto - HeadLen + 1].msg, len |-> s[upto - HeadLen + 1].len]}
    BY <2>6, <2>7, AnnouncedHead
  <2>9. head \in Announced(s, upto)
    BY <2>5
  <2>10. head.msg = s[p + 1].msg /\ head.len = s[p + 1].len
    BY <2>6, <2>8, <2>9
  <2>11. s[p + 1].msg \in Nat /\ s[p + 1].msg >= 1 /\ s[p + 1].len = RespLen
    BY <1>3, <1>7, UnitFields DEF Chain
  <2>12. head.msg > 0 /\ head.len = RespLen
    BY <2>10, <2>11
  <2>13. s[p + n].at = HeadLen + f.n - 1 /\ s[p + n].len = RespLen /\ p + n # 0
    <3>1. HeadLen + 0 - 1 = n - 1
      BY <1>3, <2>4
    <3>2. QED
      BY <1>3, <1>9, <1>10, <2>2, <3>1
  <2>14. CASE f.n < f.len
    <3>1. Reads(f, s, p + n)
      BY <2>2, <2>12, <2>13, <2>14 DEF Reads, Amid
    <3>2. QED
      BY <1>5, <1>9, <2>3, <3>1, GotoInStep
  <2>15. CASE ~(f.n < f.len)
    <3>1. RespLen = 0
      BY <1>3, <2>2, <2>12, <2>15
    <3>2. s[p + n].at = HeadLen + s[p + n].len - 1
      BY <2>2, <2>13, <3>1
    <3>3. Reads(f, s, p + n)
      BY <2>2, <2>15, <3>2 DEF Reads, AtBoundary
    <3>4. QED
      BY <1>5, <1>9, <2>3, <3>3, GotoInStep
  <2>16. QED
    BY <2>14, <2>15
<1>13. QED
  BY <1>11, <1>12

LEMMA HearBodyInStep ==
    ASSUME TypeInv, NEW c \in Conns, over[c] = "no", RespInv(c), BackInv(c), InStep(c), HearBody(c)
    PROVE  InStep(c)'
<1> DEFINE frame == call[c][Top(c)]
           k == Min({Unheard(c), frame.len - frame.n})
           f == [frame EXCEPT !.n = @ + k]
           s == back[c]
           h == heard[c]
<1>1. /\ frame.at = "body" /\ k > 0 /\ heard' = [heard EXCEPT ![c] = @ + k] /\ back' = back
      /\ Goto(c, f)
  BY DEF HearBody, At
<1>2. /\ frame \in Frame /\ RespFrame(frame, h) /\ h \in Nat /\ s \in Seq(Unit) /\ Len(s) \in Nat
      /\ frame.n \in Nat /\ frame.len \in Nat /\ HeadLen \in Nat \ {0} /\ RespLen \in Nat
  <2>1. frame \in Frame /\ RespFrame(frame, h) /\ h \in Nat /\ s \in Seq(Unit)
    BY TopResp
  <2>2. Len(s) \in Nat /\ frame.n \in Nat /\ frame.len \in Nat /\ HeadLen \in Nat \ {0} /\ RespLen \in Nat
    BY <2>1, LenProperties, Lens DEF Frame
  <2>3. QED
    BY <2>1, <2>2
<1>3. (\A i \in 1..Len(s) : s[i].len = RespLen) /\ Chain(s) /\ Reads(frame, s, h)
  BY InStepParts DEF RespInv, BackInv
<1>4. k \in Nat /\ k <= Len(s) - h /\ k <= frame.len - frame.n
  <2>1. frame.len - frame.n \in Int
    BY <1>2
  <2>2. k \in Nat /\ k <= Unheard(c) /\ k <= frame.len - frame.n
    BY <1>1, <2>1, HearMin
  <2> HIDE DEF k
  <2>3. QED
    BY <2>2 DEF Unheard
<1> HIDE DEF k
<1>5. heard'[c] = h + k /\ back'[c] = s
  BY <1>1 DEF TypeInv, StreamInv
<1>6. f.at = "body" /\ f.n = frame.n + k /\ f.len = frame.len /\ f.of = frame.of
  BY <1>1, <1>2 DEF Frame
<1> HIDE DEF frame, f, s, h
<1>7. frame.n < frame.len
  BY <1>1, <1>2, <1>4
<1>8. frame.of > 0 /\ s[h].at = HeadLen + frame.n - 1 /\ frame.len = RespLen /\ h > 0
  BY <1>1, <1>2, <1>3, <1>7 DEF Reads, RespFrame
<1>9. PICK n \in Nat, m \in Nat : n = frame.n /\ m = frame.n + k
  BY <1>2, <1>4
<1>10. m = n + k /\ m <= RespLen
  <2>1. m = n + k
    BY <1>9
  <2>2. frame.n + k <= frame.len
    BY <1>2, <1>4
  <2>3. QED
    BY <1>8, <1>9, <2>1, <2>2
<1>11. PICK i \in 1..Len(s), j \in 1..Len(s) : i = h /\ j = h + k
  <2>1. h \in 1..Len(s) /\ h + k \in 1..Len(s)
    BY <1>1, <1>2, <1>4, <1>8
  <2>2. QED
    BY <2>1
<1>12. i <= j /\ j - i = k
  BY <1>2, <1>4, <1>11
<1>13. s[i].at = HeadLen + n - 1 /\ s[i].len = RespLen /\ s[j].len = RespLen
  BY <1>3, <1>8, <1>9, <1>11
<1>14. HeadLen + n - 1 + k = HeadLen + m - 1 /\ HeadLen + m - 1 < HeadLen + RespLen
  BY <1>2, <1>4, <1>10
<1>15. s[i].at + (j - i) < HeadLen + s[i].len
  BY <1>12, <1>13, <1>14
<1>16. s[j].at = s[i].at + (j - i)
  BY <1>3, <1>12, <1>15 DEF Chain
<1>17. s[h + k].at = HeadLen + m - 1 /\ s[h + k].len = RespLen
  BY <1>11, <1>12, <1>13, <1>14, <1>16
<1>18. f.n = m /\ f.len = RespLen /\ f.of > 0
  BY <1>6, <1>8, <1>9
<1>19. Reads(f, s, h + k)
  <2>1. CASE m < RespLen
    BY <1>6, <1>17, <1>18, <2>1 DEF Reads, Amid
  <2>2. CASE ~(m < RespLen)
    <3>1. m = RespLen
      BY <1>2, <1>10, <2>2
    <3>2. s[h + k].at = HeadLen + s[h + k].len - 1
      BY <1>17, <3>1
    <3>3. QED
      BY <1>6, <1>18, <2>2, <3>2 DEF Reads, AtBoundary
  <2>3. QED
    BY <2>1, <2>2
<1>20. Reads(f, back'[c], heard'[c])
  BY <1>5, <1>19
<1>21. QED
  BY <1>1, <1>20, GotoInStep

LEMMA BetweenInStep ==
    ASSUME TypeInv, NEW c \in Conns, over[c] = "no", InStep(c),
           Begin(c) \/ SendSome(c) \/ Heard(c)
    PROVE  InStep(c)'
<1> DEFINE frame == call[c][Top(c)]
<1>1. UNCHANGED <<back, heard>>
  BY DEF Begin, SendSome, Heard, network
<1>2. frame \in Frame
  BY TopOK DEF TypeInv
<1>3. ~Amid(frame) /\ \E f : Goto(c, f) /\ ~Amid(f)
  <2>1. CASE Begin(c)
    <3>1. PICK len \in Contents : Goto(c, [Idle EXCEPT !.at = "send", !.len = len])
      BY <2>1 DEF Begin
    <3>2. ~Amid([Idle EXCEPT !.at = "send", !.len = len])
      BY DEF Amid, Idle
    <3>3. ~Amid(frame)
      BY <2>1 DEF Begin, At, Amid
    <3>4. QED
      BY <3>1, <3>2, <3>3
  <2>2. CASE SendSome(c)
    <3>1. frame.at = "send"
      BY <2>2 DEF SendSome, At
    <3>2. PICK k, m : SendTo(c, m, frame, k)
      BY <2>2 DEF SendSome
    <3>3. ~Amid(AwaitAnswer(m))
      BY DEF Amid, AwaitAnswer, Idle
    <3>4. ~Amid([frame EXCEPT !.n = k, !.msg = m]) /\ ~Amid(frame)
      BY <1>2, <3>1 DEF Amid, Frame
    <3> HIDE DEF frame
    <3>5. QED
      BY <3>2, <3>3, <3>4 DEF SendTo
  <2>3. CASE Heard(c)
    <3>1. Goto(c, Idle) /\ frame.at = "body" /\ frame.n = frame.len
      BY <2>3 DEF Heard, At
    <3>2. ~Amid(Idle)
      BY DEF Amid, Idle
    <3>3. ~Amid(frame)
      <4>1. frame.len \in Nat
        BY <1>2, Lens DEF Frame
      <4>2. QED
        BY <3>1, <4>1 DEF Amid
    <3>4. QED
      BY <3>1, <3>2, <3>3
  <2>4. QED
    BY <2>1, <2>2, <2>3
<1>4. PICK f : Goto(c, f) /\ ~Amid(f)
  BY <1>3
<1>5. Reads(frame, back[c], heard[c])
  BY InStepParts
<1> HIDE DEF frame
<1>6. Reads(f, back'[c], heard'[c])
  BY <1>1, <1>3, <1>4, <1>5, BetweenAnswers
<1>7. QED
  BY <1>4, <1>6, GotoInStep

LEMMA AlarmInStep ==
    ASSUME TypeInv, NEW c \in Conns, InStep(c), Alarm(c), ~Amid(call[c].main)
    PROVE  InStep(c)'
<1> DEFINE f == [Idle EXCEPT !.at = "send", !.len = RespLen]
<1>1. /\ call[c].sig.at = "idle" /\ call' = [call EXCEPT ![c].sig = f]
      /\ UNCHANGED <<back, heard>>
  BY DEF Alarm, network
<1>2. call \in [Conns -> Calls]
  BY DEF TypeInv, CallInv
<1>3. call'[c].main = call[c].main /\ call'[c].sig = f
  BY <1>1, <1>2 DEF Calls
<1>4. f.at = "send" /\ ~Amid(f)
  BY DEF Idle, Amid
<1> HIDE DEF f
<1>5. Top(c) = "main" /\ call[c][Top(c)] = call[c].main
  BY <1>1, <1>2, TopFrame
<1>6. Reads(f, back[c], heard[c])
  BY <1>4, <1>5, InStepParts, BetweenAnswers
<1>7. Top(c)' = "sig" /\ call'[c][Top(c)'] = f
  BY <1>3, <1>4 DEF Top
<1>8. QED
  BY <1>1, <1>3, <1>6, <1>7, InStepNext

LEMMA HandleInStep ==
    ASSUME TypeInv, NEW c \in Conns, RespInv(c), InStep(c), NEW d \in Conns, Handle(d)
    PROVE  InStep(c)'
<1>1. call' = call /\ heard' = heard
  BY DEF Handle
<1>2. CASE back'[c] = back[c]
  BY <1>1, <1>2, InStepKept
<1>3. CASE back'[c] # back[c]
  <2> DEFINE frame == call[c][Top(c)]
             h == heard[c]
  <2>1. /\ Len(back[c]) <= Len(back'[c])
        /\ \A i \in 1..Len(back[c]) : back'[c][i] = back[c][i]
    BY <1>3, HandleGrows
  <2>2. RespFrame(frame, h) /\ h \in Nat /\ h <= Len(back[c]) /\ Len(back[c]) \in Nat
    BY TopResp, LenProperties
  <2>3. Reads(frame, back[c], h) /\ (Top(c) = "sig" => ~Amid(call[c].main))
    BY InStepParts
  <2> HIDE DEF frame
  <2>4. Reads(frame, back'[c], h)
    <3>1. CASE h = 0
      <4>1. ~Amid(frame)
        BY <2>2, <3>1 DEF RespFrame, Amid
      <4>2. QED
        BY <3>1, <4>1 DEF Reads, AtBoundary, Amid
    <3>2. CASE h # 0
      <4>1. back'[c][h] = back[c][h]
        BY <2>1, <2>2, <3>2
      <4>2. QED
        BY <2>3, <4>1 DEF Reads, AtBoundary
    <3>3. QED
      BY <3>1, <3>2
  <2>5. Top(c)' = Top(c) /\ call'[c][Top(c)'] = frame
    BY <1>1 DEF Top, frame
  <2>6. QED
    BY <1>1, <2>3, <2>4, <2>5, InStepNext
<1>4. QED
  BY <1>2, <1>3

(* A step of another follower. *)
LEMMA GotoOther ==
    ASSUME TypeInv, NEW c \in Conns, NEW d \in Conns, d # c, NEW f, Goto(d, f)
    PROVE  call'[c] = call[c]
  BY GotoEffect DEF TypeInv, CallInv

LEMMA OtherInStep ==
    ASSUME TypeInv, NEW c \in Conns, InStep(c), NEW d \in Conns, d # c,
           Begin(d) \/ Alarm(d) \/ FollowerNext(d) \/ FollowerDies(d) \/ Reset(d) \/ HostVanishes(d)
    PROVE  InStep(c)'
<1>1. call \in [Conns -> Calls] /\ back \in [Conns -> Seq(Unit)] /\ heard \in [Conns -> Nat]
  BY DEF TypeInv, CallInv, StreamInv
<1>2. CASE Begin(d) \/ FollowerNext(d)
  <2>1. (\E f : Goto(d, f)) /\ back' = back
    BY <1>2 DEF Begin, FollowerNext, SendSome, SendTo, SendFails, HearHead, HearBody, Heard, HearEnd,
                network
  <2>2. heard'[c] = heard[c]
    BY <1>1, <1>2 DEF Begin, FollowerNext, SendSome, SendFails, HearHead, HearBody, Heard, HearEnd,
                      network
  <2>3. call'[c] = call[c]
    BY <2>1, GotoOther
  <2>4. QED
    BY <2>1, <2>2, <2>3, InStepKept
<1>3. CASE Alarm(d)
  <2>1. call'[c] = call[c] /\ back' = back /\ heard' = heard
    BY <1>1, <1>3 DEF Alarm, network
  <2>2. QED
    BY <2>1, InStepKept
<1>4. CASE FollowerDies(d) \/ HostVanishes(d)
  <2>1. call'[c] = call[c] /\ back'[c] = back[c] /\ heard'[c] = heard[c]
    BY <1>1, <1>4 DEF FollowerDies, HostVanishes, Gone
  <2>2. QED
    BY <2>1, InStepKept
<1>5. CASE Reset(d)
  <2>1. call'[c] = call[c] /\ back'[c] = back[c] /\ heard'[c] = heard[c]
    BY <1>1, <1>5 DEF Reset
  <2>2. QED
    BY <2>1, InStepKept
<1>6. QED
  BY <1>2, <1>3, <1>4, <1>5

LEMMA StepInStep ==
    ASSUME TypeInv, \A d \in Conns : BackInv(d), \A d \in Conns : RespInv(d), [Next]_vars,
           NEW c \in Conns, InStep(c), ~InStep(c)', over'[c] = "no"
    PROVE  call[c].sig.at = "idle" /\ call'[c].sig.at = "send" /\ Amid(call[c].main)
<1>1. ~UNCHANGED <<call, back, heard>>
  BY InStepKept
<1>2. ~UNCHANGED vars
  BY <1>1 DEF vars, network
<1>3. ~\E d \in Conns : Deliver(d)
  BY <1>1 DEF Deliver, Arrive, EndArrives
<1>4. ~AggregatorNext
  <2>1. SUFFICES ASSUME AggregatorNext PROVE FALSE
    OBVIOUS
  <2>2. ~\E d \in Conns : Handle(d)
    BY HandleInStep
  <2>3. UNCHANGED <<call, back, heard>>
    BY <2>1, <2>2 DEF AggregatorNext, EpollWait, Receive, RecvHead, RecvBody, CloseConnection,
                      ShortHead, network
  <2>4. QED
    BY <1>1, <2>3
<1>5. PICK d \in Conns : Begin(d) \/ Alarm(d) \/ FollowerNext(d)
                         \/ FollowerDies(d) \/ Reset(d) \/ HostVanishes(d)
  BY <1>2, <1>3, <1>4 DEF Next
<1>6. d = c
  BY <1>5, OtherInStep
<1>7. ~(FollowerDies(c) \/ Reset(c) \/ HostVanishes(c))
  <2>1. over \in [Conns -> {"no", "closed", "reset", "mute"}]
    BY DEF TypeInv, StreamInv
  <2>2. QED
    BY <2>1 DEF FollowerDies, Reset, HostVanishes
<1>8. over' = over /\ over[c] = "no"
  <2>1. over' = over
    BY <1>5, <1>6, <1>7 DEF Begin, Alarm, FollowerNext, SendSome, SendFails, HearHead, HearBody,
                            Heard, HearEnd, network
  <2>2. QED
    BY <2>1
<1>9. ~SendFails(c) /\ ~HearEnd(c)
  BY <1>8 DEF SendFails, HearEnd
<1>10. Alarm(c)
  BY <1>5, <1>6, <1>7, <1>8, <1>9, HearHeadInStep, HearBodyInStep, BetweenInStep DEF FollowerNext
<1>11. Amid(call[c].main)
  BY <1>10, AlarmInStep
<1>12. call[c].sig.at = "idle" /\ call'[c].sig.at = "send"
  <2>1. call[c].sig.at = "idle"
        /\ call' = [call EXCEPT ![c].sig = [Idle EXCEPT !.at = "send", !.len = RespLen]]
    BY <1>10 DEF Alarm
  <2>2. call \in [Conns -> Calls]
    BY DEF TypeInv, CallInv
  <2>3. call'[c].sig = [Idle EXCEPT !.at = "send", !.len = RespLen]
    BY <2>1, <2>2 DEF Calls
  <2>4. QED
    BY <2>1, <2>3 DEF Idle
<1>13. QED
  BY <1>11, <1>12

(* A follower that has read as far as its exchange believes to have goes on  *)
(* to do so, whatever the lengths and however the answers arrive, but for    *)
(* the alarm that falls between the reads of one answer.                     *)
THEOREM OutOfStepHolds == Spec => OutOfStep
<1> DEFINE Backs == \A d \in Conns : BackInv(d)
           Resps == \A d \in Conns : RespInv(d)
           Keeps == \A c \in Conns :
                        InStep(c) /\ ~InStep(c)' /\ over'[c] = "no" =>
                            /\ call[c].sig.at = "idle" /\ call'[c].sig.at = "send"
                            /\ Amid(call[c].main)
<1>1. Init => Backs /\ Resps
  BY InitBack, InitResp
<1>2. StreamsInv /\ Backs /\ [Next]_vars => Backs'
  <2>1. SUFFICES ASSUME StreamsInv, Backs, [Next]_vars PROVE Backs'
    OBVIOUS
  <2>2. TypeInv /\ (\A c \in Conns : SendInv(c)) /\ (\A c \in Conns : ReadInv(c))
    BY <2>1 DEF StreamsInv
  <2>3. QED
    BY <2>1, <2>2, StepBack
<1>3. StreamsInv /\ StreamsInv' /\ Resps /\ [Next]_vars => Resps'
  <2>1. SUFFICES ASSUME StreamsInv, StreamsInv', Resps, [Next]_vars PROVE Resps'
    OBVIOUS
  <2>2. TypeInv /\ TypeInv'
    BY <2>1 DEF StreamsInv
  <2>3. QED
    BY <2>1, <2>2, StepResp
<1>4. StreamsInv /\ Backs /\ Resps /\ [Next]_vars => [Keeps]_vars
  <2>1. SUFFICES ASSUME StreamsInv, Backs, Resps, [Next]_vars PROVE Keeps
    OBVIOUS
  <2>2. TypeInv
    BY <2>1 DEF StreamsInv
  <2>3. QED
    BY <2>1, <2>2, StepInStep
<1>5. OutOfStep <=> [][Keeps]_vars
  BY PTL DEF OutOfStep
<1> HIDE DEF Backs, Resps, Keeps
<1>6. QED
  BY <1>1, <1>2, <1>3, <1>4, <1>5, StreamsInvariant, PTL DEF Spec
==============================================================================
