---------------------------- MODULE RawStreamProofs ----------------------------
(***************************************************************************)
(* Theorems about VirtualDevice::emit and the asynchronous stream over a   *)
(* RawDevice, for every set of batch lengths, ring size and batch size.    *)
(***************************************************************************)
EXTENDS RawStream, TLAPS

-----------------------------------------------------------------------------
(* The inductive invariant *)

\* The packet ends with n events of the emit under way, and has others only
\* if it is torn.
Holds(n) ==
    /\ n <= Len(packet)
    /\ \A i \in Len(packet) - n + 1 .. Len(packet) : packet[i] = emits
    /\ torn \/ Len(packet) = n

\* What fd_write_all has written of the batch is in the packet, and stays there
\* when it has ended; between two emits only a torn packet has events.
PacketInv ==
    /\ wpc # "idle" => emits >= 1
    /\ wpc = "idle" => data = 0 /\ (packet = <<>> \/ torn)
    /\ wpc = "batch" => data <= asked /\ Holds(asked - data)
    /\ wpc = "report" => \/ data = 1 /\ Holds(asked - untaken)
                         \/ data = 0 /\ packet = <<>>

Ascending(s) == \A i, j \in 1 .. Len(s) : i < j => s[i] < s[j]

\* Serials ascend from what was taken over the buffer behind index and the
\* ring to the open packet; those in front of index were taken.
OrderInv ==
    /\ Ascending(event_buf) /\ Ascending(ring)
    /\ \A i \in 1 .. Len(event_buf) : \A j \in 1 .. Len(ring) : event_buf[i] < ring[j]
    /\ \A i \in 1 .. Len(event_buf) :
          IF i <= index THEN event_buf[i] <= taken ELSE taken < event_buf[i]
    /\ \A j \in 1 .. Len(ring) : taken < ring[j] /\ ring[j] + Len(packet) <= sent
    /\ \A i \in 1 .. Len(event_buf) : event_buf[i] + Len(packet) <= sent
    /\ taken + Len(packet) <= sent
    /\ pc = "wait" => event_buf = <<>> /\ index = 0

IInv == TypeOK /\ PacketInv /\ OrderInv

-----------------------------------------------------------------------------
(* Sequences and the ring *)

\* Sequences of numbers are equal if they agree everywhere.
LEMMA SeqExtensional ==
  ASSUME NEW S, NEW s \in Seq(S), NEW t \in Seq(S), Len(s) = Len(t),
         \A i \in 1 .. Len(s) : s[i] = t[i]
  PROVE  s = t
OBVIOUS

LEMMA Concatenation ==
  ASSUME NEW S, NEW s \in Seq(S), NEW t \in Seq(S)
  PROVE  /\ s \o t \in Seq(S) /\ Len(s \o t) = Len(s) + Len(t)
         /\ Len(s) \in Nat /\ Len(t) \in Nat
         /\ \A i \in 1 .. Len(s) : (s \o t)[i] = s[i]
         /\ \A i \in 1 .. Len(t) : (s \o t)[Len(s) + i] = t[i]
OBVIOUS

LEMMA Stretch ==
  ASSUME NEW S, NEW s \in Seq(S), NEW a \in Nat \ {0}, NEW b \in 0 .. Len(s), a <= b + 1
  PROVE  /\ SubSeq(s, a, b) \in Seq(S) /\ Len(SubSeq(s, a, b)) = b - a + 1
         /\ \A i \in 1 .. b - a + 1 : SubSeq(s, a, b)[i] = s[a - 1 + i]
OBVIOUS

LEMMA Consecutive ==
  ASSUME NEW n \in Nat, NEW a \in Int, \A i \in 1 .. n : a + i \in Nat
  PROVE  [i \in 1 .. n |-> a + i] \in Seq(Nat) /\ Len([i \in 1 .. n |-> a + i]) = n
OBVIOUS

LEMMA Remainder ==
  ASSUME NEW x \in Nat, NEW m \in Nat \ {0}
  PROVE  x % m \in 0 .. m - 1 /\ x % m <= x
OBVIOUS

\* After the events lo .. hi a ring holds what it did and all of them, or the
\* newest of them, with a SYN_DROPPED in front that may take the number before
\* lo, which was in the ring then.
LEMMA PushedRing ==
  ASSUME NEW q \in Seq(Nat), Len(q) < RingSize, NEW lo \in Nat \ {0}, NEW hi \in Nat,
         lo <= hi
  PROVE  /\ Len(Pushed(q, lo, hi)) < RingSize
         /\ Pushed(q, lo, hi) \in Seq(Nat)
         /\ \/ Pushed(q, lo, hi) = q \o [i \in 1 .. hi - lo + 1 |-> lo - 1 + i]
            \/ \E kept \in Nat :
                 /\ Pushed(q, lo, hi) = [i \in 1 .. kept |-> hi - kept + i]
                 /\ kept <= hi - lo + 2
                 /\ kept = hi - lo + 2 => q # <<>>
<1> DEFINE over == Len(q) + (hi - lo + 1) - RingSize
           r == over % (RingSize - 2)
           kept == 2 + r
           new == [i \in 1 .. hi - lo + 1 |-> lo - 1 + i]
<1>1. RingSize \in Nat /\ RingSize > 2 /\ RingSize - 2 \in Nat \ {0} /\ Len(q) \in Nat
      /\ hi - lo + 1 \in Nat
  BY EmitterAssumption
<1>2. new \in Seq(Nat) /\ Len(new) = hi - lo + 1
  BY <1>1
<1>3. CASE over < 0
  <2>1. Pushed(q, lo, hi) = q \o new BY <1>3 DEF Pushed
  <2> HIDE DEF new
  <2>2. q \o new \in Seq(Nat) /\ Len(q \o new) = Len(q) + Len(new)
    BY <1>2, Concatenation
  <2> QED BY <2>1, <2>2, <1>1, <1>2, <1>3 DEF new
<1>4. CASE ~ (over < 0)
  <2>1. over \in Nat BY <1>1, <1>4
  <2>2. r \in 0 .. RingSize - 3 /\ r <= over
    <3> HIDE DEF over
    <3>1. r \in 0 .. (RingSize - 2) - 1 /\ r <= over BY <2>1, <1>1, Remainder
    <3> QED BY <3>1, <1>1
  <2>3. Pushed(q, lo, hi) = [i \in 1 .. kept |-> hi - kept + i] BY <1>4 DEF Pushed
  <2> HIDE DEF r
  <2>4. kept \in Nat /\ kept < RingSize /\ kept <= hi - lo + 2
    BY <2>2, <1>1
  <2>5. kept = hi - lo + 2 => q # <<>>
    <3> SUFFICES ASSUME kept = hi - lo + 2, q = <<>> PROVE FALSE OBVIOUS
    <3>1. Len(q) = 0 OBVIOUS
    <3> QED BY <3>1, <2>2, <1>1
  <2>6. \A i \in 1 .. kept : hi - kept + i \in Nat BY <2>4
  <2> HIDE DEF kept
  <2>7. /\ [i \in 1 .. kept |-> hi - kept + i] \in Seq(Nat)
        /\ Len([i \in 1 .. kept |-> hi - kept + i]) = kept
    BY <2>4, <2>6
  <2> QED BY <2>3, <2>4, <2>5, <2>7
<1> QED BY <1>3, <1>4

LEMMA SeqElements ==
  ASSUME NEW S, NEW T, NEW s \in Seq(S), \A i \in 1 .. Len(s) : s[i] \in T
  PROVE  s \in Seq(T)
OBVIOUS

\* The lengths and the elements of the buffer, the ring and the packet.
LEMMA Types ==
  ASSUME TypeOK
  PROVE  /\ sent \in Nat /\ taken \in Nat /\ index \in Nat /\ data \in Nat /\ asked \in Nat
         /\ emits \in Nat /\ RingSize \in Nat /\ untaken \in Nat /\ untaken <= asked
         /\ event_buf \in Seq(Nat) /\ Len(event_buf) \in Nat
         /\ ring \in Seq(Nat) /\ Len(ring) \in Nat /\ Len(packet) \in Nat
         /\ \A i \in 1 .. Len(event_buf) : event_buf[i] \in Nat /\ 1 <= event_buf[i]
         /\ \A i \in 1 .. Len(ring) : ring[i] \in Nat /\ 1 <= ring[i]
         /\ packet = <<>> <=> Len(packet) = 0
         /\ ring = <<>> <=> Len(ring) = 0
<1>1. /\ sent \in Nat /\ taken \in Nat /\ index \in Nat /\ emits \in Nat /\ RingSize \in Nat
      /\ event_buf \in Seq(1 .. sent) /\ ring \in Seq(1 .. sent) /\ packet \in Seq(1 .. MaxEmits)
      /\ asked \in Nat
  BY EmitterAssumption DEF TypeOK, EmitterTypeOK
<1>2. data \in Nat /\ untaken \in Nat /\ untaken <= asked
  BY <1>1 DEF TypeOK, EmitterTypeOK
<1>3. /\ \A i \in 1 .. Len(event_buf) : event_buf[i] \in Nat /\ 1 <= event_buf[i]
      /\ \A i \in 1 .. Len(ring) : ring[i] \in Nat /\ 1 <= ring[i]
  BY <1>1
<1>4. event_buf \in Seq(Nat) /\ ring \in Seq(Nat) BY <1>1, <1>3, SeqElements
<1> QED BY <1>1, <1>2, <1>3, <1>4

\* An ascending ring still ascends after them, up to hi, and nothing older than
\* all of it and all of them is as new as what is in it then.
LEMMA PushedOrder ==
  ASSUME NEW q \in Seq(Nat), Len(q) < RingSize, NEW lo \in Nat \ {0}, NEW hi \in Nat,
         lo <= hi, Ascending(q), \A j \in 1 .. Len(q) : q[j] < lo
  PROVE  /\ Ascending(Pushed(q, lo, hi))
         /\ \A j \in 1 .. Len(Pushed(q, lo, hi)) :
               /\ Pushed(q, lo, hi)[j] <= hi
               /\ \A x \in Nat : x < lo /\ (\A k \in 1 .. Len(q) : x < q[k])
                                 => x < Pushed(q, lo, hi)[j]
<1> DEFINE p == Pushed(q, lo, hi)
<1>1. /\ p \in Seq(Nat)
      /\ \/ p = q \o [i \in 1 .. hi - lo + 1 |-> lo - 1 + i]
         \/ \E kept \in Nat :
              /\ p = [i \in 1 .. kept |-> hi - kept + i]
              /\ kept <= hi - lo + 2
              /\ kept = hi - lo + 2 => q # <<>>
  BY PushedRing
<1> HIDE DEF p
<1>2. Len(q) \in Nat /\ \A k \in 1 .. Len(q) : q[k] \in Nat OBVIOUS
<1> SUFFICES /\ Ascending(p)
             /\ \A j \in 1 .. Len(p) :
                  /\ p[j] <= hi
                  /\ \A x \in Nat : x < lo /\ (\A k \in 1 .. Len(q) : x < q[k]) => x < p[j]
  BY DEF p
<1>3. CASE p = q \o [i \in 1 .. hi - lo + 1 |-> lo - 1 + i]
  <2> DEFINE new == [i \in 1 .. hi - lo + 1 |-> lo - 1 + i]
  <2>2. /\ new \in Seq(Nat) /\ Len(new) = hi - lo + 1
        /\ \A i \in 1 .. hi - lo + 1 : new[i] = lo - 1 + i
    <3>1. new \in Seq(Nat) /\ Len(new) = hi - lo + 1
      <4> DEFINE n == hi - lo + 1
                 a == lo - 1
      <4>1. n \in Nat /\ a \in Int /\ \A i \in 1 .. n : a + i \in Nat OBVIOUS
      <4>2. new = [i \in 1 .. n |-> a + i] OBVIOUS
      <4> HIDE DEF n, a, new
      <4>3. new \in Seq(Nat) /\ Len(new) = n BY <4>1, <4>2, Consecutive
      <4> QED BY <4>3 DEF n
    <3>2. \A i \in 1 .. hi - lo + 1 : new[i] = lo - 1 + i OBVIOUS
    <3> QED BY <3>1, <3>2
  <2>3. p = q \o new BY <1>3
  <2> HIDE DEF new
  <2>4. /\ Len(p) = Len(q) + Len(new)
        /\ \A i \in 1 .. Len(q) : p[i] = q[i]
        /\ \A i \in 1 .. Len(new) : p[Len(q) + i] = new[i]
    <3>1. /\ Len(q \o new) = Len(q) + Len(new)
          /\ \A i \in 1 .. Len(q) : (q \o new)[i] = q[i]
          /\ \A i \in 1 .. Len(new) : (q \o new)[Len(q) + i] = new[i]
      <4>1. new \in Seq(Nat) BY <2>2
      <4> QED BY <4>1, Concatenation
    <3> QED BY <2>3, <3>1
  <2>5. ASSUME NEW j \in 1 .. Len(p), ~ j \in 1 .. Len(q)
        PROVE  p[j] = lo - 1 + (j - Len(q)) /\ j - Len(q) \in 1 .. hi - lo + 1
    <3>1. j - Len(q) \in 1 .. Len(new) BY <2>2, <2>4, <2>5, <1>2
    <3>2. Len(q) + (j - Len(q)) = j BY <1>2
    <3>3. p[j] = new[j - Len(q)] BY <2>4, <3>1, <3>2
    <3> QED BY <3>1, <3>3, <2>2
  <2>6. Ascending(p)
    <3> SUFFICES ASSUME NEW i \in 1 .. Len(p), NEW j \in 1 .. Len(p), i < j
                 PROVE  p[i] < p[j]
      BY DEF Ascending
    <3>1. CASE j \in 1 .. Len(q)
      <4>1. i \in 1 .. Len(q) BY <3>1, <1>2
      <4> QED BY <4>1, <3>1, <2>4 DEF Ascending
    <3>2. CASE ~ j \in 1 .. Len(q) /\ i \in 1 .. Len(q)
      <4>1. p[i] = q[i] /\ q[i] < lo /\ q[i] \in Nat BY <3>2, <2>4, <1>2
      <4> QED BY <4>1, <3>2, <2>5, <1>2
    <3>3. CASE ~ j \in 1 .. Len(q) /\ ~ i \in 1 .. Len(q)
      BY <3>3, <2>5, <1>2
    <3> QED BY <3>1, <3>2, <3>3
  <2>7. ASSUME NEW j \in 1 .. Len(p)
        PROVE  /\ p[j] <= hi
               /\ \A x \in Nat : x < lo /\ (\A k \in 1 .. Len(q) : x < q[k]) => x < p[j]
    <3>1. CASE j \in 1 .. Len(q)
      <4>1. p[j] = q[j] /\ q[j] < lo /\ q[j] \in Nat BY <3>1, <2>4, <1>2
      <4> QED BY <4>1, <3>1
    <3>2. CASE ~ j \in 1 .. Len(q)
      <4>1. p[j] = lo - 1 + (j - Len(q)) /\ j - Len(q) \in 1 .. hi - lo + 1
        BY <3>2, <2>5
      <4> QED BY <4>1
    <3> QED BY <3>1, <3>2
  <2> QED BY <2>6, <2>7
<1>4. CASE \E kept \in Nat :
             /\ p = [i \in 1 .. kept |-> hi - kept + i]
             /\ kept <= hi - lo + 2
             /\ kept = hi - lo + 2 => q # <<>>
  <2>1. PICK kept \in Nat : /\ p = [i \in 1 .. kept |-> hi - kept + i]
                            /\ kept <= hi - lo + 2
                            /\ kept = hi - lo + 2 => q # <<>>
    BY <1>4
  <2>2. Len(p) = kept BY <1>1, <2>1
  <2>3. \A j \in 1 .. kept : p[j] = hi - kept + j BY <2>1
  <2>4. Ascending(p) BY <2>2, <2>3 DEF Ascending
  <2>5. \A j \in 1 .. kept : p[j] <= hi /\ hi - kept + 1 <= p[j] BY <2>3
  <2>6. ASSUME NEW x \in Nat, x < lo, \A k \in 1 .. Len(q) : x < q[k]
        PROVE  x < hi - kept + 1
    <3>1. CASE hi - kept + 1 >= lo BY <2>6, <3>1
    <3>2. CASE ~ (hi - kept + 1 >= lo)
      <4>1. kept = hi - lo + 2 BY <3>2, <2>1
      <4>2. 1 \in 1 .. Len(q) BY <4>1, <2>1, <1>2
      <4>3. x < q[1] /\ q[1] < lo /\ q[1] \in Nat BY <4>2, <1>2, <2>6
      <4> QED BY <4>1, <4>3
    <3> QED BY <3>1, <3>2
  <2>7. ASSUME NEW j \in 1 .. Len(p), NEW x \in Nat, x < lo,
               \A k \in 1 .. Len(q) : x < q[k]
        PROVE  x < p[j]
    <3>1. x < hi - kept + 1 BY <2>6, <2>7
    <3>2. hi - kept + 1 <= p[j] /\ p[j] \in Nat BY <2>2, <2>5, <1>1
    <3> QED BY <3>1, <3>2
  <2> QED BY <2>2, <2>4, <2>5, <2>7
<1> QED BY <1>1, <1>3, <1>4

\* A SYN_REPORT leaves a ring that ascends and is newer than the buffer.
LEMMA PassedRing ==
  ASSUME IInv, PassPacket
  PROVE  /\ ring' \in Seq(1 .. sent') /\ Len(ring') < RingSize
         /\ Ascending(ring')
         /\ \A j \in 1 .. Len(ring') :
               /\ taken < ring'[j] /\ ring'[j] <= sent'
               /\ \A i \in 1 .. Len(event_buf) : event_buf[i] < ring'[j]
<1> DEFINE lo == sent - Len(packet) + 1
           hi == sent + 1
<1>1. TypeOK /\ OrderInv BY DEF IInv
<1>2. /\ sent \in Nat /\ taken \in Nat /\ Len(packet) \in Nat /\ taken + Len(packet) <= sent
      /\ ring \in Seq(Nat) /\ Len(ring) \in Nat /\ ring \in Seq(1 .. sent)
      /\ \A i \in 1 .. Len(ring) : ring[i] \in Nat /\ 1 <= ring[i]
      /\ \A i \in 1 .. Len(event_buf) : event_buf[i] \in Nat
      /\ Len(ring) < RingSize
      /\ sent' = sent + 1
  BY <1>1, Types DEF OrderInv, TypeOK, EmitterTypeOK, PassPacket
<1>3. /\ \A j \in 1 .. Len(ring) : taken < ring[j] /\ ring[j] + Len(packet) <= sent
      /\ \A i \in 1 .. Len(event_buf) : event_buf[i] + Len(packet) <= sent
      /\ \A i \in 1 .. Len(event_buf) : \A j \in 1 .. Len(ring) : event_buf[i] < ring[j]
      /\ Ascending(ring)
  BY <1>1 DEF OrderInv
<1>4. CASE ring' = ring
  <2>1. ring \in Seq(1 .. sent') BY <1>2, SeqElements
  <2> QED BY <2>1, <1>2, <1>3, <1>4 DEF Ascending
<1>5. CASE ring' = Pushed(ring, lo, hi)
  <2>1. lo \in Nat \ {0} /\ hi \in Nat /\ lo <= hi /\ hi = sent' BY <1>2
  <2>2. /\ \A j \in 1 .. Len(ring) : ring[j] < lo
        /\ \A i \in 1 .. Len(event_buf) : event_buf[i] < lo
        /\ taken < lo /\ 0 < lo
    BY <1>2, <1>3
  <2> HIDE DEF lo, hi
  <2>3. Len(ring') < RingSize /\ ring' \in Seq(Nat)
    BY <2>1, <1>2, <1>5, PushedRing
  <2>4. /\ Ascending(ring')
        /\ \A j \in 1 .. Len(ring') :
             /\ ring'[j] <= hi
             /\ \A x \in Nat : x < lo /\ (\A k \in 1 .. Len(ring) : x < ring[k]) => x < ring'[j]
    BY <2>1, <2>2, <1>2, <1>3, <1>5, PushedOrder
  <2>5. ASSUME NEW j \in 1 .. Len(ring')
        PROVE  /\ taken < ring'[j] /\ 0 < ring'[j] /\ ring'[j] <= sent' /\ ring'[j] \in Nat
               /\ \A i \in 1 .. Len(event_buf) : event_buf[i] < ring'[j]
    <3>1. taken < ring'[j] BY <2>2, <2>4, <1>2, <1>3
    <3>2. 0 < ring'[j]
      <4>1. \A k \in 1 .. Len(ring) : 0 < ring[k] BY <1>2
      <4> QED BY <4>1, <2>2, <2>4
    <3>3. \A i \in 1 .. Len(event_buf) : event_buf[i] < ring'[j]
      BY <2>2, <2>4, <1>2, <1>3
    <3> QED BY <3>1, <3>2, <3>3, <2>1, <2>3, <2>4
  <2>6. ring' \in Seq(1 .. sent')
    <3>1. \A j \in 1 .. Len(ring') : ring'[j] \in 1 .. sent' BY <2>5, <1>2
    <3> QED BY <3>1, <2>3, SeqElements
  <2> QED BY <2>3, <2>4, <2>5, <2>6
<1> QED BY <1>4, <1>5 DEF PassPacket

-----------------------------------------------------------------------------
(* The invariant is inductive *)

LEMMA IInvInit == Init => IInv
<1> SUFFICES ASSUME Init PROVE IInv OBVIOUS
<1>1. event_buf = <<>> /\ ring = <<>> /\ packet = <<>> /\ sent = 0 /\ taken = 0 /\ index = 0
  BY DEF Init, EmitterInit
<1>2. TypeOK
  <2>1. <<>> \in Seq(1 .. MaxEmits) /\ <<>> \in Seq(1 .. 0) /\ Len(<<>>) = 0 OBVIOUS
  <2>2. 0 < RingSize /\ 0 \in 0 .. MaxEmits BY EmitterAssumption
  <2>3. /\ ring \in Seq(1 .. sent) /\ event_buf \in Seq(1 .. sent) /\ Len(ring) = 0
        /\ packet \in Seq(1 .. MaxEmits)
    BY <1>1, <2>1
  <2>4. /\ data \in 0 .. asked + 1 /\ taken \in 0 .. sent /\ index <= Len(event_buf)
        /\ untaken \in 0 .. asked
    BY <1>1, <2>1 DEF Init, EmitterInit
  <2>5. /\ emits \in 0 .. MaxEmits /\ asked \in {0} \cup Batches
        /\ wpc \in {"idle", "batch", "report"} /\ torn \in BOOLEAN /\ gone \in BOOLEAN
        /\ sent \in Nat /\ Len(ring) < RingSize /\ index \in Nat
        /\ pc \in {"poll", "wait", "pending", "error"}
        /\ ready \in BOOLEAN /\ edge \in BOOLEAN
    <3>1. /\ wpc \in {"idle", "batch", "report"} /\ torn \in BOOLEAN /\ gone \in BOOLEAN
          /\ pc \in {"poll", "wait", "pending", "error"}
          /\ ready \in BOOLEAN /\ edge \in BOOLEAN
      BY DEF Init, EmitterInit
    <3>2. emits = 0 /\ asked = 0 BY DEF Init, EmitterInit
    <3>3. sent \in Nat /\ index \in Nat BY <1>1
    <3>4. Len(ring) < RingSize BY <2>2, <2>3
    <3> QED BY <3>1, <3>2, <3>3, <3>4, <2>2
  <2>6. EmitterTypeOK BY <2>3, <2>4, <2>5 DEF EmitterTypeOK
  <2> QED BY <2>3, <2>4, <2>5, <2>6 DEF TypeOK
<1>3. PacketInv BY <1>1 DEF Init, EmitterInit, PacketInv
<1>4. OrderInv BY <1>1 DEF Init, OrderInv, Ascending
<1> QED BY <1>2, <1>3, <1>4 DEF IInv

\* The order depends on few variables of the emitter.
LEMMA OrderEmitting ==
  ASSUME TypeOK, OrderInv, UNCHANGED <<event_buf, index, pc, taken>>,
         \/ ring' = ring
         \/ /\ Ascending(ring')
            /\ \A j \in 1 .. Len(ring') :
                 /\ taken < ring'[j] /\ ring'[j] + Len(packet') <= sent'
                 /\ \A i \in 1 .. Len(event_buf) : event_buf[i] < ring'[j],
         sent' \in Nat, Len(packet') \in Nat, sent - Len(packet) <= sent' - Len(packet')
  PROVE  OrderInv'
<1>1. /\ sent \in Nat /\ taken \in Nat /\ Len(packet) \in Nat
      /\ \A i \in 1 .. Len(event_buf) : event_buf[i] \in Nat
      /\ \A i \in 1 .. Len(ring) : ring[i] \in Nat
  BY Types
<1>2. /\ taken + Len(packet') <= sent'
      /\ \A i \in 1 .. Len(event_buf) : event_buf[i] + Len(packet') <= sent'
  BY <1>1 DEF OrderInv
<1>3. CASE ring' = ring
  <2>1. \A j \in 1 .. Len(ring) : ring[j] + Len(packet') <= sent' BY <1>1 DEF OrderInv
  <2> QED BY <1>2, <1>3, <2>1 DEF OrderInv, Ascending
<1>4. CASE ring' # ring BY <1>2, <1>4 DEF OrderInv, Ascending
<1> QED BY <1>3, <1>4

\* One write(2) of fd_write_all.
LEMMA IInvWriteSome ==
  ASSUME IInv, NEW k \in 1 .. data, WriteSome(k), UNCHANGED <<event_buf, index, pc, taken>>,
         edge' \in BOOLEAN, UNCHANGED ready
  PROVE  IInv'
<1>1. TypeOK /\ PacketInv /\ OrderInv /\ EmitterTypeOK BY DEF IInv, TypeOK
<1>2. /\ data \in Nat /\ asked \in Nat /\ sent \in Nat /\ Len(packet) \in Nat /\ emits \in Nat
      /\ packet \in Seq(1 .. MaxEmits) /\ emits \in 0 .. MaxEmits
      /\ event_buf \in Seq(Nat) /\ taken \in Nat /\ taken <= sent
      /\ packet = <<>> <=> Len(packet) = 0
      /\ ring \in Seq(1 .. sent) /\ event_buf \in Seq(1 .. sent)
  BY <1>1, Types DEF TypeOK, EmitterTypeOK
<1>3. data' = data - k /\ data' \in Nat /\ k \in Nat /\ k >= 1 /\ k <= data
      /\ UNCHANGED <<emits, asked, wpc, untaken, gone>>
  BY <1>2 DEF WriteSome, Remaining
<1>4. wpc # "idle" BY <1>1, <1>3 DEF PacketInv
<1>5. CASE wpc = "report"
  <2>1. PassPacket /\ data = 1 /\ data' = 0
    BY <1>1, <1>3, <1>5 DEF WriteSome, PacketInv
  <2>2. sent' = sent + 1 /\ packet' = <<>> /\ torn' = FALSE BY <2>1 DEF PassPacket
  <2>3. /\ ring' \in Seq(1 .. sent') /\ Len(ring') < RingSize
        /\ Ascending(ring')
        /\ \A j \in 1 .. Len(ring') :
              /\ taken < ring'[j] /\ ring'[j] <= sent'
              /\ \A i \in 1 .. Len(event_buf) : event_buf[i] < ring'[j]
    BY <2>1, PassedRing
  <2>4. event_buf \in Seq(1 .. sent')
    <3>1. \A i \in 1 .. Len(event_buf) : event_buf[i] \in 1 .. sent' BY <1>2, <2>2
    <3> QED BY <3>1, <1>2, SeqElements
  <2>5. TypeOK'
    <3>1. packet' \in Seq(1 .. MaxEmits) /\ sent' \in Nat /\ taken \in 0 .. sent'
      BY <1>2, <2>2
    <3>2. data' \in 0 .. asked' + 1 BY <1>2, <1>3, <2>1
    <3>3. /\ emits' \in 0 .. MaxEmits /\ asked' \in {0} \cup Batches
          /\ wpc' \in {"idle", "batch", "report"} /\ torn' \in BOOLEAN /\ gone' \in BOOLEAN
          /\ untaken' \in 0 .. asked'
      BY <1>1, <1>3, <2>2 DEF EmitterTypeOK
    <3>4. EmitterTypeOK' BY <2>3, <3>1, <3>2, <3>3 DEF EmitterTypeOK
    <3> QED BY <1>1, <2>4, <3>1, <3>4 DEF TypeOK
  <2>6. PacketInv' BY <1>1, <1>3, <1>5, <2>1, <2>2 DEF PacketInv
  <2>7. OrderInv'
    <3>1. Len(packet') = 0 /\ \A j \in 1 .. Len(ring') : ring'[j] \in Nat
      BY <2>2, <2>3
    <3>2. \A j \in 1 .. Len(ring') : ring'[j] + Len(packet') <= sent'
      BY <3>1, <2>3
    <3> QED BY <3>1, <3>2, <2>2, <2>3, <1>1, <1>2, OrderEmitting
  <2> QED BY <2>5, <2>6, <2>7 DEF IInv
<1>6. CASE wpc = "batch"
  <2> DEFINE new == [i \in 1 .. k |-> emits]
  <2>1. /\ packet' = packet \o new /\ sent' = sent + k /\ UNCHANGED <<ring, torn>>
    BY <1>6 DEF WriteSome
  <2>2. emits \in 1 .. MaxEmits BY <1>1, <1>2, <1>6 DEF PacketInv
  <2>3. new \in Seq(1 .. MaxEmits) /\ Len(new) = k /\ \A i \in 1 .. k : new[i] = emits
    BY <2>2, <1>3
  <2> HIDE DEF new
  <2>4. /\ packet' \in Seq(1 .. MaxEmits) /\ Len(packet') = Len(packet) + k
        /\ \A i \in 1 .. Len(packet) : packet'[i] = packet[i]
        /\ \A i \in 1 .. Len(new) : packet'[Len(packet) + i] = new[i]
    <3>1. packet \in Seq(1 .. MaxEmits) BY <1>2
    <3>2. new \in Seq(1 .. MaxEmits) BY <2>3
    <3>3. /\ packet \o new \in Seq(1 .. MaxEmits) /\ Len(packet \o new) = Len(packet) + Len(new)
          /\ Len(packet) \in Nat /\ Len(new) \in Nat
          /\ \A i \in 1 .. Len(packet) : (packet \o new)[i] = packet[i]
          /\ \A i \in 1 .. Len(new) : (packet \o new)[Len(packet) + i] = new[i]
      BY ONLY <3>1, <3>2, Concatenation
    <3> QED BY <3>3, <2>1, <2>3
  <2>5. event_buf \in Seq(1 .. sent') /\ ring \in Seq(1 .. sent')
    <3>1. \A i \in 1 .. Len(event_buf) : event_buf[i] \in 1 .. sent'
      BY <1>2, <1>3, <2>1
    <3>2. \A i \in 1 .. Len(ring) : ring[i] \in 1 .. sent'
      BY <1>2, <1>3, <2>1
    <3> QED BY <3>1, <3>2, <1>2, SeqElements
  <2>6. TypeOK'
    <3>1. data' \in 0 .. asked + 1 BY <1>1, <1>2, <1>3 DEF EmitterTypeOK
    <3>2. sent' \in Nat /\ taken' \in 0 .. sent' BY <1>2, <1>3, <2>1
    <3> QED BY <1>1, <1>3, <2>1, <2>4, <2>5, <3>1, <3>2 DEF TypeOK, EmitterTypeOK
  <2>7. PacketInv'
    <3>1. asked - data \in Nat /\ data <= asked /\ Holds(asked - data)
      BY <1>1, <1>2, <1>6 DEF PacketInv
    <3>2. asked' - data' = asked - data + k /\ data' <= asked' BY <3>1, <1>2, <1>3
    <3>3. /\ asked - data + k <= Len(packet')
          /\ torn' \/ Len(packet') = asked - data + k
      <4>1. asked - data <= Len(packet) /\ (torn \/ Len(packet) = asked - data)
        BY <3>1 DEF Holds
      <4>2. asked - data + k <= Len(packet')
        BY <4>1, <3>1, <2>4, <1>2, <1>3
      <4>3. Len(packet) = asked - data => Len(packet') = asked - data + k
        BY <2>4
      <4> QED BY <4>1, <4>2, <4>3, <2>1
    <3>4. ASSUME NEW i \in Len(packet') - (asked - data + k) + 1 .. Len(packet')
          PROVE  packet'[i] = emits
      <4>1. CASE i <= Len(packet)
        <5>1. i \in Len(packet) - (asked - data) + 1 .. Len(packet)
          BY <4>1, <2>4, <3>1, <1>2, <1>3
        <5>2. i \in 1 .. Len(packet) BY <5>1, <3>1, <1>2 DEF Holds
        <5> QED BY <5>1, <5>2, <2>4, <3>1 DEF Holds
      <4>2. CASE i > Len(packet)
        <5>1. i - Len(packet) \in 1 .. k BY <4>2, <2>4, <3>1, <1>2, <1>3
        <5>2. i = Len(packet) + (i - Len(packet)) BY <5>1, <1>2, <2>4
        <5> QED BY <5>1, <5>2, <2>3, <2>4
      <4> QED BY <4>1, <4>2, <2>4, <3>1, <1>2, <1>3
    <3>5. Holds(asked - data)' BY <3>2, <3>3, <3>4, <1>3 DEF Holds
    <3> QED BY <1>1, <1>3, <1>6, <3>2, <3>5 DEF PacketInv
  <2>8. OrderInv'
    <3>1. sent' \in Nat /\ Len(packet') \in Nat /\ sent - Len(packet) <= sent' - Len(packet')
      BY <1>2, <1>3, <2>1, <2>4
    <3> QED BY <3>1, <2>1, <1>1, OrderEmitting
  <2> QED BY <2>6, <2>7, <2>8 DEF IInv
<1> QED BY <1>1, <1>4, <1>5, <1>6 DEF EmitterTypeOK

\* Every step of emit and of the kernel it writes to.
LEMMA IInvEmitting ==
  ASSUME IInv, Emitting PROVE IInv'
<1> USE DEF emitVars
<1>1. TypeOK /\ PacketInv /\ OrderInv /\ EmitterTypeOK BY DEF IInv, TypeOK
<1>2. UNCHANGED <<event_buf, index, pc, ready, taken>> /\ EmitterNext BY DEF Emitting
<1>3. edge' \in BOOLEAN BY <1>1 DEF Emitting, TypeOK
<1>4. CASE \E k \in Batches : Emit(k)
  <2>1. PICK k \in Batches : Emit(k) BY <1>4
  <2>2. /\ wpc = "idle" /\ emits' = emits + 1 /\ emits < MaxEmits /\ asked' = k
        /\ wpc' = "batch" /\ data' = k /\ untaken' = 0
        /\ UNCHANGED <<packet, ring, sent, torn, gone>>
    BY <2>1 DEF Emit
  <2>3. k \in Nat /\ emits \in Nat /\ MaxEmits \in Nat /\ sent \in Nat /\ Len(packet) \in Nat
    BY <1>1, EmitterAssumption, Types
  <2>4. TypeOK' BY <1>1, <1>2, <1>3, <2>2, <2>3 DEF TypeOK, EmitterTypeOK
  <2>5. PacketInv'
    <3>1. asked' - data' = 0 /\ emits' >= 1 /\ data' <= asked' BY <2>2, <2>3
    <3>2. Len(packet) = 0 \/ torn BY <1>1, <2>2 DEF PacketInv
    <3>3. Holds(asked - data)'
      <4>1. \A i \in Len(packet) - 0 + 1 .. Len(packet) : FALSE BY <2>3
      <4> QED BY <2>2, <2>3, <3>1, <3>2, <4>1 DEF Holds
    <3> QED BY <2>2, <2>3, <3>1, <3>3 DEF PacketInv
  <2>6. OrderInv' BY <1>1, <1>2, <2>2, <2>3, OrderEmitting
  <2> QED BY <2>4, <2>5, <2>6 DEF IInv
<1>5. CASE \E k \in 1 .. data : WriteSome(k)
  BY <1>2, <1>3, <1>5, IInvWriteSome
<1>6. CASE WriteEnds \/ WriteFails
  <2>1. /\ UNCHANGED <<emits, asked, packet, ring, sent, gone>> /\ wpc # "idle"
        /\ sent \in Nat /\ Len(packet) \in Nat /\ asked \in Nat
    BY <1>1, <1>6, Types DEF WriteEnds, WriteFails
  <2>2. /\ wpc' \in {"idle", "batch", "report"} /\ torn' \in BOOLEAN
        /\ data' \in 0 .. asked + 1 /\ untaken' \in 0 .. asked
    <3>1. torn' \in BOOLEAN BY <1>1, <1>6 DEF WriteEnds, WriteFails, EmitterTypeOK
    <3>2. wpc' \in {"idle", "batch", "report"} BY <1>6 DEF WriteEnds, WriteFails
    <3>3. data' \in {0, 1, data} BY <1>6 DEF WriteEnds, WriteFails
    <3>4. untaken' \in {untaken, data} /\ (untaken' = data => wpc = "batch" \/ untaken = data)
      BY <1>6 DEF WriteEnds, WriteFails
    <3>5. data \in Nat /\ (wpc = "batch" => data <= asked) BY <1>1, Types DEF PacketInv
    <3>6. untaken' \in 0 .. asked BY <1>1, <2>1, <3>4, <3>5 DEF EmitterTypeOK
    <3> QED BY <1>1, <2>1, <3>1, <3>2, <3>3, <3>6 DEF EmitterTypeOK
  <2>3. TypeOK' BY <1>1, <1>2, <1>3, <2>1, <2>2 DEF TypeOK, EmitterTypeOK
  <2>4. CASE WriteEnds /\ wpc = "batch"
    <3>1. wpc' = "report" /\ data' = 1 /\ untaken' = data /\ torn' = torn
      BY <2>4 DEF WriteEnds
    <3>2. Holds(asked - data) /\ emits >= 1 BY <1>1, <2>1, <2>4 DEF PacketInv
    <3>3. Holds(asked - untaken)' BY <2>1, <3>1, <3>2 DEF Holds
    <3> QED BY <1>1, <1>2, <2>1, <2>3, <3>1, <3>2, <3>3, OrderEmitting DEF IInv, PacketInv
  <2>5. CASE WriteEnds /\ wpc = "report"
    <3>1. wpc' = "idle" /\ data' = 0 /\ torn' = (packet # <<>>) BY <2>5 DEF WriteEnds
    <3>2. packet' = <<>> \/ torn' BY <2>1, <3>1
    <3>3. OrderInv' BY <1>1, <1>2, <2>1, OrderEmitting
    <3> QED BY <2>3, <3>1, <3>2, <3>3 DEF IInv, PacketInv
  <2>6. CASE WriteFails
    <3>1. wpc' = "idle" /\ data' = 0 /\ torn' = (packet # <<>>) BY <2>6 DEF WriteFails
    <3>2. packet' = <<>> \/ torn' BY <2>1, <3>1
    <3>3. OrderInv' BY <1>1, <1>2, <2>1, OrderEmitting
    <3> QED BY <2>3, <3>1, <3>2, <3>3 DEF IInv, PacketInv
  <2> QED BY <1>1, <1>6, <2>1, <2>4, <2>5, <2>6 DEF EmitterTypeOK
<1>7. CASE Vanish
  <2>1. /\ gone' = TRUE /\ wpc' = "idle" /\ data' = 0 /\ packet' = <<>> /\ ring' = <<>>
        /\ UNCHANGED <<emits, asked, sent, torn, untaken>>
    BY <1>7 DEF Vanish
  <2>2. sent \in Nat /\ Len(packet) \in Nat /\ asked \in Nat BY <1>1, Types
  <2>3. Len(ring') = 0 /\ Len(packet') = 0 BY <2>1
  <2>4. TypeOK' BY <1>1, <1>2, <1>3, <2>1, <2>2, <2>3, EmitterAssumption DEF TypeOK, EmitterTypeOK
  <2>5. OrderInv' BY <1>1, <1>2, <2>1, <2>2, <2>3, OrderEmitting DEF Ascending
  <2> QED BY <2>1, <2>4, <2>5 DEF IInv, PacketInv
<1> QED BY <1>2, <1>4, <1>5, <1>6, <1>7 DEF EmitterNext

\* What a read takes from the ring and leaves in it.
LEMMA ReadRing ==
  ASSUME IInv, NEW k \in 1 .. Len(ring), ReadUpTo(k)
  PROVE  /\ k \in Nat \ {0} /\ k <= Len(ring) /\ Len(ring) \in Nat
         /\ ring' \in Seq(1 .. sent) /\ Len(ring') = Len(ring) - k
         /\ \A j \in 1 .. Len(ring') : k + j \in 1 .. Len(ring) /\ ring'[j] = ring[k + j]
         /\ SubSeq(ring, 1, k) \in Seq(1 .. sent) /\ Len(SubSeq(ring, 1, k)) = k
         /\ \A i \in 1 .. k : i \in 1 .. Len(ring) /\ SubSeq(ring, 1, k)[i] = ring[i]
         /\ EmitterTypeOK' /\ PacketInv'
         /\ UNCHANGED <<sent, packet>>
<1>1. TypeOK /\ EmitterTypeOK /\ PacketInv BY DEF IInv, TypeOK
<1>2. ring \in Seq(1 .. sent) /\ Len(ring) \in Nat /\ k \in Nat \ {0} /\ k <= Len(ring)
  BY <1>1 DEF EmitterTypeOK
<1>3. /\ ring' = SubSeq(ring, k + 1, Len(ring))
      /\ UNCHANGED <<emits, asked, wpc, data, packet, sent, torn, untaken, gone>>
  BY DEF ReadUpTo
<1>4. /\ ring' \in Seq(1 .. sent) /\ Len(ring') = Len(ring) - (k + 1) + 1
      /\ \A j \in 1 .. Len(ring) - (k + 1) + 1 : ring'[j] = ring[(k + 1) - 1 + j]
  <2> DEFINE a == k + 1
             b == Len(ring)
             S == 1 .. sent
  <2>1. a \in Nat \ {0} /\ b \in 0 .. Len(ring) /\ a <= b + 1 BY <1>2
  <2>2. ring \in Seq(S) BY <1>2
  <2> HIDE DEF a, b, S
  <2>3. /\ SubSeq(ring, a, b) \in Seq(S) /\ Len(SubSeq(ring, a, b)) = b - a + 1
        /\ \A j \in 1 .. b - a + 1 : SubSeq(ring, a, b)[j] = ring[a - 1 + j]
    BY <2>1, <2>2, Stretch
  <2>4. ring' = SubSeq(ring, a, b) BY <1>3 DEF a, b
  <2> QED BY <2>3, <2>4 DEF a, b, S
<1>5. /\ SubSeq(ring, 1, k) \in Seq(1 .. sent) /\ Len(SubSeq(ring, 1, k)) = k - 1 + 1
      /\ \A i \in 1 .. k - 1 + 1 : SubSeq(ring, 1, k)[i] = ring[1 - 1 + i]
  <2> DEFINE a == 1
             S == 1 .. sent
  <2>1. a \in Nat \ {0} /\ k \in 0 .. Len(ring) /\ a <= k + 1 BY <1>2
  <2>2. ring \in Seq(S) BY <1>2
  <2> HIDE DEF a, S
  <2>3. /\ SubSeq(ring, a, k) \in Seq(S) /\ Len(SubSeq(ring, a, k)) = k - a + 1
        /\ \A j \in 1 .. k - a + 1 : SubSeq(ring, a, k)[j] = ring[a - 1 + j]
    BY <2>1, <2>2, Stretch
  <2> QED BY <2>3 DEF a, S
<1>6. Len(ring') = Len(ring) - k BY <1>2, <1>4
<1>7. \A j \in 1 .. Len(ring') : k + j \in 1 .. Len(ring) /\ ring'[j] = ring[k + j]
  <2> SUFFICES ASSUME NEW j \in 1 .. Len(ring')
               PROVE  k + j \in 1 .. Len(ring) /\ ring'[j] = ring[k + j]
    OBVIOUS
  <2>1. j \in 1 .. Len(ring) - (k + 1) + 1 /\ (k + 1) - 1 + j = k + j BY <1>2, <1>6
  <2> QED BY <2>1, <1>2, <1>4, <1>6
<1>8. Len(SubSeq(ring, 1, k)) = k BY <1>2, <1>5
<1>9. \A i \in 1 .. k : i \in 1 .. Len(ring) /\ SubSeq(ring, 1, k)[i] = ring[i]
  <2> SUFFICES ASSUME NEW i \in 1 .. k
               PROVE  i \in 1 .. Len(ring) /\ SubSeq(ring, 1, k)[i] = ring[i]
    OBVIOUS
  <2>1. i \in 1 .. k - 1 + 1 /\ 1 - 1 + i = i BY <1>2
  <2> QED BY <2>1, <1>2, <1>5
<1>10. Len(ring') < RingSize BY <1>1, <1>2, <1>6, EmitterAssumption DEF EmitterTypeOK
<1>11. EmitterTypeOK' BY <1>1, <1>3, <1>4, <1>10 DEF EmitterTypeOK
<1>12. PacketInv' BY <1>1, <1>3 DEF PacketInv, Holds
<1> QED BY <1>2, <1>3, <1>4, <1>5, <1>6, <1>7, <1>8, <1>9, <1>11, <1>12

LEMMA IInvPollFill ==
  ASSUME IInv, PollFill PROVE IInv'
<1>1. PICK k \in 1 .. Len(ring) : FillEvents(k) BY DEF PollFill
<1>2. ReadUpTo(k) /\ event_buf' = event_buf \o SubSeq(ring, 1, k) BY <1>1 DEF FillEvents
<1>3. TypeOK /\ OrderInv /\ event_buf = <<>> /\ index = 0 BY DEF IInv, OrderInv, PollFill
<1> DEFINE front == SubSeq(ring, 1, k)
<1>4. /\ k \in Nat \ {0} /\ k <= Len(ring) /\ Len(ring) \in Nat
      /\ ring' \in Seq(1 .. sent) /\ Len(ring') = Len(ring) - k
      /\ \A j \in 1 .. Len(ring') : k + j \in 1 .. Len(ring) /\ ring'[j] = ring[k + j]
      /\ front \in Seq(1 .. sent) /\ Len(front) = k
      /\ \A i \in 1 .. k : i \in 1 .. Len(ring) /\ front[i] = ring[i]
      /\ EmitterTypeOK' /\ PacketInv'
      /\ UNCHANGED <<sent, packet>>
  BY <1>2, ReadRing
<1> HIDE DEF front
<1>5. event_buf' = front BY <1>2, <1>3, <1>4 DEF front
<1>6. UNCHANGED <<index, edge, taken, ready>> /\ pc' = "poll" BY DEF PollFill
<1>7. TypeOK'
  <2>1. index' <= Len(event_buf') BY <1>3, <1>4, <1>5, <1>6
  <2> QED BY <2>1, <1>3, <1>4, <1>5, <1>6 DEF TypeOK
<1>8. OrderInv'
  <2>1. Ascending(ring) /\ \A j \in 1 .. Len(ring) : taken < ring[j] /\ ring[j] + Len(packet) <= sent
    BY <1>3 DEF OrderInv
  <2>2. Ascending(event_buf') BY <2>1, <1>4, <1>5 DEF Ascending
  <2>3. Ascending(ring')
    <3> SUFFICES ASSUME NEW i \in 1 .. Len(ring'), NEW j \in 1 .. Len(ring'), i < j
                 PROVE  ring'[i] < ring'[j]
      BY DEF Ascending
    <3>1. k + i < k + j BY <1>4
    <3> QED BY <3>1, <2>1, <1>4 DEF Ascending
  <2>4. \A i \in 1 .. Len(event_buf') : \A j \in 1 .. Len(ring') : event_buf'[i] < ring'[j]
    <3> SUFFICES ASSUME NEW i \in 1 .. k, NEW j \in 1 .. Len(ring')
                 PROVE  front[i] < ring'[j]
      BY <1>4, <1>5
    <3>1. i < k + j BY <1>4
    <3> QED BY <3>1, <2>1, <1>4 DEF Ascending
  <2>5. \A i \in 1 .. Len(event_buf') :
           /\ ~ (i <= index') /\ taken' < event_buf'[i]
           /\ event_buf'[i] + Len(packet') <= sent'
    BY <2>1, <1>3, <1>4, <1>5, <1>6
  <2>6. \A j \in 1 .. Len(ring') : taken' < ring'[j] /\ ring'[j] + Len(packet') <= sent'
    BY <2>1, <1>4, <1>6
  <2>7. taken' + Len(packet') <= sent' BY <1>3, <1>4, <1>6 DEF OrderInv
  <2> QED BY <2>2, <2>3, <2>4, <2>5, <2>6, <2>7, <1>6 DEF OrderInv
<1> QED BY <1>4, <1>7, <1>8 DEF IInv

\* fetch_events between two polls: whatever the caller looks at is older than
\* what stays in the ring.
LEMMA FetchedEvents ==
  ASSUME IInv, NEW k \in 1 .. Len(ring), ReadUpTo(k),
         NEW got \in 1 .. Len(event_buf) + k
  PROVE  LET all == event_buf \o SubSeq(ring, 1, k)
         IN  /\ got \in 1 .. Len(event_buf) => all[got] = event_buf[got]
             /\ ~ got \in 1 .. Len(event_buf) =>
                   got - Len(event_buf) \in 1 .. k /\ all[got] = ring[got - Len(event_buf)]
             /\ all[got] \in 1 .. sent /\ all[got] + Len(packet) <= sent
             /\ \A j \in 1 .. Len(ring') : all[got] < ring'[j]
<1> DEFINE front == SubSeq(ring, 1, k)
           all == event_buf \o front
<1>1. TypeOK /\ OrderInv BY DEF IInv
<1>2. /\ k \in Nat \ {0} /\ k <= Len(ring) /\ Len(ring) \in Nat
      /\ \A j \in 1 .. Len(ring') : k + j \in 1 .. Len(ring) /\ ring'[j] = ring[k + j]
      /\ front \in Seq(1 .. sent) /\ Len(front) = k
      /\ \A i \in 1 .. k : i \in 1 .. Len(ring) /\ front[i] = ring[i]
  BY ReadRing
<1> HIDE DEF front
<1>3. event_buf \in Seq(1 .. sent) /\ Len(event_buf) \in Nat /\ ring \in Seq(1 .. sent)
      /\ sent \in Nat
  BY <1>1 DEF TypeOK, EmitterTypeOK
<1>4. /\ \A i \in 1 .. Len(event_buf) : all[i] = event_buf[i]
      /\ \A i \in 1 .. Len(front) : all[Len(event_buf) + i] = front[i]
  BY <1>2, <1>3, Concatenation
<1> HIDE DEF all
<1> SUFFICES /\ got \in 1 .. Len(event_buf) => all[got] = event_buf[got]
             /\ ~ got \in 1 .. Len(event_buf) =>
                   got - Len(event_buf) \in 1 .. k /\ all[got] = ring[got - Len(event_buf)]
             /\ all[got] \in 1 .. sent /\ all[got] + Len(packet) <= sent
             /\ \A j \in 1 .. Len(ring') : all[got] < ring'[j]
  BY DEF all, front
<1>5. CASE got \in 1 .. Len(event_buf)
  <2>1. all[got] = event_buf[got] BY <1>4, <1>5
  <2>2. event_buf[got] \in 1 .. sent /\ event_buf[got] + Len(packet) <= sent
    BY <1>1, <1>3, <1>5 DEF OrderInv
  <2>3. \A j \in 1 .. Len(ring') : event_buf[got] < ring'[j]
    BY <1>1, <1>2, <1>5 DEF OrderInv
  <2> QED BY <2>1, <2>2, <2>3, <1>5
<1>6. CASE ~ got \in 1 .. Len(event_buf)
  <2> DEFINE m == got - Len(event_buf)
  <2>1. m \in 1 .. k /\ Len(event_buf) + m = got BY <1>2, <1>3, <1>6
  <2> HIDE DEF m
  <2>2. all[got] = ring[m] /\ m \in 1 .. Len(ring) BY <2>1, <1>2, <1>4
  <2>3. ring[m] \in 1 .. sent /\ ring[m] + Len(packet) <= sent
    BY <2>2, <1>1, <1>3 DEF OrderInv
  <2>4. \A j \in 1 .. Len(ring') : ring[m] < ring'[j]
    <3> SUFFICES ASSUME NEW j \in 1 .. Len(ring') PROVE ring[m] < ring'[j] OBVIOUS
    <3>1. m < k + j BY <2>1, <1>2
    <3> QED BY <3>1, <2>2, <1>1, <1>2 DEF OrderInv, Ascending
  <2> QED BY <2>1, <2>2, <2>3, <2>4, <1>6 DEF m
<1> QED BY <1>5, <1>6

LEMMA IInvDeviceMut ==
  ASSUME IInv, DeviceMut PROVE IInv'
<1>1. PICK k \in 1 .. Len(ring) : \E got \in 0 .. Len(event_buf) + k : FetchEvents(k, got)
  BY DEF DeviceMut
<1>2. PICK got \in 0 .. Len(event_buf) + k : FetchEvents(k, got) BY <1>1
<1> DEFINE all == event_buf \o SubSeq(ring, 1, k)
<1>3. /\ ReadUpTo(k) /\ event_buf' = <<>>
      /\ taken' = IF got = 0 \/ all[got] < taken THEN taken ELSE all[got]
      /\ UNCHANGED <<index, pc, ready, edge>> /\ pc # "wait"
  BY <1>2 DEF FetchEvents, DeviceMut
<1>4. TypeOK /\ OrderInv BY DEF IInv
<1>5. /\ k \in Nat \ {0} /\ k <= Len(ring) /\ Len(ring) \in Nat
      /\ ring' \in Seq(1 .. sent) /\ Len(ring') = Len(ring) - k
      /\ \A j \in 1 .. Len(ring') : k + j \in 1 .. Len(ring) /\ ring'[j] = ring[k + j]
      /\ EmitterTypeOK' /\ PacketInv'
      /\ UNCHANGED <<sent, packet>>
  BY <1>3, ReadRing
<1>6. got # 0 => /\ all[got] \in 1 .. sent /\ all[got] + Len(packet) <= sent
                 /\ \A j \in 1 .. Len(ring') : all[got] < ring'[j]
  <2> SUFFICES ASSUME got # 0
               PROVE  /\ all[got] \in 1 .. sent /\ all[got] + Len(packet) <= sent
                      /\ \A j \in 1 .. Len(ring') : all[got] < ring'[j]
    OBVIOUS
  <2>1. Len(event_buf) \in Nat BY <1>4, Types
  <2>2. got \in 1 .. Len(event_buf) + k BY <2>1, <1>5
  <2> QED BY <2>2, <1>3, FetchedEvents
<1> HIDE DEF all
<1>7. sent \in Nat /\ taken \in 0 .. sent /\ taken + Len(packet) <= sent
  BY <1>4, Types DEF TypeOK, OrderInv
<1>8. taken' \in 0 .. sent /\ taken' + Len(packet) <= sent
  BY <1>3, <1>6, <1>7
<1>9. \A j \in 1 .. Len(ring') : taken' < ring'[j] /\ ring'[j] + Len(packet') <= sent'
  <2>1. \A j \in 1 .. Len(ring') : taken < ring'[j] /\ ring'[j] + Len(packet') <= sent'
    BY <1>4, <1>5 DEF OrderInv
  <2> QED BY <2>1, <1>3, <1>6
<1>10. Ascending(ring')
  <2> SUFFICES ASSUME NEW i \in 1 .. Len(ring'), NEW j \in 1 .. Len(ring'), i < j
               PROVE  ring'[i] < ring'[j]
    BY DEF Ascending
  <2>1. k + i < k + j BY <1>5
  <2> QED BY <2>1, <1>4, <1>5 DEF OrderInv, Ascending
<1>11. Len(event_buf') = 0 /\ event_buf' \in Seq(1 .. sent) BY <1>3
<1>12. TypeOK' BY <1>3, <1>4, <1>5, <1>8, <1>11 DEF TypeOK
<1>13. OrderInv'
  <2>1. \A i \in 1 .. Len(event_buf') : FALSE BY <1>11
  <2> QED BY <2>1, <1>3, <1>5, <1>8, <1>9, <1>10 DEF OrderInv, Ascending
<1> QED BY <1>5, <1>12, <1>13 DEF IInv

LEMMA IInvPoll ==
  ASSUME IInv, PollReturn \/ PollClear \/ PollPending \/ PollWouldBlock \/ PollError
                 \/ PollAgain \/ Reactor \/ UNCHANGED vars
  PROVE  IInv'
<1> USE DEF emitVars
<1>1. TypeOK /\ EmitterTypeOK /\ PacketInv /\ OrderInv BY DEF IInv, TypeOK
<1>2. UNCHANGED emitVars
  BY DEF PollReturn, PollClear, PollPending, PollWouldBlock, PollError, PollAgain,
         Reactor, vars
<1>3. EmitterTypeOK' BY <1>1, <1>2 DEF EmitterTypeOK
<1>4. PacketInv' BY <1>1, <1>2 DEF PacketInv, Holds
<1>5. CASE PollReturn
  <2>1. /\ index' = index + 1 /\ index < Len(event_buf) /\ taken' = event_buf[index + 1]
        /\ UNCHANGED <<event_buf, pc, ready, edge>> /\ pc = "poll"
    BY <1>5 DEF PollReturn
  <2>2. /\ index \in Nat /\ Len(event_buf) \in Nat /\ index + 1 \in 1 .. Len(event_buf)
        /\ event_buf \in Seq(1 .. sent) /\ sent \in Nat /\ taken \in 0 .. sent
    BY <1>1, <2>1, Types DEF TypeOK
  <2>3. event_buf[index + 1] \in 1 .. sent BY <2>2
  <2>4. TypeOK'
    <3>1. taken' \in 0 .. sent' /\ index' \in Nat /\ index' <= Len(event_buf')
      BY <2>1, <2>2, <2>3, <1>2
    <3> QED BY <3>1, <1>1, <1>2, <1>3, <2>1 DEF TypeOK
  <2>5. OrderInv'
    <3>1. \A i \in 1 .. Len(event_buf) :
             /\ i < index + 1 => event_buf[i] < event_buf[index + 1]
             /\ i > index + 1 => event_buf[index + 1] < event_buf[i]
      BY <1>1, <2>2 DEF OrderInv, Ascending
    <3>2. \A i \in 1 .. Len(event_buf) : event_buf[i] \in Nat BY <2>2
    <3>3. \A i \in 1 .. Len(event_buf') :
             IF i <= index' THEN event_buf'[i] <= taken' ELSE taken' < event_buf'[i]
      <4> SUFFICES ASSUME NEW i \in 1 .. Len(event_buf)
                   PROVE  IF i <= index + 1 THEN event_buf[i] <= event_buf[index + 1]
                                            ELSE event_buf[index + 1] < event_buf[i]
        BY <2>1
      <4>1. i < index + 1 \/ i = index + 1 \/ i > index + 1 BY <2>2
      <4> QED BY <4>1, <3>1, <3>2, <2>2
    <3>4. taken' + Len(packet') <= sent' BY <1>1, <1>2, <2>1, <2>2 DEF OrderInv
    <3>5. \A j \in 1 .. Len(ring') : taken' < ring'[j] /\ ring'[j] + Len(packet') <= sent'
      BY <1>1, <1>2, <2>1, <2>2 DEF OrderInv
    <3>6. Ascending(event_buf)' /\ Ascending(ring)'
      BY <1>1, <1>2, <2>1 DEF OrderInv, Ascending
    <3>7. \A i \in 1 .. Len(event_buf') : event_buf'[i] + Len(packet') <= sent'
      BY <1>1, <1>2, <2>1 DEF OrderInv
    <3>8. \A i \in 1 .. Len(event_buf') : \A j \in 1 .. Len(ring') : event_buf'[i] < ring'[j]
      BY <1>1, <1>2, <2>1 DEF OrderInv
    <3>9. pc' # "wait" BY <2>1
    <3> QED BY <3>3, <3>4, <3>5, <3>6, <3>7, <3>8, <3>9 DEF OrderInv
  <2> QED BY <1>4, <2>4, <2>5 DEF IInv
<1>6. CASE PollClear
  <2>1. event_buf' = <<>> /\ index' = 0 /\ UNCHANGED <<ready, edge, taken>> /\ pc' = "wait"
    BY <1>6 DEF PollClear, Clear
  <2>2. Len(event_buf') = 0 /\ event_buf' \in Seq(1 .. sent') BY <2>1
  <2>3. TypeOK' BY <1>1, <1>2, <1>3, <2>1, <2>2 DEF TypeOK
  <2>4. OrderInv'
    <3>1. \A i \in 1 .. Len(event_buf') : FALSE BY <2>2
    <3> QED BY <3>1, <1>1, <1>2, <2>1 DEF OrderInv, Ascending
  <2> QED BY <1>4, <2>3, <2>4 DEF IInv
<1>7. CASE PollPending \/ PollWouldBlock \/ PollError \/ PollAgain \/ Reactor \/ UNCHANGED vars
  <2>1. UNCHANGED <<event_buf, index, taken>>
    BY <1>7 DEF PollPending, PollWouldBlock, PollError, PollAgain, Reactor, vars, readVars
  <2>2. /\ pc' \in {"poll", "wait", "pending", "error"}
        /\ ready' \in BOOLEAN /\ edge' \in BOOLEAN
        /\ pc' = "wait" => pc = "wait"
    BY <1>1, <1>7 DEF PollPending, PollWouldBlock, PollError, PollAgain, Reactor, vars,
                      readVars, TypeOK
  <2>3. TypeOK' BY <1>1, <1>2, <1>3, <2>1, <2>2 DEF TypeOK
  <2>4. OrderInv' BY <1>1, <1>2, <2>1, <2>2 DEF OrderInv, Ascending
  <2> QED BY <1>4, <2>3, <2>4 DEF IInv
<1> QED BY <1>5, <1>6, <1>7

LEMMA IInvNext == IInv /\ [Next]_vars => IInv'
BY IInvEmitting, IInvPollFill, IInvDeviceMut, IInvPoll DEF Next, Poll

LEMMA Invariance == Spec => []IInv
<1>1. Init => IInv BY IInvInit
<1>2. IInv /\ [Next]_vars => IInv' BY IInvNext
<1> QED BY <1>1, <1>2, PTL DEF Spec

-----------------------------------------------------------------------------
(* Theorems *)

\* The variables of emit, of the input core, of the ring and of the stream keep
\* their types; in particular the ring never fills up (PassPacket) and the
\* index of a stream never passes the end of a buffer that has events.
THEOREM TypeCorrect == Spec => []TypeOK
BY Invariance, PTL DEF IInv

\* The stream hands out serials in ascending order, whatever is fetched from
\* the device between two polls: a returned event is behind index, and
\* everything there is newer than what anybody has got (OrderInv).
LEMMA ReturnedIsNewer == IInv /\ [Next]_vars => [PollReturn => taken' > taken]_vars
<1> SUFFICES ASSUME IInv, PollReturn PROVE taken' > taken OBVIOUS
<1>1. TypeOK /\ OrderInv BY DEF IInv
<1>2. index < Len(event_buf) /\ taken' = event_buf[index + 1] BY DEF PollReturn
<1>3. index + 1 \in 1 .. Len(event_buf) /\ ~ (index + 1 <= index)
  BY <1>1, <1>2, Types
<1>4. taken < event_buf[index + 1] BY <1>1, <1>3 DEF OrderInv
<1> QED BY <1>1, <1>2, <1>4

THEOREM StreamReturnsInOrder == Spec => StreamAscending
BY Invariance, ReturnedIsNewer, PTL DEF Spec, StreamAscending

\* What the SYN_REPORT of an emit passes on ends with the batch.
LEMMA PassedPacket ==
  ASSUME IInv, Next, PassPacket, packet # <<>>
  PROVE  LET own == [i \in 1 .. asked - untaken |-> emits]
         IN  IsSuffix(own, packet) /\ (torn \/ packet = own)
<1>1. TypeOK /\ PacketInv BY DEF IInv
<1> DEFINE n == asked - untaken
<1>2. /\ sent \in Nat /\ n \in Nat /\ emits \in Nat /\ Len(packet) \in Nat
      /\ packet \in Seq(1 .. MaxEmits) /\ Len(packet) # 0
  BY <1>1, Types DEF TypeOK, EmitterTypeOK
<1>3. sent' # sent /\ packet' = <<>> BY <1>2 DEF PassPacket
<1>4. PICK k \in 1 .. data : WriteSome(k)
  BY <1>3 DEF Next, Emitting, EmitterNext, Emit, WriteEnds, WriteFails, Vanish, Reactor,
              Poll, PollReturn, PollClear, PollPending, PollFill, FillEvents, ReadUpTo,
              PollWouldBlock, PollError, PollAgain, DeviceMut, FetchEvents, emitVars
<1>5. data # 0 BY <1>4
<1>6. wpc = "report"
  <2> SUFFICES ASSUME wpc # "report" PROVE FALSE OBVIOUS
  <2> DEFINE new == [i \in 1 .. k |-> emits]
  <2>1. packet' = packet \o new BY <1>4 DEF WriteSome
  <2>2. new \in Seq(Nat) BY <1>1, <1>2, <1>4, Types
  <2>3. packet \in Seq(Nat)
    <3>1. \A i \in 1 .. Len(packet) : packet[i] \in Nat BY <1>2, EmitterAssumption
    <3> QED BY <3>1, <1>2, SeqElements
  <2> HIDE DEF new
  <2>4. Len(packet') = Len(packet) + Len(new) /\ Len(new) \in Nat
    BY <2>1, <2>2, <2>3, Concatenation
  <2>5. Len(packet') = 0 BY <1>3
  <2>6. Len(packet) \in Nat /\ Len(packet) # 0 BY <1>2
  <2> DEFINE before == Len(packet)
             after == Len(packet')
             more == Len(new)
  <2>7. before \in Nat /\ before # 0 /\ more \in Nat /\ after = before + more /\ after = 0
    BY <2>4, <2>5, <2>6
  <2> HIDE DEF before, after, more
  <2> QED BY <2>7
<1>7. Holds(n) BY <1>1, <1>5, <1>6 DEF PacketInv
<1> HIDE DEF n
<1>8. /\ n <= Len(packet)
      /\ \A i \in Len(packet) - n + 1 .. Len(packet) : packet[i] = emits
      /\ torn \/ Len(packet) = n
  BY <1>7 DEF Holds
<1> DEFINE own == [i \in 1 .. n |-> emits]
           R == [i \in 1 .. Len(packet) |-> packet[Len(packet) - i + 1]]
<1>9. own \in Seq(Nat) /\ Len(own) = n /\ \A i \in 1 .. n : own[i] = emits
  BY <1>2
<1>10. \A i \in 1 .. Len(packet) : packet[i] \in Nat BY <1>2, EmitterAssumption
<1>11. packet \in Seq(Nat) BY <1>2, <1>10, SeqElements
<1>12. torn \/ packet = own
  <2> SUFFICES ASSUME Len(packet) = n PROVE packet = own BY <1>8
  <2>1. \A i \in 1 .. Len(packet) : packet[i] = own[i]
    <3> SUFFICES ASSUME NEW i \in 1 .. Len(packet) PROVE packet[i] = own[i] OBVIOUS
    <3>1. i \in Len(packet) - n + 1 .. Len(packet) BY <1>2
    <3> QED BY <3>1, <1>8, <1>9
  <2> HIDE DEF own
  <2> QED BY <2>1, <1>9, <1>11, SeqExtensional
<1>13. IsSuffix(own, packet)
  <2> HIDE DEF own
  <2> DEFINE mine == Reverse(own)
             all == Reverse(packet)
  <2>1. /\ mine = [i \in 1 .. n |-> own[(n - i) + 1]]
        /\ all = [i \in 1 .. Len(packet) |-> packet[(Len(packet) - i) + 1]]
    BY <1>9 DEF Reverse
  <2>2. /\ mine \in Seq(Nat) /\ Len(mine) = n
        /\ \A i \in 1 .. n : mine[i] = own[(n - i) + 1]
    <3> HIDE DEF mine
    <3>1. \A i \in 1 .. n : (n - i) + 1 \in 1 .. n BY <1>2
    <3>2. \A i \in 1 .. n : own[(n - i) + 1] \in Nat BY <3>1, <1>2, <1>9
    <3> QED BY <2>1, <3>2, <1>2
  <2>3. /\ all \in Seq(Nat) /\ Len(all) = Len(packet)
        /\ \A i \in 1 .. Len(packet) : all[i] = packet[(Len(packet) - i) + 1]
    <3> HIDE DEF all
    <3>1. \A i \in 1 .. Len(packet) : (Len(packet) - i) + 1 \in 1 .. Len(packet) BY <1>2
    <3>2. \A i \in 1 .. Len(packet) : packet[(Len(packet) - i) + 1] \in Nat
      BY <3>1, <1>10
    <3> QED BY <2>1, <3>2, <1>2
  <2> HIDE DEF mine, all
  <2>4. /\ SubSeq(mine, 1, n) \in Seq(Nat) /\ Len(SubSeq(mine, 1, n)) = n
        /\ \A i \in 1 .. n : SubSeq(mine, 1, n)[i] = mine[i]
    BY <2>2, <1>2
  <2>5. /\ SubSeq(all, 1, n) \in Seq(Nat) /\ Len(SubSeq(all, 1, n)) = n
        /\ \A i \in 1 .. n : SubSeq(all, 1, n)[i] = all[i]
    BY <2>3, <1>2, <1>8
  <2>6. \A i \in 1 .. n : mine[i] = all[i]
    <3> SUFFICES ASSUME NEW i \in 1 .. n PROVE mine[i] = all[i] OBVIOUS
    <3>1. mine[i] = emits
      <4>1. (n - i) + 1 \in 1 .. n BY <1>2
      <4> QED BY <4>1, <2>2, <1>9
    <3>2. all[i] = emits
      <4>1. (Len(packet) - i) + 1 \in Len(packet) - n + 1 .. Len(packet) BY <1>2
      <4>2. i \in 1 .. Len(packet) BY <1>2, <1>8
      <4> QED BY <4>1, <4>2, <2>3, <1>8
    <3> QED BY <3>1, <3>2
  <2>7. SubSeq(mine, 1, n) = SubSeq(all, 1, n)
    <3> DEFINE x == SubSeq(mine, 1, n)
               y == SubSeq(all, 1, n)
    <3>1. x \in Seq(Nat) /\ y \in Seq(Nat) /\ Len(x) = Len(y)
          /\ \A i \in 1 .. Len(x) : x[i] = y[i]
      BY <2>4, <2>5, <2>6
    <3> HIDE DEF x, y
    <3>2. x = y BY <3>1, SeqExtensional
    <3> QED BY <3>2 DEF x, y
  <2>8. Len(mine) <= Len(all) /\ SubSeq(mine, 1, Len(mine)) = SubSeq(all, 1, Len(mine))
    BY <2>2, <2>3, <2>7, <1>8
  <2>9. IsPrefix(mine, all) BY <2>8 DEF IsPrefix
  <2> QED BY <2>9 DEF IsSuffix, mine, all
<1> QED BY <1>12, <1>13 DEF n

\* What the kernel passes on at the SYN_REPORT of an emit ends with the batch,
\* once and without a hole: short writes neither lose, repeat nor split it.  It
\* lacks at its end what a write took none of, and has something before it only
\* if an emit was over without a SYN_REPORT.
THEOREM EmitsItsBatches == Spec => PacketsAreBatches
<1>1. IInv /\ [Next]_vars =>
         [ PassPacket /\ packet # <<>> =>
             LET own == [i \in 1 .. asked - untaken |-> emits]
             IN  IsSuffix(own, packet) /\ (torn \/ packet = own) ]_vars
  BY PassedPacket
<1> QED BY Invariance, <1>1, PTL DEF Spec, PacketsAreBatches

-----------------------------------------------------------------------------
(* The stream implements the channel *)

\* How many events of a buffer are still behind an index.
Behind(b, n) == IF n < Len(b) THEN Len(b) - n ELSE 0

LEMMA Waiting ==
  ASSUME NEW b \in Seq(Nat), NEW n \in Nat, NEW r \in Seq(Nat)
  PROVE  LET u == SubSeq(b, n + 1, Len(b)) \o r
         IN  /\ Behind(b, n) \in Nat /\ Len(r) \in Nat
             /\ u \in Seq(Nat) /\ Len(u) = Behind(b, n) + Len(r)
             /\ \A i \in 1 .. Behind(b, n) : n + i \in 1 .. Len(b) /\ u[i] = b[n + i]
             /\ \A j \in 1 .. Len(r) : u[Behind(b, n) + j] = r[j]
<1> DEFINE rest == SubSeq(b, n + 1, Len(b))
<1>1. Len(b) \in Nat /\ Len(r) \in Nat /\ Behind(b, n) \in Nat BY DEF Behind
<1>2. rest \in Seq(Nat) /\ Len(rest) = Behind(b, n) BY DEF Behind
<1>3. \A i \in 1 .. Behind(b, n) : n + i \in 1 .. Len(b) /\ rest[i] = b[n + i]
  BY <1>1 DEF Behind
<1> HIDE DEF rest
<1> DEFINE u == rest \o r
<1>4. /\ u \in Seq(Nat) /\ Len(u) = Len(rest) + Len(r)
      /\ \A i \in 1 .. Len(rest) : u[i] = rest[i]
      /\ \A i \in 1 .. Len(r) : u[Len(rest) + i] = r[i]
  <2>1. rest \in Seq(Nat) BY <1>2
  <2> QED BY <2>1, Concatenation
<1> HIDE DEF u
<1>5. /\ Behind(b, n) \in Nat /\ Len(r) \in Nat
      /\ u \in Seq(Nat) /\ Len(u) = Behind(b, n) + Len(r)
      /\ \A i \in 1 .. Behind(b, n) : n + i \in 1 .. Len(b) /\ u[i] = b[n + i]
      /\ \A j \in 1 .. Len(r) : u[Behind(b, n) + j] = r[j]
  BY <1>1, <1>2, <1>3, <1>4
<1> QED BY <1>5 DEF u, rest

\* The events nobody has got yet are those of the buffer behind index, then
\* those of the ring.
LEMMA UnreadNow ==
  ASSUME TypeOK
  PROVE  LET m == Behind(event_buf, index)
         IN  /\ m \in Nat /\ Unread \in Seq(Nat) /\ Len(Unread) = m + Len(ring)
             /\ Len(ring) \in Nat
             /\ \A i \in 1 .. m : index + i \in 1 .. Len(event_buf)
                                  /\ Unread[i] = event_buf[index + i]
             /\ \A j \in 1 .. Len(ring) : Unread[m + j] = ring[j]
<1>1. event_buf \in Seq(Nat) /\ index \in Nat /\ ring \in Seq(Nat) BY Types
<1> QED BY ONLY <1>1, Waiting DEF Unread

LEMMA UnreadThen ==
  ASSUME event_buf' \in Seq(Nat), index' \in Nat, ring' \in Seq(Nat)
  PROVE  LET m == Behind(event_buf', index')
         IN  /\ m \in Nat /\ Unread' \in Seq(Nat) /\ Len(Unread') = m + Len(ring')
             /\ Len(ring') \in Nat
             /\ \A i \in 1 .. m : index' + i \in 1 .. Len(event_buf')
                                  /\ Unread'[i] = event_buf'[index' + i]
             /\ \A j \in 1 .. Len(ring') : Unread'[m + j] = ring'[j]
<1>1. Unread' = SubSeq(event_buf', index' + 1, Len(event_buf')) \o ring' BY DEF Unread
<1> DEFINE b == event_buf'
           n == index'
           r == ring'
<1>2. b \in Seq(Nat) /\ n \in Nat /\ r \in Seq(Nat) OBVIOUS
<1>3. Unread' = SubSeq(b, n + 1, Len(b)) \o r BY <1>1
<1> HIDE DEF b, n, r
<1>4. LET u == SubSeq(b, n + 1, Len(b)) \o r
      IN  /\ Behind(b, n) \in Nat /\ Len(r) \in Nat
          /\ u \in Seq(Nat) /\ Len(u) = Behind(b, n) + Len(r)
          /\ \A i \in 1 .. Behind(b, n) : n + i \in 1 .. Len(b) /\ u[i] = b[n + i]
          /\ \A j \in 1 .. Len(r) : u[Behind(b, n) + j] = r[j]
  BY <1>2, Waiting
<1>5. /\ Behind(b, n) \in Nat /\ Len(r) \in Nat
      /\ Unread' \in Seq(Nat) /\ Len(Unread') = Behind(b, n) + Len(r)
      /\ \A i \in 1 .. Behind(b, n) : n + i \in 1 .. Len(b) /\ Unread'[i] = b[n + i]
      /\ \A j \in 1 .. Len(r) : Unread'[Behind(b, n) + j] = r[j]
  BY ONLY <1>3, <1>4
<1> QED BY <1>5 DEF b, n, r

\* The types after a step.
LEMMA TypesThen ==
  ASSUME TypeOK'
  PROVE  /\ event_buf' \in Seq(Nat) /\ index' \in Nat /\ ring' \in Seq(Nat)
         /\ Len(event_buf') \in Nat /\ Len(ring') \in Nat
         /\ \A i \in 1 .. Len(event_buf') : event_buf'[i] \in Nat
         /\ \A i \in 1 .. Len(ring') : ring'[i] \in Nat
         /\ sent' \in Nat /\ taken' \in Nat
<1>1. /\ sent' \in Nat /\ taken' \in Nat /\ index' \in Nat
      /\ event_buf' \in Seq(1 .. sent') /\ ring' \in Seq(1 .. sent')
  BY DEF TypeOK, EmitterTypeOK
<1>2. /\ \A i \in 1 .. Len(event_buf') : event_buf'[i] \in Nat
      /\ \A i \in 1 .. Len(ring') : ring'[i] \in Nat
  BY <1>1
<1> QED BY <1>1, <1>2, SeqElements

\* Whatever emit does, the buffer stays, and the ring is as it was or newer
\* than the buffer: new events enter and the newest may be lost.
LEMMA EmittingEnters ==
  ASSUME IInv, IInv', Emitting
  PROVE  UNCHANGED <<Unread, taken>> \/ Channel!Enter
<1>1. TypeOK /\ TypeOK' /\ OrderInv' BY DEF IInv
<1>2. UNCHANGED <<event_buf, index, taken>> BY DEF Emitting
<1> DEFINE m == Behind(event_buf, index)
           u == Unread
           v == Unread'
<1>3. /\ m \in Nat /\ u \in Seq(Nat) /\ Len(u) = m + Len(ring) /\ Len(ring) \in Nat
      /\ \A i \in 1 .. m : index + i \in 1 .. Len(event_buf) /\ u[i] = event_buf[index + i]
  BY <1>1, UnreadNow
<1>4. /\ v \in Seq(Nat) /\ Len(v) = m + Len(ring') /\ Len(ring') \in Nat
      /\ \A i \in 1 .. m : v[i] = event_buf[index + i]
      /\ \A j \in 1 .. Len(ring') : v[m + j] = ring'[j]
  <2>1. event_buf' \in Seq(Nat) /\ index' \in Nat /\ ring' \in Seq(Nat)
    BY <1>1, TypesThen
  <2>2. Behind(event_buf', index') = m BY <1>2
  <2>3. /\ Unread' \in Seq(Nat) /\ Len(Unread') = m + Len(ring') /\ Len(ring') \in Nat
        /\ \A i \in 1 .. m : Unread'[i] = event_buf'[index' + i]
        /\ \A j \in 1 .. Len(ring') : Unread'[m + j] = ring'[j]
    <3> HIDE DEF m
    <3> QED BY <2>1, <2>2, UnreadThen
  <2> QED BY <2>3, <1>2
<1> HIDE DEF m, u, v
<1>5. m \in 0 .. Len(u) BY <1>3
<1>6. SubSeq(v, 1, m) = SubSeq(u, 1, m)
  <2> DEFINE x == SubSeq(v, 1, m)
             y == SubSeq(u, 1, m)
  <2>1. m \in 0 .. Len(v) /\ m \in Nat BY <1>3, <1>4
  <2>2. x \in Seq(Nat) /\ Len(x) = m /\ \A i \in 1 .. m : x[i] = v[i]
    BY <2>1, <1>4
  <2>3. y \in Seq(Nat) /\ Len(y) = m /\ \A i \in 1 .. m : y[i] = u[i]
    BY <1>5, <2>1, <1>3
  <2> HIDE DEF x, y
  <2>4. \A i \in 1 .. Len(x) : x[i] = y[i] BY <2>2, <2>3, <1>3, <1>4
  <2>5. x = y BY <2>2, <2>3, <2>4, SeqExtensional
  <2> QED BY <2>5 DEF x, y
<1>7. \A i \in m + 1 .. Len(v) : v[i] > taken /\ \A j \in 1 .. i - 1 : v[j] < v[i]
  <2>1. /\ \A i \in 1 .. Len(ring') : taken < ring'[i]
        /\ \A i, j \in 1 .. Len(ring') : i < j => ring'[i] < ring'[j]
        /\ \A i \in 1 .. Len(event_buf) : \A j \in 1 .. Len(ring') : event_buf[i] < ring'[j]
    BY <1>1, <1>2 DEF OrderInv, Ascending
  <2>2. taken \in Nat /\ \A i \in 1 .. Len(ring') : ring'[i] \in Nat
    BY <1>1, Types, TypesThen
  <2> SUFFICES ASSUME NEW i \in m + 1 .. Len(v)
               PROVE  v[i] > taken /\ \A j \in 1 .. i - 1 : v[j] < v[i]
    OBVIOUS
  <2>3. i - m \in 1 .. Len(ring') /\ m + (i - m) = i BY <1>3, <1>4
  <2>4. v[i] = ring'[i - m] BY <2>3, <1>4
  <2>5. v[i] > taken BY <2>1, <2>2, <2>3, <2>4
  <2>6. ASSUME NEW j \in 1 .. i - 1 PROVE v[j] < v[i]
    <3>1. CASE j <= m
      <4>1. j \in 1 .. m BY <3>1, <1>3
      <4>2. v[j] = event_buf[index + j] /\ index + j \in 1 .. Len(event_buf)
        BY <4>1, <1>3, <1>4
      <4> QED BY <4>2, <2>1, <2>3, <2>4
    <3>2. CASE ~ (j <= m)
      <4>1. j - m \in 1 .. Len(ring') /\ m + (j - m) = j /\ j - m < i - m
        BY <3>2, <2>3, <1>3
      <4>2. v[j] = ring'[j - m] BY <4>1, <1>4
      <4> QED BY <4>1, <4>2, <2>1, <2>3, <2>4
    <3> QED BY <3>1, <3>2
  <2> QED BY <2>5, <2>6
<1>8. UNCHANGED taken BY <1>2
<1> QED BY <1>5, <1>6, <1>7, <1>8 DEF Channel!Enter, u, v

\* poll_event returns the oldest event nobody has got.
LEMMA ReturnLeaves ==
  ASSUME IInv, IInv', PollReturn PROVE Channel!Leave
<1>1. TypeOK /\ TypeOK' BY DEF IInv
<1>2. /\ index < Len(event_buf) /\ index' = index + 1 /\ taken' = event_buf[index + 1]
      /\ UNCHANGED <<event_buf, ring>>
  BY DEF PollReturn, emitVars
<1> DEFINE m == Behind(event_buf, index)
           u == Unread
           v == Unread'
<1>3. /\ m \in Nat /\ u \in Seq(Nat) /\ Len(u) = m + Len(ring) /\ Len(ring) \in Nat
      /\ \A i \in 1 .. m : u[i] = event_buf[index + i]
      /\ \A j \in 1 .. Len(ring) : u[m + j] = ring[j]
  BY <1>1, UnreadNow
<1>4. /\ m \in Nat \ {0} /\ Behind(event_buf', index') = m - 1 /\ index \in Nat
  <2>1. index \in Nat /\ Len(event_buf) \in Nat BY <1>1, Types
  <2>2. m = Len(event_buf) - index BY <1>2 DEF Behind
  <2>3. index' < Len(event_buf') => Behind(event_buf', index') = Len(event_buf) - (index + 1)
    BY <1>2 DEF Behind
  <2>4. ~ (index' < Len(event_buf')) => Behind(event_buf', index') = 0
    BY DEF Behind
  <2> QED BY <2>1, <2>2, <2>3, <2>4, <1>2
<1>5. /\ v \in Seq(Nat) /\ Len(v) = m - 1 + Len(ring)
      /\ \A i \in 1 .. m - 1 : v[i] = event_buf[index + 1 + i]
      /\ \A j \in 1 .. Len(ring) : v[m - 1 + j] = ring[j]
  <2>1. event_buf' \in Seq(Nat) /\ index' \in Nat /\ ring' \in Seq(Nat)
    BY <1>1, TypesThen
  <2> HIDE DEF m
  <2>2. /\ Unread' \in Seq(Nat) /\ Len(Unread') = m - 1 + Len(ring')
        /\ \A i \in 1 .. m - 1 : Unread'[i] = event_buf'[index' + i]
        /\ \A j \in 1 .. Len(ring') : Unread'[m - 1 + j] = ring'[j]
    BY <2>1, <1>4, UnreadThen
  <2> QED BY <2>2, <1>2
<1> HIDE DEF m, u, v
<1>6. /\ u # <<>> /\ Head(u) = u[1] /\ Tail(u) \in Seq(Nat) /\ Len(Tail(u)) = Len(u) - 1
      /\ \A i \in 1 .. Len(u) - 1 : Tail(u)[i] = u[i + 1]
  <2>1. Len(u) # 0 /\ u \in Seq(Nat) BY <1>3, <1>4
  <2> QED BY ONLY <2>1
<1>7. u[1] = event_buf[index + 1] BY <1>3, <1>4
<1>8. v = Tail(u)
  <2> DEFINE t == Tail(u)
  <2>1. /\ t \in Seq(Nat) /\ Len(t) = Len(v)
        /\ \A i \in 1 .. Len(u) - 1 : t[i] = u[i + 1]
    BY <1>3, <1>4, <1>5, <1>6
  <2> HIDE DEF t
  <2>2. \A i \in 1 .. Len(v) : v[i] = t[i]
    <3> SUFFICES ASSUME NEW i \in 1 .. Len(v) PROVE v[i] = u[i + 1]
      BY <2>1, <1>3, <1>4, <1>5
    <3>1. CASE i <= m - 1
      <4>1. i \in 1 .. m - 1 /\ i + 1 \in 1 .. m /\ index + (i + 1) = index + 1 + i
        BY <3>1, <1>4
      <4>2. v[i] = event_buf[index + 1 + i] BY <4>1, <1>5
      <4>3. u[i + 1] = event_buf[index + (i + 1)] BY <4>1, <1>3
      <4> QED BY <4>1, <4>2, <4>3
    <3>2. CASE ~ (i <= m - 1)
      <4> DEFINE j == i - m + 1
      <4>1. j \in 1 .. Len(ring) /\ m - 1 + j = i /\ m + j = i + 1
        BY <3>2, <1>3, <1>4, <1>5
      <4> HIDE DEF j
      <4>2. v[m - 1 + j] = ring[j] BY <4>1, <1>5
      <4>3. u[m + j] = ring[j] BY <4>1, <1>3
      <4> QED BY <4>1, <4>2, <4>3
    <3> QED BY <3>1, <3>2
  <2>3. v = t BY <2>1, <2>2, <1>5, SeqExtensional
  <2> QED BY <2>3 DEF t
<1> QED BY <1>2, <1>6, <1>7, <1>8 DEF Channel!Leave, u, v

\* poll_event's clear and refill move events from the ring to the buffer, and
\* nobody notices.
LEMMA RefillStutters ==
  ASSUME IInv, IInv', PollClear \/ PollFill PROVE UNCHANGED <<Unread, taken>>
<1>1. TypeOK /\ TypeOK' /\ OrderInv BY DEF IInv
<1> DEFINE m == Behind(event_buf, index)
           n == Behind(event_buf', index')
           u == Unread
           v == Unread'
<1>2. /\ m \in Nat /\ u \in Seq(Nat) /\ Len(u) = m + Len(ring) /\ Len(ring) \in Nat
      /\ \A j \in 1 .. Len(ring) : u[m + j] = ring[j]
  BY <1>1, UnreadNow
<1>3. /\ n \in Nat /\ v \in Seq(Nat) /\ Len(v) = n + Len(ring') /\ Len(ring') \in Nat
      /\ \A i \in 1 .. n : v[i] = event_buf'[index' + i]
      /\ \A j \in 1 .. Len(ring') : v[n + j] = ring'[j]
  <2>1. event_buf' \in Seq(Nat) /\ index' \in Nat /\ ring' \in Seq(Nat)
    BY <1>1, TypesThen
  <2> QED BY <2>1, UnreadThen
<1>4. m = 0
  <2>1. index \in Nat /\ Len(event_buf) \in Nat BY <1>1, Types
  <2>2. CASE PollClear BY <2>1, <2>2 DEF PollClear, Behind
  <2>3. CASE PollFill
    <3>1. Len(event_buf) = 0 BY <1>1, <2>3 DEF PollFill, OrderInv
    <3> QED BY <2>1, <3>1 DEF Behind
  <2> QED BY <2>2, <2>3
<1>5. taken' = taken BY DEF PollClear, PollFill
<1>6. u = v
  <2>1. CASE PollClear
    <3>1. event_buf' = <<>> /\ index' = 0 /\ ring' = ring
      BY <2>1 DEF PollClear, Clear, emitVars
    <3>2. n = 0
      <4>1. Len(event_buf') = 0 BY <3>1
      <4> QED BY <4>1, <3>1 DEF Behind
    <3> HIDE DEF m, n, u, v
    <3>3. Len(u) = Len(v) /\ Len(u) = Len(ring) BY <1>2, <1>3, <1>4, <3>1, <3>2
    <3>4. \A i \in 1 .. Len(u) : u[i] = v[i]
      <4> SUFFICES ASSUME NEW i \in 1 .. Len(ring) PROVE u[i] = v[i] BY <3>3
      <4>1. u[0 + i] = ring[i] BY <1>2, <1>4
      <4>2. v[0 + i] = ring[i] BY <1>3, <3>1, <3>2
      <4> QED BY <4>1, <4>2
    <3> QED BY <3>3, <3>4, <1>2, <1>3, SeqExtensional
  <2>2. CASE PollFill
    <3>1. PICK k \in 1 .. Len(ring) : FillEvents(k) BY <2>2 DEF PollFill
    <3>2. ReadUpTo(k) /\ event_buf' = event_buf \o SubSeq(ring, 1, k)
      BY <3>1 DEF FillEvents
    <3>3. event_buf = <<>> /\ index = 0 /\ index' = index
      BY <1>1, <2>2 DEF OrderInv, PollFill
    <3> DEFINE front == SubSeq(ring, 1, k)
    <3>4. /\ k \in Nat \ {0} /\ k <= Len(ring) /\ Len(ring') = Len(ring) - k
          /\ \A j \in 1 .. Len(ring') : k + j \in 1 .. Len(ring) /\ ring'[j] = ring[k + j]
          /\ front \in Seq(1 .. sent) /\ Len(front) = k
          /\ \A i \in 1 .. k : front[i] = ring[i]
      BY <3>2, ReadRing
    <3> HIDE DEF front
    <3>5. event_buf' = front BY <3>2, <3>3, <3>4 DEF front
    <3>6. n = k BY <3>3, <3>4, <3>5 DEF Behind
    <3> HIDE DEF m, n, u, v
    <3>7. Len(u) = Len(v) /\ Len(u) = Len(ring) BY <1>2, <1>3, <1>4, <3>4, <3>6
    <3>8. \A i \in 1 .. Len(u) : u[i] = v[i]
      <4> SUFFICES ASSUME NEW i \in 1 .. Len(ring) PROVE u[i] = v[i] BY <3>7
      <4>1. u[0 + i] = ring[i] /\ 0 + i = i BY <1>2, <1>4
      <4>2. CASE i <= k
        <5>1. i \in 1 .. k /\ index' + i = i BY <4>2, <3>3
        <5>2. v[i] = front[i] BY <5>1, <1>3, <3>5, <3>6
        <5> QED BY <5>1, <5>2, <4>1, <3>4
      <4>3. CASE ~ (i <= k)
        <5> DEFINE j == i - k
        <5>1. j \in 1 .. Len(ring') /\ k + j = i BY <4>3, <3>4, <1>2
        <5> HIDE DEF j
        <5>2. v[k + j] = ring'[j] BY <5>1, <1>3, <3>6
        <5>3. ring'[j] = ring[k + j] BY <5>1, <3>4
        <5> QED BY <5>1, <5>2, <5>3, <4>1
      <4> QED BY <4>2, <4>3
    <3> QED BY <3>7, <3>8, <1>2, <1>3, SeqExtensional
  <2> QED BY <2>1, <2>2
<1> QED BY <1>5, <1>6 DEF u, v

\* fetch_events takes out all of the buffer and what it read from the ring.
LEMMA DeviceMutTakesOut ==
  ASSUME IInv, IInv', DeviceMut PROVE Channel!TakeOut
<1>1. TypeOK /\ TypeOK' /\ OrderInv BY DEF IInv
<1>2. PICK k \in 1 .. Len(ring) : \E got \in 0 .. Len(event_buf) + k : FetchEvents(k, got)
  BY DEF DeviceMut
<1>3. PICK got \in 0 .. Len(event_buf) + k : FetchEvents(k, got) BY <1>2
<1> DEFINE all == event_buf \o SubSeq(ring, 1, k)
           m == Behind(event_buf, index)
           u == Unread
           v == Unread'
<1>4. /\ ReadUpTo(k) /\ event_buf' = <<>> /\ index' = index /\ MayMix
      /\ taken' = IF got = 0 \/ all[got] < taken THEN taken ELSE all[got]
  BY <1>3 DEF FetchEvents, DeviceMut
<1>5. /\ k \in Nat \ {0} /\ k <= Len(ring) /\ Len(ring') = Len(ring) - k
      /\ \A j \in 1 .. Len(ring') : ring'[j] = ring[k + j]
  BY <1>4, ReadRing
<1>6. /\ m \in Nat /\ u \in Seq(Nat) /\ Len(u) = m + Len(ring) /\ Len(ring) \in Nat
      /\ \A i \in 1 .. m : u[i] = event_buf[index + i]
      /\ \A j \in 1 .. Len(ring) : u[m + j] = ring[j]
  BY <1>1, UnreadNow
<1>7. /\ v \in Seq(Nat) /\ Len(v) = Len(ring')
      /\ \A j \in 1 .. Len(ring') : v[j] = ring'[j]
  <2>1. event_buf' \in Seq(Nat) /\ index' \in Nat /\ ring' \in Seq(Nat)
    BY <1>1, TypesThen
  <2>2. Behind(event_buf', index') = 0
    <3>1. Len(event_buf') = 0 /\ index' \in Nat BY <1>4, <2>1
    <3> DEFINE l == Len(event_buf')
    <3>2. ~ (index' < l) BY <3>1
    <3> HIDE DEF l
    <3>3. Behind(event_buf', index') = IF index' < l THEN l - index' ELSE 0
      BY DEF Behind, l
    <3> QED BY <3>2, <3>3
  <2>3. /\ Unread' \in Seq(Nat) /\ Len(Unread') = 0 + Len(ring') /\ Len(ring') \in Nat
        /\ \A j \in 1 .. Len(ring') : Unread'[0 + j] = ring'[j]
    BY <2>1, <2>2, UnreadThen
  <2>4. \A j \in 1 .. Len(ring') : 0 + j = j BY <2>3
  <2> QED BY <2>3, <2>4
<1>8. got # 0 => /\ got \in 1 .. Len(event_buf) => all[got] = event_buf[got]
                 /\ ~ got \in 1 .. Len(event_buf) =>
                       got - Len(event_buf) \in 1 .. k /\ all[got] = ring[got - Len(event_buf)]
  <2> SUFFICES ASSUME got # 0
               PROVE  /\ got \in 1 .. Len(event_buf) => all[got] = event_buf[got]
                      /\ ~ got \in 1 .. Len(event_buf) =>
                            /\ got - Len(event_buf) \in 1 .. k
                            /\ all[got] = ring[got - Len(event_buf)]
    OBVIOUS
  <2>1. Len(event_buf) \in Nat BY <1>1, Types
  <2>2. got \in 1 .. Len(event_buf) + k BY <2>1, <1>5
  <2> QED BY <2>2, <1>4, FetchedEvents
<1>9. /\ index \in Nat /\ Len(event_buf) \in Nat /\ taken \in Nat
      /\ \A i \in 1 .. Len(event_buf) : event_buf[i] \in Nat
      /\ m = IF index < Len(event_buf) THEN Len(event_buf) - index ELSE 0
  BY <1>1, Types DEF Behind
<1> DEFINE c == m + k
<1>10. c \in 1 .. Len(u) BY <1>5, <1>6
<1> HIDE DEF all, m, u, v
<1>11. v = SubSeq(u, c + 1, Len(u))
  <2> DEFINE w == SubSeq(u, c + 1, Len(u))
  <2>1. /\ w \in Seq(Nat) /\ Len(w) = Len(u) - c
        /\ \A j \in 1 .. Len(u) - c : w[j] = u[c + j]
    <3> HIDE DEF c
    <3>1. u \in Seq(Nat) /\ c \in Nat BY <1>6, <1>10
    <3> DEFINE a == c + 1
               b == Len(u)
    <3>2. a \in Nat \ {0} /\ b \in 0 .. Len(u) /\ a <= b + 1 /\ b \in Nat
      BY <3>1, <1>10
    <3> HIDE DEF a, b
    <3>3. /\ SubSeq(u, a, b) \in Seq(Nat) /\ Len(SubSeq(u, a, b)) = b - a + 1
          /\ \A j \in 1 .. b - a + 1 : SubSeq(u, a, b)[j] = u[a - 1 + j]
      BY <3>1, <3>2, Stretch
    <3>4. b - a + 1 = Len(u) - c /\ \A j \in 1 .. Len(u) - c : a - 1 + j = c + j
      BY <3>1, <3>2 DEF a, b
    <3>5. w = SubSeq(u, a, b) BY DEF a, b
    <3> HIDE DEF w
    <3> QED BY <3>3, <3>4, <3>5
  <2> HIDE DEF w
  <2>2. Len(w) = Len(v) /\ Len(v) = Len(ring) - k /\ Len(u) - c = Len(ring) - k
    BY <2>1, <1>5, <1>6, <1>7
  <2>3. \A j \in 1 .. Len(v) : v[j] = w[j]
    <3> SUFFICES ASSUME NEW j \in 1 .. Len(v) PROVE v[j] = w[j] OBVIOUS
    <3>1. k + j \in 1 .. Len(ring) /\ c + j = m + (k + j) /\ j \in 1 .. Len(u) - c
      BY <2>2, <1>5, <1>6
    <3>2. v[j] = ring[k + j] BY <1>5, <1>7
    <3>3. u[m + (k + j)] = ring[k + j] BY <3>1, <1>6
    <3>4. w[j] = u[c + j] BY <3>1, <2>1
    <3> QED BY <3>1, <3>2, <3>3, <3>4
  <2>4. v = w BY <2>1, <2>2, <2>3, <1>7, SeqExtensional
  <2> QED BY <2>4 DEF w
<1>12. taken' \in {taken} \cup {u[i] : i \in 1 .. c}
  <2>1. CASE got = 0 BY <2>1, <1>4
  <2>2. CASE got # 0 /\ got \in 1 .. Len(event_buf) /\ got <= index
    <3>1. all[got] = event_buf[got] /\ event_buf[got] <= taken
      BY <2>2, <1>1, <1>8 DEF OrderInv
    <3> QED BY <3>1, <2>2, <1>4, <1>9
  <2>3. CASE got # 0 /\ got \in 1 .. Len(event_buf) /\ ~ (got <= index)
    <3> DEFINE i == got - index
    <3>1. i \in 1 .. m /\ index + i = got /\ i \in 1 .. c BY <2>3, <1>5, <1>9
    <3> HIDE DEF i
    <3>2. all[got] = event_buf[got] BY <2>3, <1>8
    <3>3. all[got] = u[i] BY <3>1, <3>2, <1>6
    <3>4. taken' = taken \/ taken' = u[i] BY <3>3, <1>4
    <3> QED BY <3>1, <3>4
  <2>4. CASE got # 0 /\ ~ got \in 1 .. Len(event_buf)
    <3> DEFINE j == got - Len(event_buf)
    <3>1. j \in 1 .. k /\ all[got] = ring[j] BY <2>4, <1>8
    <3> HIDE DEF j
    <3>2. m + j \in 1 .. c /\ j \in 1 .. Len(ring)
      <4>1. m \in Nat /\ Len(ring) \in Nat BY <1>6
      <4>2. k \in Nat /\ k <= Len(ring) BY <1>5
      <4>3. j \in 1 .. k BY <3>1
      <4> QED BY <4>1, <4>2, <4>3
    <3>3. all[got] = u[m + j] BY <3>1, <3>2, <1>6
    <3>4. taken' = taken \/ taken' = u[m + j] BY <3>3, <1>4
    <3> QED BY <3>2, <3>4
  <2> QED BY <2>1, <2>2, <2>3, <2>4
<1> HIDE DEF c
<1> QED BY <1>4, <1>10, <1>11, <1>12 DEF Channel!TakeOut, u, v

\* Every step is one of the channel, or one it does not notice.
LEMMA ChannelStep ==
  ASSUME IInv, IInv', [Next]_vars PROVE [Channel!Next]_<<Unread, taken>>
<1>1. CASE Emitting BY <1>1, EmittingEnters DEF Channel!Next
<1>2. CASE PollReturn BY <1>2, ReturnLeaves DEF Channel!Next
<1>3. CASE PollClear \/ PollFill BY <1>3, RefillStutters
<1>4. CASE DeviceMut BY <1>4, DeviceMutTakesOut DEF Channel!Next
<1>5. CASE PollPending \/ PollWouldBlock \/ PollError \/ PollAgain \/ Reactor \/ UNCHANGED vars
  BY <1>5 DEF PollPending, PollWouldBlock, PollError, PollAgain, Reactor, vars, readVars,
              emitVars, Unread
<1> QED BY <1>1, <1>2, <1>3, <1>4, <1>5 DEF Next, Poll

\* The stream over a RawDevice or a VirtualDevice implements the channel:
\* events come out in the order they went in, none is passed over or returned
\* twice, whatever the ring, the batches and the reads are, and also when
\* device_mut().fetch_events() drains the buffer under poll_event's index.
THEOREM StreamImplementsChannel == Spec => ImplementsRawChannel
<1>1. Init => Channel!Init
  <2> SUFFICES ASSUME Init PROVE Channel!Init OBVIOUS
  <2>1. event_buf = <<>> /\ ring = <<>> /\ index = 0 /\ taken = 0
    BY DEF Init, EmitterInit
  <2>2. Unread = <<>> BY <2>1 DEF Unread
  <2> QED BY <2>1, <2>2 DEF Channel!Init
<1>2. IInv /\ IInv' /\ [Next]_vars => [Channel!Next]_<<Unread, taken>>
  BY ChannelStep
<1> QED BY Invariance, <1>1, <1>2, PTL DEF Spec, ImplementsRawChannel, Channel!Spec

=============================================================================
