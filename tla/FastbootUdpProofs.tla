------------------------- MODULE FastbootUdpProofs -------------------------
(***************************************************************************)
(* fastboot's UDP transport implements the transport of FastbootLink, for  *)
(* every size of the sequence number space, of the packets and of the      *)
(* retransmission bounds.                                                  *)
(***************************************************************************)
EXTENDS FastbootUdp, SequenceTheorems, TLAPS

Seqs == 0..SeqSpace-1
Packets == [id : {"query", "init", "fastboot", "error"}, seq : Seqs, more : BOOLEAN,
            data : Seq(Units)]
Datagrams == [session : Nat, packet : Packets]
Calls == [kind : {"query", "init", "write", "read"}, packet : Packets, rest : Seq(Units),
          rx : Seq(Units), limit : Nat, left : Nat, prompt : BOOLEAN]

\* Type correctness of the host, the network and the device.
TypeInv ==
  /\ session \in Nat
  /\ host \in {"closed", "sending", "waiting", "idle", "failed"}
  /\ sequence \in Seqs \cup {-1}
  /\ maxData \in Nat \ {0}
  /\ call \in Calls
  /\ taken \in Seq(Units) /\ got \in Seq(Units) /\ given \in Seq(Units)
  /\ requests \subseteq Datagrams /\ responses \subseteq Datagrams
  /\ expected \in Seqs
  /\ saved \in Packets

InCall == host \in {"sending", "waiting"}

\* No datagram of the network will make the device go on.
NonePending == \A m \in requests : m.packet.id # "query" => m.packet.seq # expected

\* The device is at e, or one past it and waiting for the host.
Ready(e) == expected = e \/ (expected = Succ(e) /\ NonePending)

\* The device's side: what it has saved is its answer to the packet before the
\* expected one, and after an Init packet it starts from nothing.
DeviceInv ==
  /\ Succ(saved.seq) = expected
  /\ saved.id # "query"
  /\ saved.more => saved.id = "fastboot"
  /\ saved.id = "init" =>
       /\ got = <<>> /\ given = <<>>
       /\ \E v \in {0, 1}, z \in DeviceMaxData :
            saved.data = <<<<"version", v>>, <<"size", z>>>>

\* The network: no request is ahead of the device, and a response is the saved
\* one or out of date.
NetworkInv ==
  /\ \A m \in requests :
       m.packet.id # "query" =>
         expected \in {m.packet.seq, Succ(m.packet.seq), Succ(Succ(m.packet.seq))}
  /\ \A m \in responses :
       /\ m.packet.more => m.packet.id = "fastboot"
       /\ m.packet.id # "query" =>
            m.packet = saved \/ expected = Succ(Succ(m.packet.seq))

\* While a host starts up it learns where the device is, give or take a packet
\* of an earlier run.
QueryInv ==
  \A m \in responses :
    m.packet.id = "query" =>
      \E e \in Seqs :
        /\ m.packet.data = <<<<"next", e>>>>
        /\ (InCall /\ call.kind = "query" => Ready(e))

StartInv ==
  InCall /\ call.kind \in {"query", "init"} =>
    /\ call.packet.id = call.kind
    /\ call.rest = <<>> /\ call.rx = <<>> /\ maxData = 2
    /\ call.kind = "init" => Ready(call.packet.seq)

\* During a Read or Write the device is at the host's packet or just past it,
\* and nothing but that packet can make it go on.
CallInv ==
  /\ InCall => sequence = call.packet.seq
  /\ host = "failed" => call.kind \in {"write", "read"}
  /\ Connected /\ host # "idle" =>
       /\ call.packet.id = "fastboot"
       /\ call.packet.data \in Data /\ call.rest \in Data
       /\ call.kind = "write" => call.packet.data # <<>> /\ ~call.prompt
       /\ call.kind = "read" => call.packet.data = <<>> /\ call.rest = <<>>
       /\ expected \in {call.packet.seq, Succ(call.packet.seq)}
       /\ \A m \in requests :
            m.packet.id # "query" /\ m.packet.seq = expected => m.packet = call.packet
       /\ call.kind = "write" /\ Taken => ~saved.more
  /\ host = "idle" => sequence = expected /\ NonePending

\* What the device handed out is what was read, is being read, or is in the
\* response it has saved.
GivenInv ==
  /\ host = "idle" => given = taken
  /\ InCall /\ call.kind = "write" => given = taken
  /\ InCall /\ call.kind = "read" =>
       given = (taken \o call.rx) \o (IF Taken THEN saved.data ELSE <<>>)

IInv ==
  TypeInv /\ DeviceInv /\ NetworkInv /\ QueryInv /\ StartInv /\ CallInv /\ GivenInv

----------------------------------------------------------------------------
(* Sequence numbers *)

\* During a Write or a Read the connection stands.
LEMMA CallConnected ==
  ASSUME InCall, call.kind \in {"write", "read"}
  PROVE  Connected /\ host # "idle" /\ host # "failed"
BY DEF InCall, Connected

\* Succ counts round the sequence number space.
LEMMA SuccIs ==
  ASSUME NEW s \in Seqs
  PROVE  Succ(s) = IF s = SeqSpace - 1 THEN 0 ELSE s + 1
<1>1. CASE s = SeqSpace - 1
  <2>1. SeqSpace % SeqSpace = 0
    BY SeqSpaceAssumption, Z3
  <2> QED BY <1>1, <2>1, SeqSpaceAssumption DEF Succ, Seqs
<1>2. CASE s # SeqSpace - 1
  <2>1. \A n \in Nat : n < SeqSpace => n % SeqSpace = n
    BY SeqSpaceAssumption, Z3
  <2> QED BY <1>2, <2>1, SeqSpaceAssumption DEF Succ, Seqs
<1> QED BY <1>1, <1>2

\* Four sequence numbers in a row are different, so that an answer to one of the
\* last two packets cannot be taken for one to the next.
LEMMA SuccFacts ==
  ASSUME NEW s \in Seqs
  PROVE  /\ Succ(s) \in Seqs
         /\ Succ(s) # s /\ Succ(Succ(s)) # s /\ Succ(Succ(Succ(s))) # s
         /\ \A t \in Seqs : Succ(s) = Succ(t) => s = t
<1>1. \A t \in Seqs : Succ(t) = IF t = SeqSpace - 1 THEN 0 ELSE t + 1
  BY SuccIs
<1>2. \A t \in Seqs : Succ(t) \in Seqs
  BY <1>1, SeqSpaceAssumption DEF Seqs
<1>3. Succ(s) # s /\ \A t \in Seqs : Succ(s) = Succ(t) => s = t
  BY <1>1, SeqSpaceAssumption DEF Seqs
<1>4. Succ(Succ(s)) # s
  BY <1>1, <1>2, SeqSpaceAssumption DEF Seqs
<1>5. Succ(Succ(Succ(s))) # s
  BY <1>1, <1>2, SeqSpaceAssumption DEF Seqs
<1> QED BY <1>2, <1>3, <1>4, <1>5

----------------------------------------------------------------------------
(* Cutting data into packets *)

\* A unit is a word and a number.
LEMMA UnitIs ==
  ASSUME NEW w \in Words, NEW n \in Int
  PROVE  <<w, n>> \in Units
BY DEF Units

\* The end of a sequence.
LEMMA EndOf ==
  ASSUME NEW S, NEW s \in Seq(S), NEW k \in 1..Len(s)+1
  PROVE  /\ SubSeq(s, k, Len(s)) \in Seq(S)
         /\ Len(SubSeq(s, k, Len(s))) = Len(s) - k + 1
         /\ \A i \in 1..Len(s)-k+1 : SubSeq(s, k, Len(s))[i] = s[k + i - 1]
<1>1. Len(s) \in Nat /\ k \in Nat /\ k >= 1 /\ k <= Len(s) + 1
  OBVIOUS
<1>2. \A i \in k..Len(s) : s[i] \in S
  <2> SUFFICES ASSUME NEW i \in k..Len(s) PROVE s[i] \in S
    OBVIOUS
  <2>1. i \in 1..Len(s)
    BY <1>1
  <2> QED BY <2>1
<1>3. /\ SubSeq(s, k, Len(s)) \in Seq(S)
      /\ Len(SubSeq(s, k, Len(s))) = IF k <= Len(s) THEN Len(s) - k + 1 ELSE 0
      /\ \A i \in 1..Len(s)-k+1 : SubSeq(s, k, Len(s))[i] = s[k + i - 1]
  BY <1>1, <1>2, SubSeqProperties
<1> QED BY <1>1, <1>3

\* A packet takes what fits of the data and the rest is the rest; both are data,
\* and a packet of data is not empty.
LEMMA Cut ==
  ASSUME NEW s \in Data, NEW max \in Nat \ {0}
  PROVE  LET n == Shorter(max, Len(s)) IN
         /\ SubSeq(s, 1, n) \in Data /\ SubSeq(s, n + 1, Len(s)) \in Data
         /\ SubSeq(s, 1, n) \o SubSeq(s, n + 1, Len(s)) = s
         /\ s # <<>> => SubSeq(s, 1, n) # <<>>
<1> DEFINE n == Shorter(max, Len(s))
<1>1. s \in Seq(Units) /\ Len(s) \in Nat
  BY DataAssumption
<1>2. n \in 0..Len(s)
  BY <1>1 DEF Shorter
<1>3. SubSeq(s, 1, n) \in Data /\ SubSeq(s, n + 1, Len(s)) \in Data
  <2>1. 1 \in 1..Len(s)+1 /\ n \in 0..Len(s) /\ n + 1 \in 1..Len(s)+1 /\ Len(s) \in 0..Len(s)
    BY <1>1, <1>2
  <2> QED BY <2>1, DataAssumption
<1>4. SubSeq(s, 1, n) \o SubSeq(s, n + 1, Len(s)) = s
  <2>1. /\ SubSeq(s, 1, n) \in Seq(Units) /\ Len(SubSeq(s, 1, n)) = n
        /\ \A i \in 1..n : SubSeq(s, 1, n)[i] = s[i]
    BY <1>1, <1>2
  <2>2. /\ SubSeq(s, n + 1, Len(s)) \in Seq(Units) /\ Len(SubSeq(s, n + 1, Len(s))) = Len(s) - n
        /\ \A i \in 1..Len(s)-n : SubSeq(s, n + 1, Len(s))[i] = s[n + i]
    <3> DEFINE k == n + 1
    <3>1. k \in 1..Len(s)+1
      BY <1>1, <1>2
    <3> HIDE DEF k
    <3>2. /\ SubSeq(s, k, Len(s)) \in Seq(Units)
          /\ Len(SubSeq(s, k, Len(s))) = Len(s) - k + 1
          /\ \A i \in 1..Len(s)-k+1 : SubSeq(s, k, Len(s))[i] = s[k + i - 1]
      BY <3>1, <1>1, EndOf
    <3> QED BY <3>2, <1>1, <1>2, SMTT(30) DEF k
  <2> DEFINE a == SubSeq(s, 1, n)
             b == SubSeq(s, n + 1, Len(s))
  <2> HIDE DEF a, b
  <2>3. a \in Seq(Units) /\ b \in Seq(Units) /\ Len(a) = n /\ Len(b) = Len(s) - n
    BY <2>1, <2>2 DEF a, b
  <2>4. /\ a \o b \in Seq(Units) /\ Len(a \o b) = Len(a) + Len(b)
        /\ \A i \in 1..Len(a)+Len(b) :
             (a \o b)[i] = IF i <= Len(a) THEN a[i] ELSE b[i - Len(a)]
    BY <2>3, ConcatProperties, Zenon
  <2> HIDE DEF n
  <2>5. Len(a \o b) = Len(s)
    BY <2>3, <2>4, <1>1, <1>2
  <2>6. \A i \in 1..Len(s) : (a \o b)[i] = s[i]
    <3> SUFFICES ASSUME NEW i \in 1..Len(s) PROVE (a \o b)[i] = s[i]
      BY Zenon
    <3>1. CASE i <= n
      BY <3>1, <2>1, <2>3, <2>4, <1>1, <1>2 DEF a
    <3>2. CASE i > n
      <4>1. i - n \in 1..Len(s)-n /\ n + (i - n) = i
        BY <3>2, <1>1, <1>2
      <4>2. b[i - n] = s[i]
        BY <4>1, <2>2 DEF b
      <4> QED BY <3>2, <4>2, <2>3, <2>4, <1>1, <1>2
    <3>3. i <= n \/ i > n
      BY <1>1, <1>2
    <3> QED BY <3>1, <3>2, <3>3, Zenon
  <2>7. a \o b = s
    <3> DEFINE t == a \o b
    <3> HIDE DEF t
    <3>1. /\ t \in Seq(Units) /\ s \in Seq(Units) /\ Len(t) = Len(s)
          /\ \A i \in 1..Len(t) : t[i] = s[i]
      BY <2>4, <2>5, <2>6, <1>1 DEF t
    <3>2. t = s
      BY <3>1, SeqEqual
    <3> QED BY <3>2 DEF t
  <2> QED BY <2>7, Zenon DEF a, b, n
<1>5. s # <<>> => SubSeq(s, 1, n) # <<>>
  <2>1. s # <<>> => n > 0
    BY <1>1 DEF Shorter
  <2>2. Len(SubSeq(s, 1, n)) = n
    BY <1>1, <1>2
  <2> QED BY <2>1, <2>2, <1>2
<1> QED BY <1>3, <1>4, <1>5, Zenon

----------------------------------------------------------------------------
(* Steps of the device *)

\* When the device processes a packet while a Read or Write is under way, it is
\* the packet of that call.
LEMMA ProcessedIsMine ==
  ASSUME IInv, NEW m \in requests, m.packet.id # "query", m.packet.seq = expected, Connected
  PROVE  /\ host # "idle"
         /\ m.packet = call.packet
         /\ expected = call.packet.seq
         /\ ~Taken
<1>1. host # "idle"
  BY DEF IInv, CallInv, NonePending
<1>2. m.packet = call.packet
  BY <1>1 DEF IInv, CallInv
<1>3. call.packet.seq \in Seqs
  BY DEF IInv, TypeInv, Calls, Packets
<1>4. Succ(call.packet.seq) # call.packet.seq
  BY <1>3, SuccFacts
<1> QED BY <1>1, <1>2, <1>4 DEF Taken

\* What processing a packet does to the network and to the device's position.
LEMMA ProcessStep ==
  ASSUME IInv, NEW m \in requests, NEW id \in {"init", "fastboot", "error"},
         NEW more \in BOOLEAN, NEW data \in Seq(Units), more => id = "fastboot",
         Process(m, id, more, data), UNCHANGED hostVars
  PROVE  /\ requests' \subseteq Datagrams /\ responses' \subseteq Datagrams
         /\ expected' \in Seqs /\ saved' \in Packets
         /\ Succ(saved'.seq) = expected' /\ saved'.id = id /\ saved'.more = more
         /\ saved'.data = data
         /\ NonePending' /\ NetworkInv' /\ QueryInv' /\ StartInv'
<1> USE DEF IInv
<1>1. expected \in Seqs /\ expected' = Succ(expected) /\ expected' \in Seqs
  BY SuccFacts DEF TypeInv, Process
<1>2. saved' = Packet(id, expected, more, data)
  BY DEF Process
<1>3. /\ saved' \in Packets /\ saved'.seq = expected /\ saved'.id = id /\ saved'.more = more
      /\ saved'.data = data
  BY <1>1, <1>2 DEF Packet, Packets
<1>4. requests' \subseteq requests /\ requests' \subseteq Datagrams
  BY DEF Process, Live, TypeInv
<1>5. responses' \subseteq responses \cup {To(m.session, saved')}
  BY <1>2 DEF Process, Live, For
<1>6. To(m.session, saved') \in Datagrams /\ To(m.session, saved').packet = saved'
  BY <1>3 DEF To, Datagrams, TypeInv
<1>7. responses' \subseteq Datagrams
  BY <1>5, <1>6 DEF TypeInv
<1>8. \A r \in requests : r.packet.seq \in Seqs
  BY DEF TypeInv, Datagrams, Packets
<1>9. \A r \in responses : r.packet.seq \in Seqs
  BY DEF TypeInv, Datagrams, Packets
<1>10. NonePending'
  <2> SUFFICES ASSUME NEW r \in requests', r.packet.id # "query" PROVE r.packet.seq # expected'
    BY DEF NonePending
  <2>1. r \in requests /\ r.packet.seq \in Seqs
    BY <1>4, <1>8
  <2>2. expected \in {r.packet.seq, Succ(r.packet.seq), Succ(Succ(r.packet.seq))}
    BY <2>1 DEF NetworkInv
  <2> QED BY <1>1, <2>1, <2>2, SuccFacts
<1>11. NetworkInv'
  <2>1. ASSUME NEW r \in requests', r.packet.id # "query"
        PROVE  expected' \in {r.packet.seq, Succ(r.packet.seq), Succ(Succ(r.packet.seq))}
    <3>1. expected \in {r.packet.seq, Succ(r.packet.seq)}
      BY <2>1 DEF Process, Live
    <3> QED BY <3>1, <1>1
  <2>2. ASSUME NEW r \in responses'
        PROVE  /\ r.packet.more => r.packet.id = "fastboot"
               /\ r.packet.id # "query" =>
                    r.packet = saved' \/ expected' = Succ(Succ(r.packet.seq))
    <3>1. CASE r = To(m.session, saved')
      BY <3>1, <1>3, <1>6
    <3>2. CASE r \in responses /\ r.packet.id = "query"
      BY <3>2 DEF NetworkInv
    <3>3. CASE r \in responses /\ r.packet.id # "query" /\ r # To(m.session, saved')
      <4>1. expected \in {r.packet.seq, Succ(r.packet.seq)}
        BY <3>3, <1>2 DEF Process, Live, For
      <4>2. r.packet = saved \/ expected = Succ(Succ(r.packet.seq))
        BY <3>3 DEF NetworkInv
      <4>3. expected = Succ(r.packet.seq)
        BY <4>1, <4>2, <3>3, <1>9, SuccFacts DEF DeviceInv
      <4> QED BY <4>3, <3>3, <1>1 DEF NetworkInv
    <3> QED BY <2>2, <1>5, <3>1, <3>2, <3>3
  <2> QED BY <2>1, <2>2 DEF NetworkInv
<1>12. \A e \in Seqs : Ready(e) => Ready(e)'
  <2> SUFFICES ASSUME NEW e \in Seqs, Ready(e) PROVE Ready(e)'
    OBVIOUS
  <2>1. expected = e
    BY DEF Ready, NonePending, Process
  <2> QED BY <2>1, <1>1, <1>10 DEF Ready
<1>13. UNCHANGED <<host, call, maxData, InCall>>
  BY DEF hostVars, InCall
<1>14. QueryInv'
  <2> SUFFICES ASSUME NEW r \in responses', r.packet.id = "query"
               PROVE  \E e \in Seqs : /\ r.packet.data = <<<<"next", e>>>>
                                       /\ (InCall' /\ call'.kind = "query" => Ready(e)')
    BY DEF QueryInv
  <2>1. r \in responses
    BY <1>3, <1>5, <1>6
  <2> QED BY <2>1, <1>12, <1>13 DEF QueryInv
<1>15. StartInv'
  <2>1. call.packet.seq \in Seqs
    BY SMTT(30) DEF TypeInv, Calls, Packets
  <2> QED BY <2>1, <1>12, <1>13 DEF StartInv
<1> QED BY <1>1, <1>3, <1>4, <1>7, <1>10, <1>11, <1>14, <1>15

\* Processing a packet keeps the host and the device together.
LEMMA ProcessCall ==
  ASSUME IInv, NEW m \in requests, NEW id \in {"init", "fastboot", "error"},
         NEW more \in BOOLEAN, NEW data \in Seq(Units), more => id = "fastboot",
         more => m.packet.data = <<>>,
         Process(m, id, more, data), UNCHANGED hostVars
  PROVE  CallInv'
<1>1. UNCHANGED <<host, call, sequence, InCall, Connected>>
  BY DEF hostVars, InCall, Connected
<1>2. NonePending' /\ saved'.more = more
  BY ProcessStep
<1>3. m.packet.id # "query" /\ m.packet.seq = expected /\ expected' = Succ(expected)
  BY DEF Process
<1>4. Connected => /\ host # "idle" /\ m.packet = call.packet
                   /\ expected = call.packet.seq
  BY <1>3, ProcessedIsMine
<1>5. host = "idle" => Connected
  BY DEF Connected
<1>6. CallInv
  BY DEF IInv
<1> QED BY <1>1, <1>2, <1>3, <1>4, <1>5, <1>6 DEF CallInv, NonePending

\* A step of the device that neither accepts nor hands out data.
LEMMA RepeatInv ==
  ASSUME IInv, NEW m \in requests, DeviceQuery(m) \/ DeviceRepeat(m), UNCHANGED hostVars
  PROVE  IInv'
<1> USE DEF IInv
<1>1. PICK p \in Packets :
        /\ responses' = responses \cup For(m.session, p)
        /\ \/ p = saved
           \/ p = Packet("query", m.packet.seq, FALSE, <<<<"next", expected>>>>)
  <2>1. CASE DeviceQuery(m)
    <3>1. m.packet.seq \in Seqs
      BY DEF TypeInv, Datagrams, Packets
    <3>2. <<<<"next", expected>>>> \in Seq(Units)
      <4>1. <<"next", expected>> \in Units
        <5>1. expected \in Int
          BY SeqSpaceAssumption DEF TypeInv, Seqs
        <5>2. "next" \in Words
          BY DataAssumption
        <5> QED BY <5>1, <5>2, UnitIs
      <4> DEFINE u == <<"next", expected>>
      <4> HIDE DEF u
      <4>2. u \in Units
        BY <4>1 DEF u
      <4>3. <<u>> \in Seq(Units)
        BY <4>2
      <4> QED BY <4>3 DEF u
    <3>3. Packet("query", m.packet.seq, FALSE, <<<<"next", expected>>>>) \in Packets
      BY <3>1, <3>2 DEF Packet, Packets
    <3> QED BY <2>1, <3>3, Zenon DEF DeviceQuery
  <2>2. CASE DeviceRepeat(m)
    BY <2>2, Zenon DEF DeviceRepeat, TypeInv
  <2> QED BY <2>1, <2>2, Zenon
<1>2. /\ UNCHANGED <<requests, expected, saved, got, given>>
      /\ UNCHANGED <<session, host, sequence, maxData, call, taken>>
  BY Zenon DEF DeviceQuery, DeviceRepeat, deviceVars, hostVars
<1>3. UNCHANGED <<InCall, Connected, NonePending, Taken>>
  BY <1>2 DEF InCall, Connected, NonePending, Taken
<1>4. \A e : Ready(e)' <=> Ready(e)
  BY <1>2, <1>3 DEF Ready
<1>5. \A r \in responses' : r \in responses \/ (r \in Datagrams /\ r.packet = p)
  BY <1>1 DEF For, To, Datagrams, TypeInv
<1>6. TypeInv'
  BY <1>2, <1>5 DEF TypeInv
<1>7. DeviceInv' /\ CallInv' /\ GivenInv'
  BY <1>2, <1>3, ZenonT(30) DEF DeviceInv, CallInv, GivenInv, NonePending
<1>8. StartInv'
  BY <1>2, <1>3, <1>4 DEF StartInv
<1>9. NetworkInv'
  <2>1. ASSUME NEW r \in responses'
        PROVE  /\ r.packet.more => r.packet.id = "fastboot"
               /\ r.packet.id # "query" =>
                    r.packet = saved \/ expected = Succ(Succ(r.packet.seq))
    <3>1. CASE r \in responses
      BY <3>1 DEF NetworkInv
    <3>2. CASE r.packet = saved
      BY <3>2 DEF DeviceInv
    <3>3. CASE r.packet = Packet("query", m.packet.seq, FALSE, <<<<"next", expected>>>>)
      BY <3>3 DEF Packet
    <3> QED BY <2>1, <1>1, <1>5, <3>1, <3>2, <3>3, Zenon
  <2> QED BY <2>1, <1>2 DEF NetworkInv
<1>10. QueryInv'
  <2> SUFFICES ASSUME NEW r \in responses', r.packet.id = "query"
               PROVE  \E e \in Seqs : /\ r.packet.data = <<<<"next", e>>>>
                                       /\ (InCall /\ call.kind = "query" => Ready(e))
    BY <1>2, <1>3, <1>4 DEF QueryInv
  <2>1. CASE r \in responses
    BY <2>1 DEF QueryInv
  <2>2. CASE r.packet = saved
    BY <2>2 DEF DeviceInv
  <2>3. CASE r.packet = Packet("query", m.packet.seq, FALSE, <<<<"next", expected>>>>)
    <3>1. r.packet.data = <<<<"next", expected>>>> /\ Ready(expected) /\ expected \in Seqs
      BY <2>3 DEF Packet, Ready, TypeInv
    <3> QED BY <3>1
  <2> QED BY <1>1, <1>5, <2>1, <2>2, <2>3, ZenonT(30)
<1> QED BY <1>6, <1>7, <1>8, <1>9, <1>10

\* The device starts a session, accepts data, hands some out or refuses a packet.
LEMMA ProcessInv ==
  ASSUME IInv, NEW m \in requests, UNCHANGED hostVars,
         \/ \E version \in {0, 1}, size \in DeviceMaxData : DeviceInit(m, version, size)
         \/ DeviceAccept(m)
         \/ \E more \in BOOLEAN, d \in Data : DeviceGive(m, more, d)
         \/ DeviceError(m)
  PROVE  IInv'
<1> USE DEF IInv
<1>0. /\ UNCHANGED <<session, host, sequence, maxData, call, taken>>
      /\ UNCHANGED <<InCall, Connected>>
  BY DEF hostVars, InCall, Connected
<1>a. host = "idle" \/ (InCall /\ call.kind \in {"read", "write"}) => Connected
  BY DEF Connected, InCall
<1>b. <<>> \in Seq(Units) /\ Data \subseteq Seq(Units)
  BY DataAssumption
<1>c. m.packet \in Packets /\ call.packet \in Packets
  BY DEF TypeInv, Datagrams, Calls
<1>1. ASSUME NEW version \in {0, 1}, NEW size \in DeviceMaxData, DeviceInit(m, version, size)
      PROVE  IInv'
  <2> DEFINE data == <<<<"version", version>>, <<"size", size>>>>
  <2>1. data \in Seq(Units)
    <3>1. <<"version", version>> \in Units /\ <<"size", size>> \in Units
      <4>1. version \in Int /\ size \in Int
        BY SizeAssumption
      <4>2. "version" \in Words /\ "size" \in Words
        BY DataAssumption
      <4> QED BY <4>1, <4>2, UnitIs
    <3> DEFINE u == <<"version", version>>
               w == <<"size", size>>
    <3> HIDE DEF u, w
    <3>2. u \in Units /\ w \in Units
      BY <3>1 DEF u, w
    <3>3. <<u, w>> \in Seq(Units)
      BY <3>2
    <3> QED BY <3>3 DEF u, w
  <2>2. Process(m, "init", FALSE, data) /\ got' = <<>> /\ given' = <<>> /\ m.packet.id = "init"
    BY <1>1, Zenon DEF DeviceInit
  <2> HIDE DEF data
  <2>3. /\ requests' \subseteq Datagrams /\ responses' \subseteq Datagrams
        /\ expected' \in Seqs /\ saved' \in Packets
        /\ Succ(saved'.seq) = expected' /\ saved'.id = "init" /\ saved'.more = FALSE
        /\ saved'.data = data
        /\ NonePending' /\ NetworkInv' /\ QueryInv' /\ StartInv'
    BY <2>1, <2>2, ProcessStep, Zenon
  <2>4. CallInv'
    BY <2>1, <2>2, ProcessCall, ZenonT(30)
  <2>5. TypeInv'
    BY <1>0, <1>b, <2>2, <2>3, SMTT(30) DEF TypeInv
  <2>6. DeviceInv'
    BY <2>2, <2>3, SMTT(30) DEF DeviceInv, data
  <2>7. ~Connected
    <3> SUFFICES ASSUME Connected PROVE FALSE
      BY SMTT(30)
    <3>1. host # "idle" /\ m.packet = call.packet
      BY <2>2, ProcessedIsMine DEF Process
    <3> QED BY <3>1, <2>2 DEF CallInv
  <2>8. GivenInv'
    BY <1>0, <1>a, <2>7, Zenon DEF GivenInv
  <2> QED BY <2>3, <2>4, <2>5, <2>6, <2>8
<1>2. CASE DeviceAccept(m)
  <2>1. /\ Process(m, "fastboot", FALSE, <<>>) /\ got' = got \o m.packet.data /\ given' = given
        /\ m.packet.data # <<>>
    BY <1>2, Zenon DEF DeviceAccept
  <2>2. /\ requests' \subseteq Datagrams /\ responses' \subseteq Datagrams
        /\ expected' \in Seqs /\ saved' \in Packets
        /\ Succ(saved'.seq) = expected' /\ saved'.id = "fastboot" /\ saved'.more = FALSE
        /\ NonePending' /\ NetworkInv' /\ QueryInv' /\ StartInv'
    BY <1>b, <2>1, ProcessStep, Zenon
  <2>3. CallInv'
    BY <1>b, <2>1, ProcessCall, ZenonT(30)
  <2>4. got' \in Seq(Units)
    BY <1>c, <2>1, ConcatProperties, SMTT(30) DEF TypeInv, Packets
  <2>5. TypeInv'
    BY <1>0, <2>1, <2>2, <2>4, SMTT(30) DEF TypeInv
  <2>6. DeviceInv'
    BY <2>2, SMTT(30) DEF DeviceInv
  <2>7. Connected => call.kind # "read" /\ host # "idle"
    BY <2>1, ProcessedIsMine DEF Process, CallInv
  <2>8. GivenInv'
    BY <1>0, <1>a, <2>1, <2>7, ZenonT(30) DEF GivenInv
  <2> QED BY <2>2, <2>3, <2>5, <2>6, <2>8
<1>3. ASSUME NEW more \in BOOLEAN, NEW d \in Data, DeviceGive(m, more, d)
      PROVE  IInv'
  <2>1. /\ Process(m, "fastboot", more, d) /\ got' = got /\ given' = given \o d
        /\ m.packet.data = <<>> /\ d \in Seq(Units)
    BY <1>3, <1>b, SMTT(30) DEF DeviceGive
  <2>2. /\ requests' \subseteq Datagrams /\ responses' \subseteq Datagrams
        /\ expected' \in Seqs /\ saved' \in Packets
        /\ Succ(saved'.seq) = expected' /\ saved'.id = "fastboot" /\ saved'.data = d
        /\ NonePending' /\ NetworkInv' /\ QueryInv' /\ StartInv'
    BY <2>1, ProcessStep, SMTT(30)
  <2>3. CallInv'
    BY <2>1, ProcessCall, SMTT(30)
  <2>4. given' \in Seq(Units)
    BY <2>1, ConcatProperties, SMTT(30) DEF TypeInv
  <2>5. TypeInv'
    BY <1>0, <2>1, <2>2, <2>4, SMTT(30) DEF TypeInv
  <2>6. DeviceInv'
    BY <2>2, SMTT(30) DEF DeviceInv
  <2>7. Connected => /\ call.kind # "write" /\ host # "idle" /\ expected = call.packet.seq
                     /\ ~Taken
    BY <2>1, ProcessedIsMine DEF Process, CallInv
  <2>8. Connected => Taken'
    BY <1>0, <2>1, <2>2, <2>7, ZenonT(30) DEF Taken, Process
  <2>9. ASSUME InCall, call.kind = "read" PROVE given' = (taken \o call.rx) \o saved'.data
    <3>1. given = (taken \o call.rx) \o <<>> /\ taken \o call.rx \in Seq(Units)
      BY <1>a, <2>7, <2>9, ConcatProperties, Zenon DEF GivenInv, TypeInv, Calls
    <3>2. given = taken \o call.rx
      BY <3>1, ConcatEmptySeq
    <3> QED BY <3>2, <2>1, <2>2, ZenonT(30)
  <2>10. GivenInv'
    BY <1>0, <1>a, <2>7, <2>8, <2>9, Zenon DEF GivenInv
  <2> QED BY <2>2, <2>3, <2>5, <2>6, <2>10, SMTT(30)
<1>4. CASE DeviceError(m)
  <2>1. Process(m, "error", FALSE, <<>>) /\ got' = got /\ given' = given
    BY <1>4, Zenon DEF DeviceError
  <2>2. /\ requests' \subseteq Datagrams /\ responses' \subseteq Datagrams
        /\ expected' \in Seqs /\ saved' \in Packets
        /\ Succ(saved'.seq) = expected' /\ saved'.id = "error" /\ saved'.more = FALSE
        /\ NonePending' /\ NetworkInv' /\ QueryInv' /\ StartInv'
    BY <1>b, <2>1, ProcessStep, Zenon
  <2>3. CallInv'
    BY <1>b, <2>1, ProcessCall, ZenonT(30)
  <2>5. TypeInv'
    BY <1>0, <2>1, <2>2 DEF TypeInv
  <2>6. DeviceInv'
    BY <2>2, ZenonT(30) DEF DeviceInv
  <2>7. Connected => host # "idle" /\ ~Taken
    <3>1. m.packet.id # "query" /\ m.packet.seq = expected
      BY <2>1, Zenon DEF Process
    <3> QED BY <3>1, ProcessedIsMine, ZenonT(30)
  <2>8. ~Taken'
    BY <2>2 DEF Taken
  <2>9. GivenInv'
    BY <1>0, <1>a, <2>1, <2>7, <2>8, Zenon DEF GivenInv
  <2> QED BY <2>2, <2>3, <2>5, <2>6, <2>9
<1> QED BY <1>1, <1>2, <1>3, <1>4

----------------------------------------------------------------------------
(* Steps of the host *)

\* The packets a call starts with.
LEMMA NoCallIs ==
  NoCall = [kind |-> "query", packet |-> Packet("query", 0, FALSE, <<>>), rest |-> <<>>,
            rx |-> <<>>, limit |-> 2, left |-> kMaxConnectAttempts, prompt |-> FALSE]
<1>1. Len(<<>>) = 0 /\ Shorter(2, 0) = 0
  BY DEF Shorter
<1>2. SubSeq(<<>>, 1, 0) = <<>> /\ SubSeq(<<>>, 0 + 1, 0) = <<>>
  BY SubSeqEmpty
<1>3. NextPacket("query", <<>>, 0, 2) = Packet("query", 0, FALSE, <<>>)
  <2>1. Ids["query"] = "query"
    BY DEF Ids
  <2>2. ~(Len(<<>>) > 2)
    BY <1>1
  <2>3. (Len(<<>>) > 2) = FALSE
    BY <2>2, SMTT(30)
  <2> QED BY <1>1, <1>2, <2>1, <2>3, ZenonT(30) DEF NextPacket
<1> QED BY <1>1, <1>2, <1>3, Zenon DEF NoCall, Call, Attempts

\* The record of no call at all is well typed.
LEMMA NoCallType ==
  /\ NoCall \in Calls /\ NoCall.kind = "query" /\ NoCall.packet.id = "query"
  /\ NoCall.packet.seq = 0 /\ NoCall.rest = <<>> /\ NoCall.rx = <<>>
<1>1. 0 \in Seqs /\ <<>> \in Seq(Units) /\ kMaxConnectAttempts \in Nat
  BY SeqSpaceAssumption, AttemptsAssumption DEF Seqs
<1>2. Packet("query", 0, FALSE, <<>>) \in Packets
  BY <1>1, SMTT(30) DEF Packet, Packets
<1> QED BY <1>1, <1>2, NoCallIs DEF Calls, Packet

\* c sends tx, or what is left of it.
Sends(c, kind, tx, seq, rx) ==
  /\ c \in Calls /\ c.kind = kind /\ c.packet.seq = seq /\ c.packet.id = "fastboot"
  /\ c.rx = rx /\ ~c.prompt
  /\ c.packet.data \in Data /\ c.rest \in Data
  /\ c.packet.data \o c.rest = tx
  /\ tx # <<>> => c.packet.data # <<>>
  /\ tx = <<>> => c.packet.data = <<>> /\ c.rest = <<>>

\* The calls of Read and Write, and the packets a Write goes on with.
LEMMA CallType ==
  \A kind \in {"write", "read"}, tx \in Data, seq \in Seqs, max \in Nat \ {0},
     rx \in Seq(Units), limit \in Nat :
    Sends(Call(kind, tx, seq, max, rx, limit), kind, tx, seq, rx)
<1> TAKE kind \in {"write", "read"}, tx \in Data, seq \in Seqs, max \in Nat \ {0},
         rx \in Seq(Units), limit \in Nat
<1> DEFINE n == Shorter(max, Len(tx))
           a == SubSeq(tx, 1, n)
           b == SubSeq(tx, n + 1, Len(tx))
           c == Call(kind, tx, seq, max, rx, limit)
<1>1. a \in Data /\ b \in Data /\ a \o b = tx /\ (tx # <<>> => a # <<>>)
  BY Cut, ZenonT(30)
<1>2. Data \subseteq Seq(Units)
  BY DataAssumption
<1>3. tx = <<>> => a = <<>> /\ b = <<>>
  BY <1>1, <1>2, ConcatEqualIffEmpty
<1>4. (Len(tx) > max) \in BOOLEAN
  OBVIOUS
<1>5. Attempts(kind) \in Nat
  BY AttemptsAssumption DEF Attempts
<1>6. Ids[kind] = "fastboot"
  BY SMTT(30) DEF Ids
<1> HIDE DEF n, a, b, c
<1>7. c = [kind |-> kind, packet |-> Packet("fastboot", seq, Len(tx) > max, a), rest |-> b,
           rx |-> rx, limit |-> limit, left |-> Attempts(kind), prompt |-> FALSE]
  BY <1>6, SMTT(30) DEF Call, NextPacket, n, a, b, c
<1>8. Packet("fastboot", seq, Len(tx) > max, a) \in Packets
  BY <1>1, <1>2, <1>4, SMTT(30) DEF Packet, Packets
<1>9. /\ c \in Calls /\ c.kind = kind /\ c.packet.seq = seq /\ c.packet.id = "fastboot"
      /\ c.rx = rx /\ ~c.prompt
      /\ c.packet.data = a /\ c.rest = b
  BY <1>1, <1>2, <1>5, <1>7, <1>8 DEF Calls, Packet
<1> QED BY <1>1, <1>3, <1>9 DEF c, Sends

\* A step that leaves the device and the requests alone and loses responses at most.
LEMMA NetSame ==
  ASSUME IInv, UNCHANGED <<requests, expected, saved, got, given>>, responses' \subseteq responses
  PROVE  /\ DeviceInv' /\ NetworkInv' /\ (NonePending' <=> NonePending)
         /\ \A e : Ready(e)' <=> Ready(e)
         /\ (InCall' /\ call'.kind = "query" => (InCall /\ call.kind = "query") \/ responses' = {})
              => QueryInv'
<1> USE DEF IInv
<1>1. DeviceInv'
  BY DEF DeviceInv
<1>2. NetworkInv'
  BY DEF NetworkInv
<1>3. NonePending' <=> NonePending
  BY DEF NonePending
<1>4. \A e : Ready(e)' <=> Ready(e)
  BY <1>3 DEF Ready
<1>5. ASSUME InCall' /\ call'.kind = "query" => (InCall /\ call.kind = "query") \/ responses' = {}
      PROVE  QueryInv'
  BY <1>4, <1>5 DEF QueryInv
<1> QED BY <1>1, <1>2, <1>3, <1>4, <1>5, SMTT(30)

\* The host goes away: nothing is asked of a host that is closed.
LEMMA DestroyedInv ==
  ASSUME IInv, UNCHANGED <<requests, expected, saved, got, given, session>>,
         responses' \subseteq responses, Destroyed
  PROVE  IInv'
<1>1. ~InCall' /\ ~Connected' /\ host' = "closed"
  BY DEF Destroyed, InCall, Connected
<1>2. TypeInv'
  BY NoCallType DEF IInv, TypeInv, Destroyed, Seqs
<1>3. DeviceInv' /\ NetworkInv' /\ QueryInv'
  BY <1>1, NetSame
<1>4. StartInv' /\ CallInv' /\ GivenInv'
  BY <1>1, Zenon DEF StartInv, CallInv, GivenInv
<1> QED BY <1>2, <1>3, <1>4 DEF IInv

\* SendData returns -1.
LEMMA FailureInv ==
  ASSUME IInv, NEW seq \in Seqs, InCall, ReturnFailure(seq),
         UNCHANGED <<session, requests, responses, deviceVars>>
  PROVE  IInv'
<1> USE DEF IInv
<1>0. UNCHANGED <<requests, responses, expected, saved, got, given, session>>
  BY DEF deviceVars
<1>1. CASE Destroyed
  BY <1>0, <1>1, DestroyedInv
<1>2. CASE /\ call.kind \in {"write", "read"}
           /\ host' = "failed"
           /\ sequence' = seq
           /\ call' = [call EXCEPT !.left = 0]
           /\ UNCHANGED <<maxData, taken>>
  <2>1. call' \in Calls /\ call'.kind = call.kind /\ call'.packet = call.packet
        /\ call'.rest = call.rest /\ call'.prompt = call.prompt
    BY <1>2, Zenon DEF TypeInv, Calls
  <2>2. ~InCall' /\ Connected' /\ Connected /\ host' = "failed" /\ host # "idle"
    BY <1>2, SMTT(30) DEF InCall, Connected
  <2>3. Taken' <=> Taken
    BY <1>0, <2>1 DEF Taken
  <2>4. TypeInv'
    BY <1>0, <1>2, <2>1 DEF TypeInv
  <2>5. DeviceInv' /\ NetworkInv' /\ QueryInv'
    BY <1>0, <2>2, NetSame
  <2>6. StartInv' /\ GivenInv'
    BY <2>2, ZenonT(30) DEF StartInv, GivenInv
  <2>7. CallInv'
    BY <1>0, <1>2, <2>1, <2>2, <2>3 DEF CallInv
  <2> QED BY <2>4, <2>5, <2>6, <2>7
<1> QED BY <1>1, <1>2 DEF ReturnFailure

\* Sending the packet of the call.
LEMMA SendInv ==
  ASSUME IInv, Send
  PROVE  IInv'
<1> USE DEF IInv
<1> DEFINE p == call.packet
<1>0. /\ UNCHANGED <<session, sequence, maxData, call, taken, responses>>
      /\ UNCHANGED <<expected, saved, got, given>>
      /\ host = "sending" /\ host' = "waiting"
      /\ requests' = requests \cup {To(session, p)}
  BY DEF Send, deviceVars
<1>1. InCall /\ InCall' /\ (Connected' <=> Connected) /\ (Taken' <=> Taken)
  BY <1>0, SMTT(30) DEF InCall, Connected, Taken
<1>2. p \in Packets /\ p.seq \in Seqs /\ Succ(p.seq) # p.seq
  BY SuccFacts DEF TypeInv, Calls, Packets
<1>3. \A m \in requests' : m \in requests \/ m.packet = p
  BY <1>0, SMTT(30) DEF To
<1>4. TypeInv'
  BY <1>0, <1>2, SMTT(30) DEF TypeInv, To, Datagrams
<1>5. DeviceInv'
  BY <1>0 DEF DeviceInv
<1>6. /\ p.id # "query" => expected \in {p.seq, Succ(p.seq)}
      /\ call.kind = "query" => p.id = "query"
  <2>1. CASE call.kind \in {"query", "init"}
    BY <1>1, <2>1, SMTT(30) DEF StartInv, Ready
  <2>2. CASE call.kind \in {"write", "read"}
    BY <1>0, <2>2, SMTT(30) DEF CallInv, Connected
  <2> QED BY <2>1, <2>2 DEF TypeInv, Calls
<1>7. NetworkInv'
  BY <1>0, <1>3, <1>6 DEF NetworkInv
<1>8. \A e \in Seqs : Ready(e) /\ (p.id # "query" => p.seq = e) => Ready(e)'
  <2> SUFFICES ASSUME NEW e \in Seqs, Ready(e), p.id # "query" => p.seq = e
               PROVE  Ready(e)'
    BY SMTT(30)
  <2>1. CASE expected = e
    BY <1>0, <2>1, SMTT(30) DEF Ready
  <2>2. CASE expected = Succ(e) /\ NonePending
    BY <1>0, <1>2, <1>3, <2>2, SMTT(30) DEF Ready, NonePending
  <2> QED BY <2>1, <2>2 DEF Ready
<1>9. QueryInv'
  BY <1>0, <1>1, <1>6, <1>8, SMTT(30) DEF QueryInv
<1>10. StartInv'
  BY <1>0, <1>1, <1>2, <1>8, SMTT(30) DEF StartInv
<1>11. CallInv'
  BY <1>0, <1>1, <1>3 DEF CallInv
<1>12. GivenInv'
  BY <1>0, <1>1, Zenon DEF GivenInv
<1> QED BY <1>4, <1>5, <1>7, <1>9, <1>10, <1>11, <1>12, SMTT(30)

\* A timeout with attempts left: the same packet again.
LEMMA RetryInv ==
  ASSUME IInv, host = "waiting", call.left > 1, host' = "sending",
         call' = [call EXCEPT !.left = @ - 1],
         UNCHANGED <<sequence, maxData, taken, session, requests, responses, deviceVars>>
  PROVE  IInv'
<1> USE DEF IInv
<1>0. UNCHANGED <<requests, responses, expected, saved, got, given, session>>
  BY DEF deviceVars
<1>1. /\ call' \in Calls /\ call'.kind = call.kind /\ call'.packet = call.packet
      /\ call'.rest = call.rest /\ call'.prompt = call.prompt /\ call'.rx = call.rx
  <2>1. call.left \in Nat
    BY DEF TypeInv, Calls
  <2>2. call.left - 1 \in Nat
    BY <2>1
  <2> QED BY <2>2, Zenon DEF TypeInv, Calls
<1>2. /\ InCall /\ InCall' /\ (Connected' <=> Connected) /\ (Taken' <=> Taken)
  BY <1>0, <1>1 DEF InCall, Connected, Taken
<1>3. DeviceInv' /\ NetworkInv' /\ QueryInv' /\ \A e : Ready(e)' <=> Ready(e)
  BY <1>0, <1>1, <1>2, NetSame
<1>4. TypeInv'
  BY <1>0, <1>1 DEF TypeInv
<1>5. StartInv'
  BY <1>1, <1>2, <1>3 DEF StartInv
<1>6. CallInv'
  BY <1>0, <1>1, <1>2 DEF CallInv
<1>7. GivenInv'
  BY <1>0, <1>1, <1>2, Zenon DEF GivenInv
<1> QED BY <1>3, <1>4, <1>5, <1>6, <1>7

\* SendData has no answer in time, or the socket fails.
LEMMA NoAnswerInv ==
  ASSUME IInv, ReceiveTimedOut \/ SocketError
  PROVE  IInv'
<1>1. CASE host = "waiting" /\ call.left > 1 /\ ReceiveTimedOut
  <2>1. CASE ReturnFailure(sequence) /\ call.left = 1
    BY <1>1, <2>1
  <2>2. CASE ~(ReturnFailure(sequence) /\ call.left = 1)
    BY <1>1, <2>2, RetryInv DEF ReceiveTimedOut
  <2> QED BY <2>1, <2>2
<1>2. CASE /\ host \in {"sending", "waiting"} /\ ReturnFailure(sequence)
           /\ UNCHANGED <<session, requests, responses, deviceVars>>
  <2>1. InCall
    BY <1>2, SMTT(30) DEF InCall
  <2>2. sequence \in Seqs
    BY <2>1, SMTT(30) DEF IInv, CallInv, TypeInv, Calls, Packets
  <2> QED BY <1>2, <2>1, <2>2, FailureInv
<1> QED BY <1>1, <1>2 DEF ReceiveTimedOut, SocketError

\* A response that matches is the one the device has saved, to the packet sent.
LEMMA MatchedIsSaved ==
  ASSUME IInv, InCall, NEW m \in responses, Matches(call.packet, m.packet),
         call.kind # "query"
  PROVE  /\ m.packet = saved
         /\ sequence = call.packet.seq /\ sequence \in Seqs /\ Succ(sequence) \in Seqs
         /\ expected = Succ(sequence) /\ Succ(Succ(sequence)) # expected
         /\ expected # sequence
         /\ Taken <=> m.packet.id # "error"
<1> USE DEF IInv
<1> DEFINE q == call.packet.seq
<1>1. q \in Seqs /\ sequence = q /\ m.packet.seq = q /\ m.packet \in Packets
  BY DEF TypeInv, Calls, Packets, CallInv, Matches, Datagrams
<1>2. call.packet.id # "query" /\ expected \in {q, Succ(q)}
  <2>1. CASE call.kind = "init"
    BY <2>1, SMTT(30) DEF StartInv, Ready
  <2>2. CASE call.kind \in {"write", "read"}
    BY <2>2 DEF CallInv, Connected, InCall
  <2> QED BY <2>1, <2>2 DEF TypeInv, Calls
<1>3. m.packet.id # "query"
  BY <1>2, SMTT(30) DEF Matches
<1>4. Succ(q) \in Seqs /\ Succ(q) # q /\ Succ(Succ(q)) # q /\ Succ(Succ(q)) # Succ(q)
  BY <1>1, SuccFacts, SMTT(30)
<1>5. m.packet = saved
  BY <1>1, <1>2, <1>3, <1>4, SMTT(30) DEF NetworkInv
<1>6. expected = Succ(q)
  BY <1>1, <1>5 DEF DeviceInv
<1> QED BY <1>1, <1>4, <1>5, <1>6, SMTT(30) DEF Taken

\* A continuation: an empty packet asks for the rest of the answer.
LEMMA PromptInv ==
  ASSUME IInv, InCall, NEW m \in responses, Matches(call.packet, m.packet), m.packet.more,
         sequence' = Succ(sequence), host' = "sending",
         call' = [call EXCEPT !.packet = Packet(m.packet.id, Succ(sequence), FALSE, <<>>),
                              !.rx = IF m.packet.id = "error" THEN call.rx
                                     ELSE call.rx \o m.packet.data,
                              !.left = Attempts(call.kind), !.prompt = TRUE],
         UNCHANGED <<maxData, taken, session, requests, responses, deviceVars>>
  PROVE  IInv' /\ call.kind = "read" /\ Taken
<1> USE DEF IInv
<1>0. UNCHANGED <<requests, responses, expected, saved, got, given, session>>
  BY DEF deviceVars
<1>1. m.packet.id = "fastboot" /\ call.packet.id = "fastboot"
  BY DEF NetworkInv, Matches
<1>2. call.kind \in {"write", "read"}
  BY <1>1 DEF StartInv, TypeInv, Calls
<1>3. /\ m.packet = saved /\ Taken
      /\ sequence = call.packet.seq /\ sequence \in Seqs /\ Succ(sequence) \in Seqs
      /\ expected = Succ(sequence) /\ Succ(Succ(sequence)) # expected
      /\ expected # sequence
  BY <1>1, <1>2, MatchedIsSaved
<1>4. Connected
  BY <1>2 DEF Connected, InCall
<1>5. call.kind = "read"
  BY <1>2, <1>3, <1>4 DEF CallInv, InCall
<1>6. call.packet.data = <<>> /\ call.rest = <<>> /\ <<>> \in Data
  BY <1>4, <1>5 DEF CallInv, InCall
<1>7. call.rx \o saved.data \in Seq(Units) /\ <<>> \in Seq(Units)
  <2>1. call.rx \in Seq(Units) /\ saved.data \in Seq(Units)
    BY DEF TypeInv, Calls, Packets
  <2> QED BY <2>1, ConcatProperties
<1>8. Packet("fastboot", Succ(sequence), FALSE, <<>>) \in Packets
  BY <1>3, <1>7 DEF Packet, Packets
<1>9. Attempts("read") \in Nat
  BY AttemptsAssumption DEF Attempts
<1>10. /\ call' \in Calls /\ call'.kind = "read" /\ call'.prompt
       /\ call'.packet = Packet("fastboot", Succ(sequence), FALSE, <<>>)
       /\ call'.rest = <<>> /\ call'.rx = call.rx \o saved.data
  BY <1>1, <1>3, <1>5, <1>6, <1>7, <1>8, <1>9, ZenonT(30) DEF TypeInv, Calls
<1>11. /\ call'.packet.seq = Succ(sequence) /\ call'.packet.id = "fastboot"
       /\ call'.packet.data = <<>>
  BY <1>10 DEF Packet
<1>12. InCall' /\ Connected' /\ ~Taken' /\ host' # "idle" /\ host' # "failed"
  BY <1>0, <1>3, <1>10, <1>11, ZenonT(30) DEF InCall, Connected, Taken
<1>13. TypeInv'
  BY <1>0, <1>3, <1>10, SMTT(30) DEF TypeInv
<1>14. DeviceInv' /\ NetworkInv' /\ QueryInv'
  BY <1>0, <1>10, NetSame, SMTT(30)
<1>15. StartInv'
  BY <1>10 DEF StartInv
<1>16. CallInv'
  <2>1. \A x \in requests : x.packet.id # "query" => x.packet.seq # expected
    BY <1>3, <1>4 DEF CallInv, InCall
  <2> QED BY <1>0, <1>3, <1>6, <1>10, <1>11, <1>12, <2>1, ZenonT(30) DEF CallInv
<1>17. GivenInv'
  <2>1. taken \in Seq(Units) /\ call.rx \in Seq(Units) /\ saved.data \in Seq(Units)
        /\ given \in Seq(Units)
    BY DEF TypeInv, Calls, Packets
  <2>2. given = (taken \o call.rx) \o saved.data
    BY <1>3, <1>5, Zenon DEF GivenInv
  <2>3. given = taken \o (call.rx \o saved.data)
    <3>1. \A a, b, c \in Seq(Units) : (a \o b) \o c = a \o (b \o c)
      BY ConcatAssociative, SMTT(30)
    <3> QED BY <2>1, <2>2, <3>1, ZenonT(30)
  <2>4. given = (taken \o (call.rx \o saved.data)) \o <<>>
    BY <2>1, <2>3, ConcatEmptySeq
  <2> QED BY <1>0, <1>10, <1>12, <2>4, Zenon DEF GivenInv
<1> QED BY <1>3, <1>5, <1>13, <1>14, <1>15, <1>16, <1>17

\* The next packet of a Write.
LEMMA NextPacketInv ==
  ASSUME IInv, InCall, NEW m \in responses, Matches(call.packet, m.packet),
         ~m.packet.more, m.packet.id # "error", call.rest # <<>>,
         sequence' = Succ(sequence), host' = "sending",
         call' = Call(call.kind, call.rest, Succ(sequence), maxData,
                      call.rx \o m.packet.data, call.limit),
         UNCHANGED <<maxData, taken, session, requests, responses, deviceVars>>
  PROVE  /\ IInv' /\ Connected /\ Connected' /\ Taken /\ ~Taken'
         /\ call.kind = "write" /\ call'.kind = "write"
         /\ call'.packet.data \o call'.rest = call.rest
<1> USE DEF IInv
<1>0. UNCHANGED <<requests, responses, expected, saved, got, given, session>>
  BY SMTT(30) DEF deviceVars
<1>1. call.kind \in {"write", "read"}
  BY SMTT(30) DEF StartInv, TypeInv, Calls
<1>2. Connected /\ host # "idle" /\ host # "failed"
  BY <1>1, CallConnected, ZenonT(30)
<1>3. call.kind = "write" /\ call.rest \in Data
  BY <1>1, <1>2, SMTT(30) DEF CallInv
<1>4. /\ m.packet = saved /\ Taken
      /\ sequence = call.packet.seq /\ sequence \in Seqs /\ Succ(sequence) \in Seqs
      /\ expected = Succ(sequence) /\ Succ(Succ(sequence)) # expected
      /\ expected # sequence
  BY <1>1, MatchedIsSaved, SMTT(30)
<1>5. call.rx \o m.packet.data \in Seq(Units) /\ maxData \in Nat \ {0} /\ call.limit \in Nat
  <2>1. call.rx \in Seq(Units) /\ saved.data \in Seq(Units)
    BY SMTT(30) DEF TypeInv, Calls, Packets
  <2>2. maxData \in Nat \ {0} /\ call.limit \in Nat
    BY DEF TypeInv, Calls
  <2> QED BY <1>4, <2>1, <2>2, ConcatProperties, SMTT(30)
<1>6. /\ call' \in Calls /\ call'.kind = "write" /\ call'.packet.seq = Succ(sequence)
      /\ call'.packet.id = "fastboot" /\ ~call'.prompt
      /\ call'.packet.data \in Data /\ call'.rest \in Data /\ call'.packet.data # <<>>
      /\ call'.packet.data \o call'.rest = call.rest
  <2>1. Sends(call', "write", call.rest, Succ(sequence), call.rx \o m.packet.data)
    BY <1>3, <1>4, <1>5, CallType, ZenonT(30)
  <2> QED BY <2>1, ZenonT(30) DEF Sends
<1>7. InCall' /\ Connected' /\ ~Taken' /\ host' # "idle" /\ host' # "failed"
  BY <1>0, <1>4, <1>6, ZenonT(30) DEF InCall, Connected, Taken
<1>8. TypeInv'
  BY <1>0, <1>4, <1>6, ZenonT(30) DEF TypeInv
<1>9. DeviceInv' /\ NetworkInv' /\ QueryInv'
  BY <1>0, <1>6, NetSame, ZenonT(30)
<1>10. StartInv'
  BY <1>6, ZenonT(30) DEF StartInv
<1>11. CallInv'
  <2>1. \A x \in requests : x.packet.id # "query" => x.packet.seq # expected
    BY <1>2, <1>4 DEF CallInv
  <2> QED BY <1>0, <1>4, <1>6, <1>7, <2>1, ZenonT(30) DEF CallInv
<1>12. GivenInv'
  BY <1>0, <1>3, <1>6, <1>7, ZenonT(30) DEF GivenInv
<1> QED BY <1>2, <1>3, <1>4, <1>6, <1>7, <1>8, <1>9, <1>10, <1>11, <1>12, Zenon

\* The Init packet: a version and a size, in one packet.
LEMMA InitCall ==
  ASSUME NEW e \in Seqs
  PROVE  LET c == Call("init", <<<<"version", 1>>, <<"size", HostMaxData>>>>, e, 2, <<>>, 2) IN
         /\ c \in Calls /\ c.kind = "init" /\ c.packet.id = "init" /\ c.packet.seq = e
         /\ c.rest = <<>> /\ c.rx = <<>>
<1> DEFINE u == <<"version", 1>>
           w == <<"size", HostMaxData>>
<1>1. u \in Units /\ w \in Units
  <2>1. "version" \in Words /\ "size" \in Words
    BY DataAssumption
  <2>2. 1 \in Int /\ HostMaxData \in Int
    BY SizeAssumption
  <2> QED BY <2>1, <2>2, UnitIs
<1> HIDE DEF u, w
<1> DEFINE d == <<u, w>>
<1>2. d \in Seq(Units) /\ Len(d) = 2
  BY <1>1
<1> HIDE DEF d
<1>3. Shorter(2, Len(d)) = 2 /\ (Len(d) > 2) = FALSE
  BY <1>2 DEF Shorter
<1>4. SubSeq(d, 1, 2) = d
  BY <1>2, SubSeqFull
<1>5. SubSeq(d, 2 + 1, 2) = <<>>
  BY SubSeqEmpty, SMTT(30)
<1>6. Ids["init"] = "init" /\ Attempts("init") \in Nat /\ <<>> \in Seq(Units)
  BY AttemptsAssumption DEF Ids, Attempts
<1> DEFINE c == Call("init", d, e, 2, <<>>, 2)
<1> HIDE DEF c
<1>7. c = [kind |-> "init", packet |-> Packet("init", e, FALSE, d), rest |-> <<>>,
           rx |-> <<>>, limit |-> 2, left |-> Attempts("init"), prompt |-> FALSE]
  BY <1>2, <1>3, <1>4, <1>5, <1>6, ZenonT(30) DEF Call, NextPacket, c
<1>8. Packet("init", e, FALSE, d) \in Packets
  BY <1>2, SMTT(30) DEF Packet, Packets
<1>9. /\ c \in Calls /\ c.kind = "init" /\ c.packet.id = "init" /\ c.packet.seq = e
      /\ c.rest = <<>> /\ c.rx = <<>>
  BY <1>6, <1>7, <1>8, SMTT(30) DEF Calls, Packet
<1> QED BY <1>9 DEF c, d, u, w

\* The device has said where it is: the Init packet goes there.
LEMMA QueryAnsweredInv ==
  ASSUME IInv, InCall, NEW m \in responses, Matches(call.packet, m.packet),
         m.packet.id # "error", call.kind = "query", QueryAnswered(call.rx \o m.packet.data),
         UNCHANGED <<session, requests, responses, deviceVars>>
  PROVE  IInv' /\ ~Connected /\ ~Connected'
<1> USE DEF IInv
<1>0. UNCHANGED <<requests, responses, expected, saved, got, given, session>>
  BY SMTT(30) DEF deviceVars
<1>1. call.packet.id = "query" /\ call.rx = <<>> /\ maxData = 2
  BY SMTT(30) DEF StartInv
<1>2. PICK e \in Seqs : m.packet.data = <<<<"next", e>>>> /\ Ready(e)
  BY <1>1, SMTT(30) DEF QueryInv, Matches
<1>3. call.rx \o m.packet.data = <<<<"next", e>>>>
  <2>1. m.packet.data \in Seq(Units)
    BY SMTT(30) DEF TypeInv, Datagrams, Packets
  <2> QED BY <1>1, <1>2, <2>1, ConcatEmptySeq, SMTT(30)
<1>4. <<<<"next", e>>>> # <<>> /\ <<<<"next", e>>>>[1][2] = e
  OBVIOUS
<1>5. /\ sequence' = e /\ host' = "sending" /\ UNCHANGED <<maxData, taken>>
      /\ call' = Call("init", <<<<"version", 1>>, <<"size", HostMaxData>>>>, e, 2, <<>>, 2)
  BY <1>1, <1>3, <1>4, ZenonT(30) DEF QueryAnswered
<1>6. /\ call' \in Calls /\ call'.kind = "init" /\ call'.packet.id = "init"
      /\ call'.packet.seq = e /\ call'.rest = <<>> /\ call'.rx = <<>>
  BY <1>5, InitCall, SMTT(30)
<1>7. InCall' /\ ~Connected' /\ ~Connected /\ host' # "idle" /\ host' # "failed"
  BY <1>5, <1>6 DEF InCall, Connected
<1>8. TypeInv'
  BY <1>0, <1>5, <1>6, ZenonT(30) DEF TypeInv
<1>9. DeviceInv' /\ NetworkInv' /\ QueryInv' /\ (Ready(e)' <=> Ready(e))
  BY <1>0, <1>6, NetSame, ZenonT(30)
<1>10. StartInv'
  BY <1>1, <1>2, <1>5, <1>6, <1>9, Zenon DEF StartInv
<1>11. CallInv' /\ GivenInv'
  BY <1>5, <1>6, <1>7, Zenon DEF CallInv, GivenInv
<1> QED BY <1>7, <1>8, <1>9, <1>10, <1>11, SMTT(30)

\* Any call that ends well leaves the host idle, one packet further, level with
\* the device.
LEMMA IdleInv ==
  ASSUME IInv, host' = "idle", sequence' = expected, NonePending, NEW rx \in Seq(Units),
         call' = [call EXCEPT !.rx = rx], maxData' \in Nat \ {0}, taken' = given,
         UNCHANGED <<session, requests, responses, deviceVars>>
  PROVE  IInv' /\ Connected'
<1> USE DEF IInv
<1>0. UNCHANGED <<requests, responses, expected, saved, got, given, session>>
  BY DEF deviceVars
<1>1. call' \in Calls
  BY Zenon DEF TypeInv, Calls
<1>2. ~InCall' /\ Connected' /\ host' # "failed"
  BY DEF InCall, Connected
<1>3. TypeInv'
  BY <1>0, <1>1 DEF TypeInv
<1>4. DeviceInv' /\ NetworkInv' /\ QueryInv' /\ NonePending'
  BY <1>0, <1>2, NetSame
<1>5. StartInv' /\ CallInv' /\ GivenInv'
  BY <1>0, <1>2, <1>4, ZenonT(30) DEF StartInv, CallInv, GivenInv
<1> QED BY <1>2, <1>3, <1>4, <1>5

\* The device has started afresh: the transport is open.
LEMMA InitAnsweredInv ==
  ASSUME IInv, InCall, NEW m \in responses, Matches(call.packet, m.packet),
         m.packet.id # "error", call.kind = "init", InitAnswered(call.rx \o m.packet.data),
         UNCHANGED <<session, requests, responses, deviceVars>>
  PROVE  /\ IInv' /\ ~Connected
         /\ Connected' => host' = "idle" /\ got' = <<>> /\ given' = <<>> /\ taken' = <<>>
<1> USE DEF IInv
<1>0. UNCHANGED <<requests, responses, expected, saved, got, given, session>>
  BY SMTT(30) DEF deviceVars
<1>1. call.packet.id = "init" /\ call.rx = <<>> /\ Ready(call.packet.seq)
  BY SMTT(30) DEF StartInv
<1>2. /\ m.packet = saved /\ sequence = call.packet.seq /\ Succ(sequence) \in Seqs
      /\ expected = Succ(sequence) /\ expected # sequence
  BY MatchedIsSaved, SMTT(30)
<1>3. NonePending
  BY <1>1, <1>2, SMTT(30) DEF Ready
<1>4. saved.id = "init" /\ got = <<>> /\ given = <<>>
  BY <1>1, <1>2, SMTT(30) DEF Matches, DeviceInv
<1>5. PICK v \in {0, 1}, z \in DeviceMaxData : saved.data = <<<<"version", v>>, <<"size", z>>>>
  BY <1>4, SMTT(30) DEF DeviceInv
<1>6. call.rx \o m.packet.data = <<<<"version", v>>, <<"size", z>>>>
  <2>1. saved.data \in Seq(Units)
    BY SMTT(30) DEF TypeInv, Packets
  <2> QED BY <1>1, <1>2, <1>5, <2>1, ConcatEmptySeq, SMTT(30)
<1>7. ~Connected
  BY SMTT(30) DEF Connected, InCall
<1>8. CASE ReturnFailure(Succ(sequence))
  <2>1. IInv'
    BY <1>2, <1>8, FailureInv
  <2>2. ~Connected'
    BY <1>8 DEF ReturnFailure, Destroyed, Connected
  <2> QED BY <1>7, <2>1, <2>2, SMTT(30)
<1>9. CASE ~ReturnFailure(Succ(sequence))
  <2>1. /\ z # 0 /\ host' = "idle" /\ sequence' = Succ(sequence)
        /\ maxData' = Shorter(HostMaxData, z) /\ taken' = <<>>
        /\ call' = [call EXCEPT !.rx = <<>>]
    BY <1>6, <1>9 DEF InitAnswered
  <2>2. maxData' \in Nat \ {0}
    BY <2>1, SizeAssumption DEF Shorter
  <2>3. <<>> \in Seq(Units)
    OBVIOUS
  <2>4. IInv'
    BY <1>2, <1>3, <1>4, <2>1, <2>2, <2>3, IdleInv, ZenonT(30)
  <2> QED BY <1>0, <1>4, <1>7, <2>1, <2>4
<1> QED BY <1>8, <1>9, ZenonT(30)

\* A Read or Write returns.
LEMMA CallEndsInv ==
  ASSUME IInv, InCall, NEW m \in responses, Matches(call.packet, m.packet),
         ~m.packet.more, m.packet.id # "error", call.kind \in {"write", "read"}, call.rest = <<>>,
         \/ call.kind = "write" /\ Written(call.rx \o m.packet.data)
         \/ call.kind = "read" /\ ReadDone(call.rx \o m.packet.data),
         UNCHANGED <<session, requests, responses, deviceVars>>
  PROVE  /\ IInv' /\ Connected /\ Connected' /\ Taken
         /\ \/ /\ host' = "failed" /\ call' = [call EXCEPT !.left = 0] /\ UNCHANGED taken
            \/ host' = "idle" /\ taken' = given
<1> USE DEF IInv
<1>0. UNCHANGED <<requests, responses, expected, saved, got, given, session>>
  BY SMTT(30) DEF deviceVars
<1>1. Connected /\ host # "idle" /\ host # "failed"
  BY SMTT(30) DEF Connected, InCall
<1>2. /\ m.packet = saved /\ sequence = call.packet.seq /\ Succ(sequence) \in Seqs
      /\ expected = Succ(sequence) /\ expected # sequence /\ Taken
  BY MatchedIsSaved, SMTT(30)
<1>3. NonePending
  BY <1>1, <1>2 DEF CallInv, NonePending
<1>4. CASE ReturnFailure(Succ(sequence))
  <2>1. IInv'
    BY <1>2, <1>4, FailureInv, Zenon
  <2>2. host' = "failed" /\ call' = [call EXCEPT !.left = 0] /\ UNCHANGED taken
    BY <1>4 DEF ReturnFailure
  <2>3. Connected'
    BY <2>2 DEF Connected
  <2> QED BY <1>1, <1>2, <2>1, <2>2, <2>3, SMTT(30)
<1>5. CASE ~ReturnFailure(Succ(sequence))
  <2>1. call.rx \in Seq(Units) /\ saved.data \in Seq(Units) /\ taken \in Seq(Units)
        /\ <<>> \in Seq(Units) /\ maxData \in Nat \ {0}
    BY ZenonT(30) DEF TypeInv, Calls, Packets
  <2>2. call.rx \o saved.data \in Seq(Units)
    BY <2>1, ConcatProperties
  <2>3. /\ host' = "idle" /\ sequence' = Succ(sequence) /\ UNCHANGED maxData
        /\ \E rx \in Seq(Units) : call' = [call EXCEPT !.rx = rx]
    BY <1>2, <1>5, <2>1, <2>2, ZenonT(30) DEF Written, ReadDone
  <2>4. taken' = given
    <3>1. CASE call.kind = "write"
      BY <1>5, <3>1 DEF Written, GivenInv
    <3>2. CASE call.kind = "read"
      <4>1. taken' = taken \o (call.rx \o saved.data)
        BY <1>2, <1>5, <3>2, Zenon DEF ReadDone
      <4>2. given = (taken \o call.rx) \o saved.data
        BY <1>2, <3>2, ZenonT(30) DEF GivenInv
      <4>3. \A a, b, c \in Seq(Units) : (a \o b) \o c = a \o (b \o c)
        BY ConcatAssociative, SMTT(30)
      <4> QED BY <2>1, <4>1, <4>2, <4>3, ZenonT(30)
    <3> QED BY <3>1, <3>2
  <2>5. IInv' /\ Connected'
    BY <1>2, <1>3, <2>1, <2>3, <2>4, IdleInv
  <2> QED BY <1>1, <1>2, <2>3, <2>4, <2>5
<1> QED BY <1>4, <1>5, SMTT(30)

\* udp::Connect on a new socket.
LEMMA ConnectInv ==
  ASSUME IInv, Connect
  PROVE  IInv' /\ ~Connected /\ ~Connected'
<1> USE DEF IInv
<1>0. /\ UNCHANGED <<requests, expected, saved, got, given, taken>> /\ responses' = {}
      /\ host = "closed" /\ host' = "sending" /\ sequence' = 0 /\ maxData' = 2 /\ call' = NoCall
      /\ session' = session + 1
  BY DEF Connect, deviceVars
<1>1. call'.kind = "query" /\ call'.packet.id = "query" /\ call'.packet.seq = 0
      /\ call'.rest = <<>> /\ call'.rx = <<>> /\ call' \in Calls
  BY <1>0, NoCallType, SMTT(30)
<1>2. InCall' /\ ~Connected /\ ~Connected' /\ host' # "idle" /\ host' # "failed"
  BY <1>0, <1>1, SMTT(30) DEF InCall, Connected
<1>3. TypeInv'
  <2>1. session + 1 \in Nat /\ 0 \in Seqs /\ 2 \in Nat \ {0}
    BY SeqSpaceAssumption, SMTT(30) DEF TypeInv, Seqs
  <2> QED BY <1>0, <1>1, <2>1 DEF TypeInv
<1>4. DeviceInv' /\ NetworkInv' /\ QueryInv'
  BY <1>0, NetSame, SMTT(30)
<1>5. StartInv' /\ CallInv' /\ GivenInv'
  BY <1>0, <1>1, <1>2, SMTT(30) DEF StartInv, CallInv, GivenInv
<1> QED BY <1>2, <1>3, <1>4, <1>5

\* A Read or Write begins.
LEMMA BeginInv ==
  ASSUME IInv, host = "idle", NEW kind \in {"write", "read"}, NEW tx \in Data, NEW limit \in Nat,
         kind = "write" => tx # <<>>, kind = "read" => tx = <<>>, Begin(kind, tx, limit),
         UNCHANGED <<session, sequence, maxData, taken, requests, responses, deviceVars>>
  PROVE  /\ IInv' /\ Connected /\ Connected' /\ ~Taken'
         /\ host' = "sending" /\ Sends(call', kind, tx, sequence, <<>>)
<1> USE DEF IInv
<1>0. UNCHANGED <<requests, responses, expected, saved, got, given, session>>
  BY SMTT(30) DEF deviceVars
<1>1. sequence = expected /\ NonePending /\ given = taken
  BY SMTT(30) DEF CallInv, GivenInv
<1>2. sequence \in Seqs /\ Succ(sequence) # sequence /\ maxData \in Nat \ {0}
      /\ <<>> \in Seq(Units)
  BY <1>1, SuccFacts DEF TypeInv
<1>3. host' = "sending" /\ Sends(call', kind, tx, sequence, <<>>)
  BY <1>2, CallType, ZenonT(30) DEF Begin
<1>4. /\ call' \in Calls /\ call'.kind = kind /\ call'.packet.seq = sequence
      /\ call'.packet.id = "fastboot" /\ call'.rx = <<>> /\ ~call'.prompt
      /\ call'.packet.data \in Data /\ call'.rest \in Data
      /\ kind = "write" => call'.packet.data # <<>>
      /\ kind = "read" => call'.packet.data = <<>> /\ call'.rest = <<>>
  BY <1>3, SMTT(30) DEF Sends
<1>5. InCall' /\ Connected /\ Connected' /\ ~Taken' /\ host' # "idle" /\ host' # "failed"
  BY <1>0, <1>1, <1>2, <1>3, <1>4, SMTT(30) DEF InCall, Connected, Taken
<1>6. TypeInv'
  BY <1>0, <1>3, <1>4, SMTT(30) DEF TypeInv
<1>7. DeviceInv' /\ NetworkInv' /\ QueryInv'
  BY <1>0, <1>4, NetSame, SMTT(30)
<1>8. StartInv'
  BY <1>4, SMTT(30) DEF StartInv
<1>9. CallInv'
  BY <1>0, <1>1, <1>4, <1>5 DEF CallInv, NonePending
<1>10. GivenInv'
  <2>1. taken \in Seq(Units)
    BY DEF TypeInv
  <2>2. (taken \o <<>>) \o <<>> = taken
    BY <2>1, ConcatEmptySeq, SMTT(30)
  <2> QED BY <1>0, <1>1, <1>4, <1>5, <2>2, ZenonT(30) DEF GivenInv
<1> QED BY <1>3, <1>5, <1>6, <1>7, <1>8, <1>9, <1>10, SMTT(30)

----------------------------------------------------------------------------
(* Every step is a step of the transport, or none *)

LinkVars == <<LinkStatus, LinkPending, IfConnected(got), IfConnected(given), IfConnected(taken)>>

Simulated == Link!Next \/ UNCHANGED LinkVars

\* A host without a connection is a transport that is down.
LEMMA DownStutters ==
  ASSUME ~Connected, ~Connected'
  PROVE  Simulated
<1>1. LinkStatus = "down" /\ LinkStatus' = "down"
  BY SMTT(30) DEF LinkStatus, Connected
<1>2. LinkPending = <<>> /\ LinkPending' = <<>>
  BY DEF LinkPending
<1>3. /\ IfConnected(got) = <<>> /\ IfConnected(got)' = <<>>
      /\ IfConnected(given) = <<>> /\ IfConnected(given)' = <<>>
      /\ IfConnected(taken) = <<>> /\ IfConnected(taken)' = <<>>
  BY DEF IfConnected
<1> QED BY <1>1, <1>2, <1>3 DEF Simulated, LinkVars

\* A call fails, or a host that has not connected gives up.
LEMMA FailureSim ==
  ASSUME IInv, InCall, \E seq : ReturnFailure(seq), UNCHANGED <<session, requests, responses, deviceVars>>
  PROVE  Simulated
<1>1. CASE call.kind \in {"query", "init"}
  <2>1. ~Connected /\ ~Connected'
    BY <1>1, SMTT(30) DEF ReturnFailure, Destroyed, Connected, InCall
  <2> QED BY <2>1, DownStutters
<1>2. CASE call.kind \in {"write", "read"}
  <2>1. host' = "failed" /\ call' = [call EXCEPT !.left = 0] /\ UNCHANGED taken
    BY <1>2 DEF ReturnFailure
  <2>2. call'.kind = call.kind /\ call'.packet = call.packet /\ call'.rest = call.rest
    BY <2>1 DEF IInv, TypeInv, Calls
  <2>3. Connected /\ Connected' /\ (Taken' <=> Taken) /\ UNCHANGED <<got, given, taken>>
        /\ host # "idle" /\ host # "failed"
    BY <1>2, <2>1, <2>2 DEF Connected, InCall, Taken, deviceVars
  <2>4. LinkStatus \in {"writing", "reading", "answered"} /\ LinkStatus' = "failed"
    BY <1>2, <2>1, <2>3 DEF LinkStatus
  <2>5. UNCHANGED LinkPending
    BY <1>2, <2>1, <2>2, <2>3, SMTT(30) DEF LinkPending
  <2>6. UNCHANGED <<IfConnected(got), IfConnected(given), IfConnected(taken)>>
    BY <2>3 DEF IfConnected
  <2> QED BY <2>4, <2>5, <2>6 DEF Simulated, Link!Next, Link!Fail
<1> QED BY <1>1, <1>2 DEF IInv, TypeInv, Calls

\* A response the host was waiting for.
LEMMA ReceiveSim ==
  ASSUME IInv, Receive
  PROVE  IInv' /\ Simulated
<1> USE DEF IInv
<1>0. /\ UNCHANGED <<session, requests, responses, deviceVars>> /\ UNCHANGED <<got, given>>
      /\ UNCHANGED <<expected, saved>>
      /\ InCall /\ host = "waiting"
  BY DEF Receive, deviceVars, InCall
<1>1. PICK m \in responses : Matches(call.packet, m.packet) /\
        LET r  == m.packet
            rx == IF r.id = "error" THEN call.rx ELSE call.rx \o r.data
        IN \/ /\ r.more
              /\ sequence' = Succ(sequence)
              /\ host' = "sending"
              /\ call' = [call EXCEPT !.packet = Packet(r.id, Succ(sequence), FALSE, <<>>),
                                      !.rx = rx, !.left = Attempts(call.kind),
                                      !.prompt = TRUE]
              /\ UNCHANGED <<maxData, taken>>
           \/ /\ ~r.more /\ r.id = "error"
              /\ ReturnFailure(Succ(sequence))
           \/ /\ ~r.more /\ r.id # "error" /\ call.rest # <<>>
              /\ sequence' = Succ(sequence)
              /\ host' = "sending"
              /\ call' = Call(call.kind, call.rest, Succ(sequence), maxData, rx, call.limit)
              /\ UNCHANGED <<maxData, taken>>
           \/ /\ ~r.more /\ r.id # "error" /\ call.rest = <<>>
              /\ Answered(rx)
  BY ZenonT(30) DEF Receive
<1>2. ASSUME m.packet.more, sequence' = Succ(sequence), host' = "sending",
             call' = [call EXCEPT !.packet = Packet(m.packet.id, Succ(sequence), FALSE, <<>>),
                                  !.rx = IF m.packet.id = "error" THEN call.rx
                                         ELSE call.rx \o m.packet.data,
                                  !.left = Attempts(call.kind), !.prompt = TRUE],
             UNCHANGED <<maxData, taken>>
      PROVE  IInv' /\ Simulated
  <2>1. IInv' /\ call.kind = "read" /\ Taken
    BY <1>0, <1>1, <1>2, PromptInv, ZenonT(30)
  <2>2. call'.kind = "read" /\ call'.prompt
    BY <1>2, <2>1 DEF TypeInv, Calls
  <2>3. Connected /\ Connected'
    BY <1>0, <1>2, <2>1, <2>2 DEF Connected
  <2>4. LinkStatus = "answered" /\ LinkStatus' = "answered"
    BY <1>0, <1>2, <2>1, <2>2, <2>3, SMTT(30) DEF LinkStatus
  <2>5. LinkPending = <<>> /\ LinkPending' = <<>>
    BY <2>1, <2>2 DEF LinkPending
  <2>6. UNCHANGED <<IfConnected(got), IfConnected(given), IfConnected(taken)>>
    BY <1>0, <1>2, <2>3, SMTT(30) DEF IfConnected
  <2> QED BY <2>1, <2>4, <2>5, <2>6 DEF Simulated, LinkVars
<1>3. ASSUME ReturnFailure(Succ(sequence))
      PROVE  IInv' /\ Simulated
  <2>1. Succ(sequence) \in Seqs
    BY <1>0, SuccFacts, SMTT(30) DEF CallInv, TypeInv, Calls, Packets
  <2> QED BY <1>0, <1>3, <2>1, FailureInv, FailureSim, SMTT(30)
<1>4. ASSUME ~m.packet.more, m.packet.id # "error", call.rest # <<>>,
             sequence' = Succ(sequence), host' = "sending",
             call' = Call(call.kind, call.rest, Succ(sequence), maxData,
                          call.rx \o m.packet.data, call.limit),
             UNCHANGED <<maxData, taken>>
      PROVE  IInv' /\ Simulated
  <2>1. /\ IInv' /\ Connected /\ Connected' /\ Taken /\ ~Taken'
        /\ call.kind = "write" /\ call'.kind = "write"
        /\ call'.packet.data \o call'.rest = call.rest
    BY <1>0, <1>1, <1>4, NextPacketInv, ZenonT(30)
  <2>2. LinkStatus = "writing" /\ LinkStatus' = "writing"
    BY <1>0, <1>4, <2>1, ZenonT(30) DEF LinkStatus
  <2>3. UNCHANGED LinkPending
    BY <1>0, <1>4, <2>1, ZenonT(30) DEF LinkPending
  <2>4. UNCHANGED <<IfConnected(got), IfConnected(given), IfConnected(taken)>>
    BY <1>0, <1>4, <2>1, ZenonT(30) DEF IfConnected
  <2> QED BY <2>1, <2>2, <2>3, <2>4 DEF Simulated, LinkVars
<1>5. ASSUME ~m.packet.more, m.packet.id # "error", call.rest = <<>>,
             Answered(call.rx \o m.packet.data)
      PROVE  IInv' /\ Simulated
  <2>1. CASE call.kind = "query"
    <3>1. QueryAnswered(call.rx \o m.packet.data)
      BY <1>5, <2>1, SMTT(30) DEF Answered
    <3> QED BY <1>0, <1>1, <1>5, <2>1, <3>1, QueryAnsweredInv, DownStutters, SMTT(30)
  <2>2. CASE call.kind = "init"
    <3>1. InitAnswered(call.rx \o m.packet.data)
      BY <1>5, <2>2 DEF Answered
    <3>2. /\ IInv' /\ ~Connected
          /\ Connected' => host' = "idle" /\ got' = <<>> /\ given' = <<>> /\ taken' = <<>>
      BY <1>0, <1>1, <1>5, <2>2, <3>1, InitAnsweredInv, SMTT(30)
    <3>3. CASE Connected'
      <4>1. LinkStatus = "down" /\ LinkStatus' = "up"
        BY <3>2, <3>3, SMTT(30) DEF LinkStatus, Connected
      <4>2. LinkPending' = <<>>
        BY <3>2, <3>3, SMTT(30) DEF LinkPending
      <4>3. IfConnected(got)' = <<>> /\ IfConnected(given)' = <<>> /\ IfConnected(taken)' = <<>>
        BY <3>2, <3>3 DEF IfConnected
      <4> QED BY <3>2, <4>1, <4>2, <4>3 DEF Simulated, Link!Next, Link!Open
    <3> QED BY <3>2, <3>3, DownStutters
  <2>3. CASE call.kind \in {"write", "read"}
    <3>1. \/ call.kind = "write" /\ Written(call.rx \o m.packet.data)
          \/ call.kind = "read" /\ ReadDone(call.rx \o m.packet.data)
      BY <1>5, <2>3, ZenonT(30) DEF Answered
    <3>2. /\ IInv' /\ Connected /\ Connected' /\ Taken
          /\ \/ /\ host' = "failed" /\ call' = [call EXCEPT !.left = 0] /\ UNCHANGED taken
             \/ host' = "idle" /\ taken' = given
      BY <1>0, <1>1, <1>5, <2>3, <3>1, CallEndsInv, SMTT(30)
    <3>3. LinkPending = <<>> /\ (call.kind = "read" => LinkStatus = "answered")
          /\ (call.kind = "write" => LinkStatus = "writing")
      BY <1>0, <1>5, <2>3, <3>2 DEF LinkPending, LinkStatus
    <3>4. UNCHANGED <<IfConnected(got), IfConnected(given)>>
      BY <1>0, <3>2, SMTT(30) DEF IfConnected
    <3>5. CASE host' = "idle" /\ taken' = given
      <4>1. LinkStatus' = "up" /\ LinkPending' = <<>>
        BY <3>2, <3>5 DEF LinkStatus, LinkPending
      <4>2. IfConnected(taken)' = IfConnected(given)
        BY <3>2, <3>5 DEF IfConnected
      <4>3. CASE call.kind = "write"
        <5>1. given = taken
          BY <1>0, <4>3 DEF GivenInv
        <5>2. UNCHANGED IfConnected(taken)
          BY <3>2, <3>5, <5>1 DEF IfConnected
        <5> QED BY <3>2, <3>3, <3>4, <4>1, <4>3, <5>2, SMTT(30) DEF Simulated, Link!Next, Link!EndWrite
      <4>4. CASE call.kind = "read"
        BY <3>2, <3>3, <3>4, <4>1, <4>2, <4>4, SMTT(30) DEF Simulated, Link!Next, Link!EndRead
      <4> QED BY <2>3, <4>3, <4>4
    <3>6. CASE host' = "failed" /\ call' = [call EXCEPT !.left = 0] /\ UNCHANGED taken
      <4>1. call'.kind = call.kind /\ call'.packet = call.packet /\ call'.rest = call.rest
        BY <3>6 DEF TypeInv, Calls
      <4>2. LinkStatus' = "failed"
        BY <3>2, <3>6 DEF LinkStatus
      <4>3. LinkPending' = <<>>
        BY <1>0, <1>5, <3>2, <3>6, <4>1, SMTT(30) DEF LinkPending, Taken
      <4>4. UNCHANGED IfConnected(taken)
        BY <3>2, <3>6, SMTT(30) DEF IfConnected
      <4> QED BY <2>3, <3>2, <3>3, <3>4, <4>2, <4>3, <4>4, SMTT(30) DEF Simulated, Link!Next, Link!Fail
    <3> QED BY <3>2, <3>5, <3>6
  <2> QED BY <2>1, <2>2, <2>3, ZenonT(30) DEF TypeInv, Calls
<1> QED BY <1>1, <1>2, <1>3, <1>4, <1>5, SMTT(30)

\* The other steps of the host.
LEMMA HostSim ==
  ASSUME IInv, HostNext
  PROVE  IInv' /\ Simulated
<1> USE DEF IInv
<1>1. CASE Connect
  BY <1>1, ConnectInv, DownStutters, SMTT(30)
<1>2. CASE Send
  <2>1. /\ UNCHANGED <<call, taken, expected, saved, got, given>>
        /\ host = "sending" /\ host' = "waiting"
    BY <1>2 DEF Send, deviceVars
  <2>2. (Connected' <=> Connected) /\ (Taken' <=> Taken)
    BY <2>1 DEF Connected, Taken
  <2>3. UNCHANGED LinkStatus
    BY <2>1, <2>2, SMTT(30) DEF LinkStatus
  <2>4. UNCHANGED LinkPending
    BY <2>1, <2>2, SMTT(30) DEF LinkPending
  <2>5. UNCHANGED <<IfConnected(got), IfConnected(given), IfConnected(taken)>>
    BY <2>1, <2>2, SMTT(30) DEF IfConnected
  <2> QED BY <1>2, <2>3, <2>4, <2>5, SendInv, SMTT(30) DEF Simulated, LinkVars
<1>3. CASE ReceiveTimedOut \/ SocketError
  <2>1. UNCHANGED <<session, requests, responses, deviceVars>> /\ InCall
    BY <1>3, SMTT(30) DEF ReceiveTimedOut, SocketError, InCall
  <2>2. CASE \E seq : ReturnFailure(seq)
    BY <1>3, <2>1, <2>2, FailureSim, NoAnswerInv, SMTT(30)
  <2>3. CASE ~\E seq : ReturnFailure(seq)
    <3>1. /\ host = "waiting" /\ host' = "sending"
          /\ call' = [call EXCEPT !.left = @ - 1] /\ UNCHANGED taken
      BY <1>3, <2>3 DEF ReceiveTimedOut, SocketError
    <3>2. /\ call'.kind = call.kind /\ call'.packet = call.packet
          /\ call'.rest = call.rest /\ call'.prompt = call.prompt
      BY <3>1 DEF TypeInv, Calls
    <3>3. (Connected' <=> Connected) /\ (Taken' <=> Taken) /\ UNCHANGED <<got, given>>
      BY <2>1, <3>1, <3>2 DEF Connected, Taken, deviceVars
    <3>4. UNCHANGED LinkStatus
      BY <3>1, <3>2, <3>3 DEF LinkStatus
    <3>5. UNCHANGED LinkPending
      BY <3>1, <3>2, <3>3 DEF LinkPending
    <3>6. UNCHANGED <<IfConnected(got), IfConnected(given), IfConnected(taken)>>
      BY <3>1, <3>3 DEF IfConnected
    <3> QED BY <1>3, <3>4, <3>5, <3>6, NoAnswerInv DEF Simulated, LinkVars
  <2> QED BY <2>2, <2>3
<1>4. CASE Receive
  BY <1>4, ReceiveSim, SMTT(30)
<1>5. CASE Close
  <2>1. /\ UNCHANGED <<requests, expected, saved, got, given, session>>
        /\ responses' \subseteq responses /\ Destroyed
    BY <1>5, SMTT(30) DEF Close, deviceVars
  <2>2. IInv'
    BY <2>1, DestroyedInv
  <2>3. ~Connected'
    BY <2>1 DEF Destroyed, Connected
  <2>4. CASE ~Connected
    BY <2>2, <2>3, <2>4, DownStutters, SMTT(30)
  <2>5. CASE Connected
    <3>1. LinkStatus # "down"
      BY <2>5 DEF LinkStatus, Connected
    <3>2. LinkStatus' = "down"
      BY <2>3 DEF LinkStatus, Connected
    <3>3. LinkPending' = <<>>
      BY <2>3 DEF LinkPending
    <3>4. IfConnected(got)' = <<>> /\ IfConnected(given)' = <<>> /\ IfConnected(taken)' = <<>>
      BY <2>3 DEF IfConnected
    <3> QED BY <2>2, <3>1, <3>2, <3>3, <3>4 DEF Simulated, Link!Next, Link!Drop
  <2> QED BY <2>4, <2>5
<1>6. ASSUME host = "idle", NEW kind \in {"write", "read"}, NEW tx \in Data, NEW limit \in Nat,
             kind = "write" => tx # <<>>, kind = "read" => tx = <<>>, Begin(kind, tx, limit),
             UNCHANGED <<session, sequence, maxData, taken, requests, responses, deviceVars>>
      PROVE  IInv' /\ Simulated
  <2>1. /\ IInv' /\ Connected /\ Connected' /\ ~Taken'
        /\ host' = "sending" /\ Sends(call', kind, tx, sequence, <<>>)
    BY <1>6, BeginInv, SMTT(30)
  <2>2. call'.kind = kind /\ ~call'.prompt /\ call'.packet.data \o call'.rest = tx
    BY <2>1 DEF Sends
  <2>3. LinkStatus = "up" /\ LinkPending = <<>>
    BY <1>6, <2>1 DEF LinkStatus, LinkPending
  <2>4. LinkStatus' = (IF kind = "write" THEN "writing" ELSE "reading")
    BY <2>1, <2>2, SMTT(30) DEF LinkStatus
  <2>5. LinkPending' = IF kind = "write" THEN tx ELSE <<>>
    BY <2>1, <2>2, SMTT(30) DEF LinkPending
  <2>6. UNCHANGED <<IfConnected(got), IfConnected(given), IfConnected(taken)>>
    BY <1>6, <2>1, SMTT(30) DEF IfConnected, deviceVars
  <2>7. CASE kind = "write"
    BY <1>6, <2>1, <2>3, <2>4, <2>5, <2>6, <2>7, SMTT(30) DEF Simulated, Link!Next, Link!BeginWrite
  <2>8. CASE kind = "read"
    BY <2>1, <2>3, <2>4, <2>5, <2>6, <2>8, SMTT(30) DEF Simulated, Link!Next, Link!BeginRead
  <2> QED BY <2>7, <2>8, SMTT(30)
<1>7. ASSUME NEW m \in Messages, host = "idle", Write(m)
      PROVE  IInv' /\ Simulated
  <2>1. m \in Data /\ m # <<>> /\ 0 \in Nat
    BY DataAssumption, SMTT(30)
  <2> QED BY <1>6, <1>7, <2>1 DEF Write
<1>8. ASSUME NEW limit \in Limits, host = "idle", Read(limit)
      PROVE  IInv' /\ Simulated
  <2>1. <<>> \in Data /\ limit \in Nat
    BY DataAssumption, SizeAssumption, SMTT(30)
  <2> QED BY <1>6, <1>8, <2>1 DEF Read
<1> QED BY <1>1, <1>2, <1>3, <1>4, <1>5, <1>7, <1>8, SMTT(30) DEF HostNext

\* The device repeats itself, or answers a query: nothing moves.
LEMMA StillSim ==
  ASSUME UNCHANGED <<hostVars, got, given>>, Taken' <=> Taken
  PROVE  Simulated
<1>1. UNCHANGED <<host, call, taken, got, given>>
  BY DEF hostVars
<1>2. Connected' <=> Connected
  BY <1>1 DEF Connected
<1>3. UNCHANGED LinkStatus
  BY <1>1, <1>2, SMTT(30) DEF LinkStatus
<1>4. UNCHANGED LinkPending
  BY <1>1, <1>2, SMTT(30) DEF LinkPending
<1>5. UNCHANGED <<IfConnected(got), IfConnected(given), IfConnected(taken)>>
  BY <1>1, <1>2 DEF IfConnected
<1> QED BY <1>3, <1>4, <1>5, SMTT(30) DEF Simulated, LinkVars

\* What the device does with a packet it processes.
LEMMA ProcessSim ==
  ASSUME IInv, NEW m \in requests, UNCHANGED hostVars,
         \/ \E version \in {0, 1}, size \in DeviceMaxData : DeviceInit(m, version, size)
         \/ DeviceAccept(m)
         \/ \E more \in BOOLEAN, d \in Data : DeviceGive(m, more, d)
         \/ DeviceError(m)
  PROVE  Simulated
<1> USE DEF IInv
<1>0. UNCHANGED <<host, call, taken, Connected>>
  BY DEF hostVars, Connected
<1>1. CASE ~Connected
  BY <1>0, <1>1, DownStutters, SMTT(30)
<1>2. CASE Connected
  <2>1. m.packet.id # "query" /\ m.packet.seq = expected
    BY ZenonT(30) DEF DeviceInit, DeviceAccept, DeviceGive, DeviceError, Process
  <2>2. host # "idle" /\ m.packet = call.packet /\ expected = call.packet.seq /\ ~Taken
    BY <1>2, <2>1, ProcessedIsMine
  <2>3. /\ call.packet.id = "fastboot" /\ call.packet.data \in Data
        /\ call.kind = "write" => call.packet.data # <<>> /\ ~call.prompt
        /\ call.kind = "read" => call.packet.data = <<>>
        /\ call.kind \in {"write", "read"}
    BY <1>2, <2>2, ZenonT(30) DEF CallInv, Connected
  <2>4. UNCHANGED IfConnected(taken)
    BY <1>0, <1>2 DEF IfConnected
  <2>5. ASSUME NEW version \in {0, 1}, NEW size \in DeviceMaxData, DeviceInit(m, version, size)
        PROVE  Simulated
    BY <2>2, <2>3, <2>5, ZenonT(30) DEF DeviceInit
  <2>6. CASE DeviceAccept(m)
    <3>1. /\ call.packet.data # <<>> /\ got' = got \o call.packet.data /\ UNCHANGED given
          /\ expected' = Succ(expected) /\ saved'.id = "fastboot"
      BY <2>2, <2>6, ZenonT(30) DEF DeviceAccept, Process, Packet
    <3>2. call.kind = "write" /\ Taken'
      BY <1>0, <2>2, <2>3, <3>1, Zenon DEF Taken
    <3>3. LinkStatus \in {"writing", "failed"} /\ UNCHANGED LinkStatus
      BY <1>0, <1>2, <2>2, <3>2 DEF LinkStatus
    <3>4. LinkPending = call.packet.data \o LinkPending'
      BY <1>0, <1>2, <2>2, <3>2, ZenonT(30) DEF LinkPending
    <3>5. IfConnected(got)' = IfConnected(got) \o call.packet.data /\ UNCHANGED IfConnected(given)
      BY <1>0, <1>2, <3>1, ZenonT(30) DEF IfConnected
    <3> QED BY <2>3, <2>4, <3>3, <3>4, <3>5, ZenonT(30) DEF Simulated, Link!Next, Link!Accept
  <2>7. ASSUME NEW more \in BOOLEAN, NEW d \in Data, DeviceGive(m, more, d)
        PROVE  Simulated
    <3>1. /\ call.packet.data = <<>> /\ given' = given \o d /\ UNCHANGED got
          /\ expected' = Succ(expected) /\ saved'.id = "fastboot"
      BY <2>2, <2>7, ZenonT(30) DEF DeviceGive, Process, Packet
    <3>2. call.kind = "read" /\ Taken'
      BY <1>0, <2>2, <2>3, <3>1, Zenon DEF Taken
    <3>3. /\ LinkStatus \in {"reading", "answered", "failed"}
          /\ LinkStatus' = IF LinkStatus = "failed" THEN "failed" ELSE "answered"
      BY <1>0, <1>2, <2>2, <3>2 DEF LinkStatus
    <3>4. UNCHANGED LinkPending
      BY <1>0, <1>2, <3>2, ZenonT(30) DEF LinkPending
    <3>5. IfConnected(given)' = IfConnected(given) \o d /\ UNCHANGED IfConnected(got)
      BY <1>0, <1>2, <3>1, ZenonT(30) DEF IfConnected
    <3> QED BY <2>4, <3>3, <3>4, <3>5 DEF Simulated, Link!Next, Link!Give
  <2>8. CASE DeviceError(m)
    <3>1. UNCHANGED <<got, given>> /\ saved'.id = "error"
      BY <2>8, ZenonT(30) DEF DeviceError, Process, Packet
    <3>2. ~Taken'
      BY <3>1 DEF Taken
    <3> QED BY <2>2, <3>1, <3>2, StillSim, ZenonT(30)
  <2> QED BY <2>5, <2>6, <2>7, <2>8
<1> QED BY <1>1, <1>2, SMTT(30)

\* The device's steps.
LEMMA DeviceSim ==
  ASSUME IInv, DeviceNext
  PROVE  IInv' /\ Simulated
<1>1. UNCHANGED hostVars
  BY DEF DeviceNext
<1>2. PICK m \in requests :
        \/ DeviceQuery(m)
        \/ \E version \in {0, 1}, size \in DeviceMaxData : DeviceInit(m, version, size)
        \/ DeviceAccept(m)
        \/ \E more \in BOOLEAN, d \in Data : DeviceGive(m, more, d)
        \/ DeviceError(m)
        \/ DeviceRepeat(m)
  BY DEF DeviceNext
<1>3. CASE DeviceQuery(m) \/ DeviceRepeat(m)
  <2>1. UNCHANGED <<got, given, expected, saved, call>>
    BY <1>1, <1>3, ZenonT(30) DEF DeviceQuery, DeviceRepeat, deviceVars, hostVars
  <2>2. Taken' <=> Taken
    BY <2>1, SMTT(30) DEF Taken
  <2> QED BY <1>1, <1>3, <2>1, <2>2, StillSim, RepeatInv
<1>4. CASE ~(DeviceQuery(m) \/ DeviceRepeat(m))
  BY <1>1, <1>2, <1>4, ProcessInv, ProcessSim, SMTT(30)
<1> QED BY <1>3, <1>4

\* A step in which nothing happens.
LEMMA StutterSim ==
  ASSUME IInv, UNCHANGED udpVars
  PROVE  IInv' /\ Simulated
<1>1. UNCHANGED <<session, host, sequence, maxData, call, taken, requests, responses,
                  expected, saved, got, given>>
  BY SMTT(30) DEF udpVars, hostVars, deviceVars
<1>2. UNCHANGED hostVars /\ (Taken' <=> Taken) /\ (InCall' <=> InCall)
      /\ (Connected' <=> Connected)
  BY <1>1, SMTT(30) DEF hostVars, Taken, InCall, Connected
<1>3. DeviceInv' /\ NetworkInv' /\ QueryInv' /\ (NonePending' <=> NonePending)
      /\ \A e : Ready(e)' <=> Ready(e)
  BY <1>1, <1>2, NetSame, SMTT(30)
<1>4. TypeInv'
  BY <1>1, SMTT(30) DEF IInv, TypeInv
<1>5. StartInv'
  BY <1>1, <1>2, <1>3, SMTT(30) DEF IInv, StartInv
<1>6. CallInv'
  BY <1>1, <1>2, <1>3 DEF IInv, CallInv
<1>7. GivenInv'
  BY <1>1, <1>2, ZenonT(30) DEF IInv, GivenInv
<1> QED BY <1>1, <1>2, <1>3, <1>4, <1>5, <1>6, <1>7, StillSim, SMTT(30) DEF IInv

\* Every step keeps the invariant and is a step of the transport or none.
LEMMA StepSim ==
  ASSUME IInv, [UdpNext]_udpVars
  PROVE  IInv' /\ [Link!Next]_(Link!vars)
<1>1. IInv' /\ Simulated
  BY HostSim, DeviceSim, StutterSim, SMTT(30) DEF UdpNext
<1>2. Simulated => [Link!Next]_(Link!vars)
  BY DEF Simulated, LinkVars, Link!vars
<1> QED BY <1>1, <1>2

\* The first state: a device nobody has talked to, and no host.
LEMMA InitSim ==
  ASSUME UdpInit
  PROVE  IInv /\ Link!Init
<1>1. ~Connected /\ ~InCall /\ host = "closed"
  BY DEF UdpInit, Connected, InCall
<1>2. /\ expected \in Seqs /\ (expected - 1) % SeqSpace \in Seqs
      /\ Succ((expected - 1) % SeqSpace) = expected
  <2>1. expected \in Seqs
    BY FirstAssumption DEF UdpInit, Seqs
  <2>2. CASE expected = 0
    <3>1. (0 - 1) % SeqSpace = SeqSpace - 1
      BY SeqSpaceAssumption, Z3
    <3>2. SeqSpace - 1 \in Seqs
      BY SeqSpaceAssumption DEF Seqs
    <3>3. Succ(SeqSpace - 1) = 0
      BY <3>2, SuccIs, SMTT(30)
    <3> QED BY <2>1, <2>2, <3>1, <3>2, <3>3
  <2>3. CASE expected # 0
    <3>1. expected - 1 \in Seqs /\ expected - 1 # SeqSpace - 1
      BY <2>1, <2>3, SeqSpaceAssumption DEF Seqs
    <3>2. \A n \in Seqs : n % SeqSpace = n
      BY SeqSpaceAssumption, Z3 DEF Seqs
    <3>3. Succ(expected - 1) = expected - 1 + 1
      BY <3>1, SuccIs, SMTT(30)
    <3> QED BY <2>1, <3>1, <3>2, <3>3, SMTT(30) DEF Seqs
  <2> QED BY <2>2, <2>3, SMTT(30)
<1>3. /\ saved \in Packets /\ saved.id = "error" /\ ~saved.more
      /\ Succ(saved.seq) = expected
  <2> DEFINE last == (expected - 1) % SeqSpace
  <2>1. saved = Packet("error", last, FALSE, <<>>)
    BY Zenon DEF UdpInit
  <2>2. last \in Seqs /\ Succ(last) = expected
    BY <1>2, Zenon
  <2> HIDE DEF last
  <2>3. <<>> \in Seq(Units)
    BY SMTT(30)
  <2>4. /\ Packet("error", last, FALSE, <<>>) \in Packets
        /\ Packet("error", last, FALSE, <<>>).id = "error"
        /\ Packet("error", last, FALSE, <<>>).seq = last
        /\ ~Packet("error", last, FALSE, <<>>).more
    BY <2>2, <2>3 DEF Packet, Packets
  <2> QED BY <2>1, <2>2, <2>4, Zenon
<1>4. TypeInv
  <2>1. 0 \in Nat /\ 2 \in Nat \ {0} /\ <<>> \in Seq(Units) /\ {} \subseteq Datagrams
    BY SMTT(30)
  <2> QED BY <1>2, <1>3, <2>1, NoCallType, Zenon DEF UdpInit, TypeInv
<1>5. DeviceInv
  BY <1>3, SMTT(30) DEF DeviceInv
<1>6. NetworkInv /\ QueryInv
  BY DEF UdpInit, NetworkInv, QueryInv
<1>7. StartInv /\ CallInv /\ GivenInv
  BY <1>1, ZenonT(30) DEF StartInv, CallInv, GivenInv
<1>8. Link!Init
  <2>1. LinkStatus = "down"
    BY <1>1 DEF LinkStatus, Connected
  <2> QED BY <1>1, <2>1 DEF Link!Init, LinkPending, IfConnected
<1> QED BY <1>4, <1>5, <1>6, <1>7, <1>8, SMTT(30) DEF IInv

(* The inductive invariant of udp.cpp's host, the network and the device: the
   network holds nothing the device or the host could take for something else,
   and the data read and handed out agree. *)
THEOREM UdpInvariant == UdpSpec => []IInv
<1>1. UdpInit => IInv
  BY InitSim
<1>2. IInv /\ [UdpNext]_udpVars => IInv'
  BY StepSim
<1> QED BY <1>1, <1>2, PTL DEF UdpSpec

(* UdpTransport implements Transport: over a network that loses, repeats and
   reorders datagrams, with a device that may answer with an error at any time
   and a host that may go away at any time, what Write sends reaches the device
   once and in order and Read returns what the device handed out. *)
THEOREM UdpImplementsLink == UdpSpec => LinkSpec
<1>1. UdpInit => IInv /\ Link!Init
  BY InitSim
<1>2. IInv /\ [UdpNext]_udpVars => IInv' /\ [Link!Next]_(Link!vars)
  BY StepSim
<1> QED BY <1>1, <1>2, PTL DEF UdpSpec, LinkSpec, Link!Spec
=============================================================================
