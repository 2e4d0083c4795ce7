-------------------------- MODULE MidiProbe_proofs ---------------------------
(***************************************************************************)
(* What a capture of ht_midi_probe prints and what it leaves behind, for   *)
(* every set of events, queue size and number of arrivals, over either     *)
(* backend and from every set of options.                                  *)
(***************************************************************************)
EXTENDS MidiProbe, SequenceTheorems, TLAPS

-----------------------------------------------------------------------------
(* Where the tool is, and what it holds there.                             *)

NotConnecting == {"usage", "list", "replay", "line"}
Opening == {"address", "port", "subscribe", "descriptors", "fill"}
Live == {"loop", "wait", "drain", "last"}

\* The handles of the ALSA backend.
AlsaHolds == seq \/ local_port \/ subscribed \/ poll_descriptors \/ connected

\* Each backend holds something only between its connect and its close, and
\* only the replay reader holds the file.
Places ==
    /\ backend \in {"alsa", "fake"}
    /\ pc \in NotConnecting \cup {"connect"} \cup Opening \cup Live \cup {"close", "ended"}
    /\ Mode(options) = "connect" => pc \notin NotConnecting
    /\ Mode(options) # "connect" => pc \in NotConnecting \cup {"ended"}
    /\ pc \in Opening => backend = "alsa"
    /\ AlsaHolds => backend = "alsa" /\ pc \in Opening \cup Live \cup {"close"}
    /\ backend = "alsa" /\ pc \in Live => connected
    /\ attached => backend = "fake" /\ pc \in Live \cup {"close"}
    /\ backend = "fake" /\ pc \in Live => attached
    /\ input => pc = "line"

-----------------------------------------------------------------------------
(* What has been printed, and what has not been read.                      *)

Captures == Mode(options) = "connect"

Output == {ConvertAlsaEvent(e) : e \in AlsaEvent} \cup {FakeEvents[i] : i \in 1 .. Len(FakeEvents)}

\* An event is left in the library's buffer only inside drain_events or when an
\* error ended it.
Queues ==
    /\ kernel \in Seq(AlsaEvent) /\ inbuf \in Seq(AlsaEvent) /\ arrived \in Seq(AlsaEvent)
    /\ inbuf # <<>> => backend = "alsa" /\ pc \in {"drain", "last", "close"}
    /\ next_event \in Nat

\* What has arrived and has not been polled.
Waiting == inbuf \o kernel

\* The ALSA backend's output is what arrived first; the rest of what arrived is
\* still waiting, as long as nothing has failed.
AlsaOrder ==
    Captures /\ backend = "alsa" =>
        /\ Len(printed) <= Len(arrived)
        /\ \A i \in 1 .. Len(printed) : printed[i] = ConvertAlsaEvent(arrived[i])
        /\ pc \in {"connect"} \cup Opening \cup Live =>
             /\ Len(arrived) = Len(printed) + Len(Waiting)
             /\ \A i \in 1 .. Len(Waiting) : Waiting[i] = arrived[Len(printed) + i]

\* The fake backend's output is its first events.
FakeOrder ==
    Captures /\ backend = "fake" =>
        /\ Len(printed) <= Len(FakeEvents)
        /\ \A i \in 1 .. Len(printed) : printed[i] = FakeEvents[i]
        /\ pc = "connect" => printed = <<>>
        /\ pc \in Live => next_event = Len(printed)

\* What the last drain still has to print, and how each end came about.
Ends ==
    Captures =>
        /\ printed \in Seq(Output) /\ due \in Int
        /\ pc \in {"connect"} \cup Opening \cup Live => failed = "none"
        /\ pc = "last" => Len(printed) + Unread >= due
        /\ pc \in {"close", "ended"} /\ failed = "none" => Len(printed) >= due
        /\ failed = "decode" =>
             /\ backend = "alsa" /\ Len(printed) + 1 <= Len(arrived)
             /\ arrived[Len(printed) + 1].type = "SYSEX"
             /\ arrived[Len(printed) + 1].b # 240

ProbeInv == Places /\ Queues /\ AlsaOrder /\ FakeOrder /\ Ends

-----------------------------------------------------------------------------
(* Places.                                                                 *)

LEMMA PlacesInit == Init => Places
<1> SUFFICES ASSUME Init PROVE Places
  OBVIOUS
<1>1. Mode(options) \in {"usage", "list", "replay", "connect"}
  BY DEF Mode
<1> QED BY <1>1
  DEF Init, Places, AlsaInit, FakeInit, AlsaHolds, NotConnecting, Opening, Live

LEMMA PlacesStep == Places /\ [Next]_vars => Places'
<1> SUFFICES ASSUME Places, [Next]_vars PROVE Places'
  OBVIOUS
<1> USE DEF Places, NotConnecting, Opening, Live, alsa, handles, fake, tool
<1>1. CASE Usage \/ ListPorts
  BY <1>1 DEF Usage, ListPorts, End, Goto, AlsaHolds, Mode
<1>2. CASE OpenReplay \/ ReplayLine \/ ReplayEnds
  BY <1>2 DEF OpenReplay, ReplayLine, ReplayEnds, End, Goto, AlsaHolds, Mode
<1>3. CASE ConnectFake
  BY <1>3 DEF ConnectFake, FakeConnect, Goto, AlsaHolds, Mode
<1>4. CASE ConnectRefused
  BY <1>4 DEF ConnectRefused, End, Goto, AlsaHolds, Mode
<1>5. CASE ConnectAlsa
  BY <1>5 DEF ConnectAlsa, Step, Goto, OpenSequencer, CreatePort, ConnectFrom,
              AllocDescriptors, Connected, AlsaHolds, Mode
<1>6. CASE ConnectFails
  BY <1>6 DEF ConnectFails, CloseConnection, End, Goto, AlsaHolds, Mode
<1>7. CASE Loop \/ WaitReturns \/ DrainEnds
  BY <1>7 DEF Loop, WaitReturns, DrainEnds, Draining, Step, Goto, AlsaHolds, Mode
<1>8. CASE DrainEvent \/ DrainUndecodable
  <2>1. TakeEvent => UNCHANGED <<handles, attached>>
    BY DEF TakeEvent, FakeTake, AlsaTake
  <2> QED BY <1>8, <2>1 DEF DrainEvent, DrainUndecodable, Draining, Goto, AlsaHolds, Mode
<1>9. CASE DrainReadFails
  BY <1>9 DEF DrainReadFails, AlsaReadFails, Draining, Goto, AlsaHolds, Mode
<1>10. CASE Close
  BY <1>10 DEF Close, CloseConnection, FakeDisconnect, End, Goto, AlsaHolds, Mode
<1>11. CASE WaitFails \/ Signal \/ Deadline
  BY <1>11 DEF WaitFails, Signal, Deadline, Capturing, Goto, AlsaHolds, Mode
<1>12. CASE Arrival \/ UNCHANGED vars
  BY <1>12 DEF Arrival, Arrives, vars, AlsaHolds, Mode
<1> QED
  BY <1>1, <1>2, <1>3, <1>4, <1>5, <1>6, <1>7, <1>8, <1>9, <1>10, <1>11, <1>12
  DEF Next, ToolStep

\* However the tool ended, and wherever a connection failed, it holds no
\* sequencer client, port, subscription, descriptors or file.
THEOREM NothingLeftCorrect == Spec => []NothingLeft
<1>1. Places => NothingLeft
  BY DEF Places, NothingLeft, AlsaHolds, Opening, Live
<1> QED BY <1>1, PlacesInit, PlacesStep, PTL DEF Spec

-----------------------------------------------------------------------------
(* Which events decode.                                                    *)

\* The classes of channel messages with one and with two data bytes.
ShortClass == {192, 208}
LongClass == {128, 144, 160, 176, 224}

LEMMA ClassOf ==
    ASSUME NEW c \in ShortClass \cup LongClass, NEW channel \in 0 .. 15
    PROVE  StatusClass(c + channel) = c
BY SMT DEF StatusClass, ShortClass, LongClass

LEMMA TwoBytesDecode ==
    ASSUME NEW s, NEW c \in ShortClass, NEW channel \in 0 .. 15, s = c + channel,
           NEW a \in 0 .. 127
    PROVE  IsDecodable(<<s, a>>)
<1> DEFINE raw == <<s, a>>
<1>1. raw[1] = c + channel /\ Len(raw) = 2 /\ \A i \in 2 .. Len(raw) : raw[i] <= 127
  OBVIOUS
<1>2. StatusClass(raw[1]) = c /\ c + channel >= 128
  BY <1>1, ClassOf DEF ShortClass
<1> HIDE DEF raw
<1>3. ExpectedCount(StatusClass(raw[1])) = 2
  BY <1>2 DEF ExpectedCount, ShortClass
<1>4. IsDecodable(raw)
  BY <1>1, <1>2, <1>3 DEF IsDecodable, HasMessageShape, AllDataBytes
<1> QED BY <1>4 DEF raw

LEMMA ThreeBytesDecode ==
    ASSUME NEW s, NEW c \in LongClass, NEW channel \in 0 .. 15,
           s = c + channel, NEW a \in 0 .. 127, NEW b \in 0 .. 127
    PROVE  IsDecodable(<<s, a, b>>)
<1> DEFINE raw == <<s, a, b>>
<1>1. raw[1] = c + channel /\ Len(raw) = 3 /\ \A i \in 2 .. Len(raw) : raw[i] <= 127
  OBVIOUS
<1>2. StatusClass(raw[1]) = c /\ c + channel >= 128
  BY <1>1, ClassOf DEF LongClass
<1> HIDE DEF raw
<1>3. ExpectedCount(StatusClass(raw[1])) = 3
  BY <1>2 DEF ExpectedCount, LongClass
<1>4. IsDecodable(raw)
  BY <1>1, <1>2, <1>3 DEF IsDecodable, HasMessageShape, AllDataBytes
<1> QED BY <1>4 DEF raw

\* A status byte before its data bytes.
LEMMA ThreeBytes ==
    ASSUME NEW x \in Int, NEW y \in Int, NEW z \in Int
    PROVE  <<x>> \o <<y, z>> = <<x, y, z>>
<1> DEFINE l == <<x>>  r == <<y, z>>  q == <<x, y, z>>
<1>1. /\ l \in Seq(Int) /\ r \in Seq(Int) /\ q \in Seq(Int)
      /\ Len(l) = 1 /\ Len(r) = 2 /\ Len(q) = 3
  OBVIOUS
<1>2. l[1] = x /\ r[1] = y /\ r[2] = z /\ q[1] = x /\ q[2] = y /\ q[3] = z
  OBVIOUS
<1> HIDE DEF l, r, q
<1>3. /\ l \o r \in Seq(Int) /\ Len(l \o r) = Len(l) + Len(r)
      /\ \A i \in 1 .. Len(l) + Len(r) :
           (l \o r)[i] = IF i <= Len(l) THEN l[i] ELSE r[i - Len(l)]
  BY <1>1, ConcatProperties
<1>4. Len(l \o r) = 3 /\ (l \o r)[1] = l[1] /\ (l \o r)[2] = r[1] /\ (l \o r)[3] = r[2]
  BY <1>1, <1>3
<1>5. \A i \in 1 .. 3 : (l \o r)[i] = q[i]
  BY <1>2, <1>4
<1>6. l \o r = q
  BY <1>1, <1>3, <1>4, <1>5, SeqEqual
<1> QED BY <1>6 DEF l, r, q

LEMMA TwoBytes ==
    ASSUME NEW x \in Int, NEW y \in Int
    PROVE  <<x>> \o <<y>> = <<x, y>>
<1> DEFINE l == <<x>>  r == <<y>>  q == <<x, y>>
<1>1. /\ l \in Seq(Int) /\ r \in Seq(Int) /\ q \in Seq(Int)
      /\ Len(l) = 1 /\ Len(r) = 1 /\ Len(q) = 2
  OBVIOUS
<1>2. l[1] = x /\ r[1] = y /\ q[1] = x /\ q[2] = y
  OBVIOUS
<1> HIDE DEF l, r, q
<1>3. /\ l \o r \in Seq(Int) /\ Len(l \o r) = Len(l) + Len(r)
      /\ \A i \in 1 .. Len(l) + Len(r) :
           (l \o r)[i] = IF i <= Len(l) THEN l[i] ELSE r[i - Len(l)]
  BY <1>1, ConcatProperties
<1>4. Len(l \o r) = 2 /\ (l \o r)[1] = l[1] /\ (l \o r)[2] = r[1]
  BY <1>1, <1>3
<1>5. \A i \in 1 .. 2 : (l \o r)[i] = q[i]
  BY <1>2, <1>4
<1>6. l \o r = q
  BY <1>1, <1>3, <1>4, <1>5, SeqEqual
<1> QED BY <1>6 DEF l, r, q

\* Every event of the fake keyboard can be printed.
LEMMA FakePrintable ==
    /\ Len(FakeEvents) = 9
    /\ \A i \in 1 .. Len(FakeEvents) : Printable(FakeEvents[i])
<1> DEFINE M(raw) == [raw |-> raw, sysex |-> 0]
<1>1. Len(FakeEvents) = 9
  BY DEF FakeEvents
<1>2. /\ FakeEvents[1] = M(<<144, 60, 64>>) /\ FakeEvents[2] = M(<<128, 60, 0>>)
      /\ FakeEvents[3] = M(<<176, 1, 127>>) /\ FakeEvents[4] = M(<<192, 5>>)
      /\ FakeEvents[5] = M(<<160, 60, 45>>) /\ FakeEvents[6] = M(<<208, 70>>)
      /\ FakeEvents[7] = M(<<224, 0, 64>>)
      /\ FakeEvents[8] = [raw |-> <<240, 125, 1, 247>>, sysex |-> 4]
      /\ FakeEvents[9] = [raw |-> <<240>>, sysex |-> 1050]
  BY DEF FakeEvents
<1> USE DEF IsDecodable, HasMessageShape, AllDataBytes, ExpectedCount, StatusClass
<1>3. IsDecodable(<<144, 60, 64>>) /\ IsDecodable(<<128, 60, 0>>)
  OBVIOUS
<1>4. /\ IsDecodable(<<176, 1, 127>>) /\ IsDecodable(<<160, 60, 45>>)
      /\ IsDecodable(<<224, 0, 64>>)
  OBVIOUS
<1>5. IsDecodable(<<192, 5>>) /\ IsDecodable(<<208, 70>>)
  OBVIOUS
<1> HIDE DEF IsDecodable
<1>6. /\ Printable(M(<<144, 60, 64>>)) /\ Printable(M(<<128, 60, 0>>))
      /\ Printable(M(<<176, 1, 127>>)) /\ Printable(M(<<160, 60, 45>>))
      /\ Printable(M(<<224, 0, 64>>))
  BY <1>3, <1>4 DEF Printable
<1>7. Printable(M(<<192, 5>>)) /\ Printable(M(<<208, 70>>))
  BY <1>5 DEF Printable
<1>8. Printable(FakeEvents[8]) /\ Printable(FakeEvents[9])
  BY <1>2 DEF Printable
<1>9. ASSUME NEW i \in 1 .. 9 PROVE Printable(FakeEvents[i])
  <2>1. \/ i = 1 \/ i = 2 \/ i = 3 \/ i = 4 \/ i = 5 \/ i = 6 \/ i = 7 \/ i = 8 \/ i = 9
    OBVIOUS
  <2> HIDE DEF M
  <2> QED BY <1>2, <1>6, <1>7, <1>8, <2>1
<1> QED BY <1>1, <1>9

\* What convert_alsa_event makes of an event decodes, unless the event is a
\* later piece of a SysEx message.
LEMMA AlsaPrintable ==
    ASSUME NEW e \in AlsaEvent, ~Printable(ConvertAlsaEvent(e))
    PROVE  e.type = "SYSEX" /\ e.b # 240
<1>1. e.channel \in Int /\ e.a \in Int /\ e.b \in Int
  BY AlsaAssumption
<1> DEFINE channel == Clamp(e.channel, 15)
           a == Clamp7Bit(e.a)
           b == Clamp7Bit(e.b)
           lo == NormalizePitchbend(e.a) % 128
           hi == NormalizePitchbend(e.a) \div 128
<1>2. channel \in 0 .. 15 /\ a \in 0 .. 127 /\ b \in 0 .. 127
  BY <1>1 DEF Clamp, Clamp7Bit
<1>3. lo \in 0 .. 127 /\ hi \in 0 .. 127
  <2>1. PICK m \in Int : m = e.a + 8192
    BY <1>1
  <2>2. PICK n \in Int : n = Clamp(m, 16383) /\ 0 <= n /\ n < 16384
    BY SMT DEF Clamp
  <2>3. n = NormalizePitchbend(e.a)
    BY <2>1, <2>2, SMT DEF NormalizePitchbend
  <2>4. n % 128 \in Int /\ 0 <= n % 128 /\ n % 128 < 128
    BY SMT
  <2>5. n \div 128 \in Int
    BY SMT
  <2>6. 0 <= n \div 128
    BY <2>2, SMT
  <2>7. n \div 128 < 128
    BY <2>2, SMT
  <2>8. PICK l \in Int : l = n % 128
    BY <2>4, SMT
  <2>9. PICK h \in Int : h = n \div 128
    BY <2>5, SMT
  <2>10. l \in 0 .. 127 /\ h \in 0 .. 127
    BY <2>4, <2>6, <2>7, <2>8, <2>9, SMT
  <2>11. l = lo /\ h = hi
    BY <2>3, <2>8, <2>9, SMT
  <2> QED BY <2>10, <2>11, SMT
<1>4. \A raw : IsDecodable(raw) => Printable([raw |-> raw, sysex |-> 0])
  BY DEF Printable
<1>5. CASE e.type \in {"NOTEON", "NOTEOFF", "KEYPRESS", "CONTROLLER"}
  <2>1. PICK c \in LongClass :
          ConvertAlsaEvent(e) = [raw |-> <<c + channel>> \o <<a, b>>, sysex |-> 0]
    BY <1>5 DEF ConvertAlsaEvent, ChannelStatus, LongClass
  <2> HIDE DEF channel, a, b
  <2>2. PICK s \in Int : s = c + channel
    BY <1>2 DEF LongClass
  <2>3. IsDecodable(<<s, a, b>>)
    BY <1>2, <2>2, ThreeBytesDecode, Zenon
  <2>4. <<s>> \o <<a, b>> = <<s, a, b>>
    BY <1>2, ThreeBytes
  <2> QED BY <1>4, <2>1, <2>2, <2>3, <2>4
<1>6. CASE e.type \in {"PGMCHANGE", "CHANPRESS"}
  <2>1. PICK c \in ShortClass :
          ConvertAlsaEvent(e) = [raw |-> <<c + channel>> \o <<a>>, sysex |-> 0]
    BY <1>6 DEF ConvertAlsaEvent, ChannelStatus, ShortClass
  <2> HIDE DEF channel, a
  <2>2. PICK s \in Int : s = c + channel
    BY <1>2 DEF ShortClass
  <2>3. IsDecodable(<<s, a>>)
    BY <1>2, <2>2, TwoBytesDecode, Zenon
  <2>4. <<s>> \o <<a>> = <<s, a>>
    BY <1>2, TwoBytes
  <2> QED BY <1>4, <2>1, <2>2, <2>3, <2>4
<1>7. CASE e.type = "PITCHBEND"
  <2>1. ConvertAlsaEvent(e) = [raw |-> <<224 + channel>> \o <<lo, hi>>, sysex |-> 0]
    BY <1>7 DEF ConvertAlsaEvent, ChannelStatus
  <2> HIDE DEF channel, lo, hi
  <2>2. PICK s \in Int : s = 224 + channel
    BY <1>2
  <2>3. IsDecodable(<<s, lo, hi>>)
    <3>1. 224 \in LongClass
      BY DEF LongClass
    <3> QED BY <1>2, <1>3, <2>2, <3>1, ThreeBytesDecode, Zenon
  <2>4. <<s>> \o <<lo, hi>> = <<s, lo, hi>>
    BY <1>3, ThreeBytes
  <2> QED BY <1>4, <2>1, <2>2, <2>3, <2>4
<1>8. CASE e.type = "SYSEX"
  <2>1. ConvertAlsaEvent(e) = ConvertSysex(e)
    BY <1>8 DEF ConvertAlsaEvent
  <2>2. ASSUME e.b = 240 PROVE FALSE
    <3>1. ConvertSysex(e).raw = <<240>>
      BY <2>2 DEF ConvertSysex
    <3>2. IsDecodable(<<240>>)
      BY DEF IsDecodable
    <3> QED BY <2>1, <3>1, <3>2 DEF Printable
  <2> QED BY <1>8, <2>2
<1>9. CASE e.type \notin {"NOTEON", "NOTEOFF", "KEYPRESS", "CONTROLLER", "PGMCHANGE",
                           "CHANPRESS", "PITCHBEND", "SYSEX"}
  <2>1. ConvertAlsaEvent(e) = [raw |-> <<248>>, sysex |-> 0]
    BY <1>9 DEF ConvertAlsaEvent
  <2>2. IsDecodable(<<248>>)
    BY DEF IsDecodable
  <2> QED BY <1>4, <2>1, <2>2
<1> QED BY <1>5, <1>6, <1>7, <1>8, <1>9

-----------------------------------------------------------------------------
(* What is waiting, as the steps change it.                                *)

LEMMA WaitingIs ==
    ASSUME Queues
    PROVE  /\ Waiting \in Seq(AlsaEvent)
           /\ Len(inbuf) \in Nat /\ Len(kernel) \in Nat /\ Len(Waiting) = Len(inbuf) + Len(kernel)
           /\ inbuf = <<>> => Waiting = kernel
           /\ \A i \in 1 .. Len(Waiting) :
                Waiting[i] = IF i <= Len(inbuf) THEN inbuf[i] ELSE kernel[i - Len(inbuf)]
BY ConcatProperties, ConcatEmptySeq, LenProperties DEF Queues, Waiting

\* poll_event returns the first event waiting, from whichever buffer.
LEMMA TakeFirst ==
    ASSUME Queues, AlsaTake
    PROVE  /\ kernel' \in Seq(AlsaEvent) /\ inbuf' \in Seq(AlsaEvent)
           /\ Waiting # <<>> /\ Head(AlsaPending) = Waiting[1] /\ Waiting[1] \in AlsaEvent
           /\ Len(Waiting) > 0
           /\ Waiting' \in Seq(AlsaEvent) /\ Len(Waiting') = Len(Waiting) - 1
           /\ \A i \in 1 .. Len(Waiting') : Waiting'[i] = Waiting[i + 1]
           /\ Len(inbuf') + Len(kernel') = Len(inbuf) + Len(kernel) - 1
<1>1. kernel \in Seq(AlsaEvent) /\ inbuf \in Seq(AlsaEvent) /\ <<>> \in Seq(AlsaEvent)
  BY EmptySeq DEF Queues
<1>2. CASE inbuf = <<>>
  <2>1. AlsaPending = kernel /\ kernel # <<>>
    BY <1>1, <1>2, ConcatEmptySeq DEF AlsaTake, AlsaPending
  <2>2. Waiting = kernel
    BY <1>2, WaitingIs
  <2>3. inbuf' = Tail(kernel) /\ kernel' = <<>>
    BY <1>2, <2>1 DEF AlsaTake
  <2>4. /\ Tail(kernel) \in Seq(AlsaEvent) /\ Len(Tail(kernel)) = Len(kernel) - 1
        /\ \A i \in 1 .. Len(Tail(kernel)) : Tail(kernel)[i] = kernel[i + 1]
        /\ Head(kernel) \in AlsaEvent
    BY <1>1, <2>1, HeadTailProperties
  <2>5. Head(kernel) = kernel[1] /\ Len(kernel) \in Nat \ {0} /\ Len(<<>>) = 0
    BY <1>1, <2>1, EmptySeq
  <2>6. Waiting' = Tail(kernel)
    BY <2>3, <2>4, ConcatEmptySeq DEF Waiting
  <2> QED BY <1>1, <1>2, <2>1, <2>2, <2>3, <2>4, <2>5, <2>6
<1>3. CASE inbuf # <<>>
  <2>1. AlsaPending = inbuf
    BY <1>1, <1>3, ConcatEmptySeq DEF AlsaPending
  <2>2. inbuf' = Tail(inbuf) /\ kernel' = kernel
    BY <1>3, <2>1 DEF AlsaTake
  <2>3. /\ Tail(inbuf) \in Seq(AlsaEvent) /\ Len(Tail(inbuf)) = Len(inbuf) - 1
        /\ \A i \in 1 .. Len(Tail(inbuf)) : Tail(inbuf)[i] = inbuf[i + 1]
        /\ Head(inbuf) \in AlsaEvent
    BY <1>1, <1>3, HeadTailProperties
  <2>4. Head(inbuf) = inbuf[1] /\ Len(inbuf) \in Nat \ {0} /\ Len(kernel) \in Nat
    BY <1>1, <1>3, EmptySeq, LenProperties
  <2> DEFINE rest == Tail(inbuf)
  <2>5. Waiting' = rest \o kernel
    BY <2>2 DEF Waiting
  <2> HIDE DEF rest
  <2>6. /\ rest \in Seq(AlsaEvent) /\ Len(rest) = Len(inbuf) - 1
        /\ \A i \in 1 .. Len(rest) : rest[i] = inbuf[i + 1]
    BY <2>3 DEF rest
  <2>7. /\ Waiting' \in Seq(AlsaEvent) /\ Len(Waiting') = Len(rest) + Len(kernel)
        /\ \A i \in 1 .. Len(rest) + Len(kernel) :
             Waiting'[i] = IF i <= Len(rest) THEN rest[i] ELSE kernel[i - Len(rest)]
    BY <1>1, <2>5, <2>6, ConcatProperties
  <2>8. ASSUME NEW i \in 1 .. Len(Waiting') PROVE Waiting'[i] = Waiting[i + 1]
    BY <2>4, <2>6, <2>7, WaitingIs
  <2>9. Waiting[1] = inbuf[1] /\ Waiting # <<>>
    <3>1. Len(Waiting) = Len(inbuf) + Len(kernel) /\ 1 \in 1 .. Len(Waiting) /\ 1 <= Len(inbuf)
      BY <2>4, WaitingIs
    <3> QED BY <2>4, <3>1, WaitingIs, EmptySeq
  <2> QED BY <1>1, <2>1, <2>2, <2>3, <2>4, <2>6, <2>7, <2>8, <2>9, WaitingIs DEF rest
<1> QED BY <1>2, <1>3

\* An event that arrives waits behind the others.
LEMMA ArrivesLast ==
    ASSUME Queues, NEW e \in AlsaEvent, Arrives(e)
    PROVE  /\ kernel' \in Seq(AlsaEvent) /\ arrived' \in Seq(AlsaEvent)
           /\ \/ UNCHANGED <<Waiting, arrived, inbuf, kernel>>
              \/ /\ Waiting' \in Seq(AlsaEvent) /\ Len(Waiting') = Len(Waiting) + 1
                 /\ Len(kernel') = Len(kernel) + 1 /\ inbuf' = inbuf
                 /\ \A i \in 1 .. Len(Waiting) : Waiting'[i] = Waiting[i]
                 /\ Waiting'[Len(Waiting) + 1] = e
                 /\ Len(arrived') = Len(arrived) + 1
                 /\ \A i \in 1 .. Len(arrived) : arrived'[i] = arrived[i]
                 /\ arrived'[Len(arrived) + 1] = e
<1>1. /\ kernel \in Seq(AlsaEvent) /\ inbuf \in Seq(AlsaEvent) /\ arrived \in Seq(AlsaEvent)
      /\ inbuf' = inbuf
  BY DEF Queues, Arrives
<1>2. CASE Len(kernel) < KernelCapacity
  <2>1. kernel' = Append(kernel, e) /\ arrived' = Append(arrived, e)
    BY <1>2 DEF Arrives
  <2>2. /\ arrived' \in Seq(AlsaEvent) /\ Len(arrived') = Len(arrived) + 1
        /\ \A i \in 1 .. Len(arrived) : arrived'[i] = arrived[i]
        /\ arrived'[Len(arrived) + 1] = e
        /\ kernel' \in Seq(AlsaEvent) /\ Len(kernel') = Len(kernel) + 1
    BY <1>1, <2>1, AppendProperties
  <2>3. /\ Append(kernel, e) = kernel \o <<e>> /\ <<e>> \in Seq(AlsaEvent)
        /\ Waiting \in Seq(AlsaEvent) /\ Append(Waiting, e) = Waiting \o <<e>>
    BY <1>1, AppendIsConcat, WaitingIs
  <2>4. Waiting' = Append(Waiting, e)
    BY <1>1, <2>1, <2>3, ConcatAssociative DEF Waiting
  <2>5. /\ Waiting' \in Seq(AlsaEvent) /\ Len(Waiting') = Len(Waiting) + 1
        /\ \A i \in 1 .. Len(Waiting) : Waiting'[i] = Waiting[i]
        /\ Waiting'[Len(Waiting) + 1] = e
    BY <2>3, <2>4, AppendProperties
  <2> QED BY <1>1, <2>2, <2>5
<1>3. CASE ~(Len(kernel) < KernelCapacity)
  BY <1>1, <1>3 DEF Arrives, Waiting
<1> QED BY <1>2, <1>3

-----------------------------------------------------------------------------
(* Queues.                                                                 *)

LEMMA QueuesInit == Init => Queues
BY EmptySeq DEF Init, AlsaInit, FakeInit, Queues

LEMMA QueuesStep == Places /\ Queues /\ [Next]_vars => Queues'
<1> SUFFICES ASSUME Places, Queues, [Next]_vars PROVE Queues'
  OBVIOUS
<1> USE DEF alsa, queues, fake
<1>1. CASE Usage \/ ListPorts \/ OpenReplay \/ ReplayLine \/ ReplayEnds \/ ConnectRefused
  BY <1>1 DEF Usage, ListPorts, OpenReplay, ReplayLine, ReplayEnds, ConnectRefused,
              End, Goto, Queues
<1>2. CASE ConnectFake \/ ConnectAlsa
  BY <1>2 DEF ConnectFake, FakeConnect, ConnectAlsa, OpenSequencer, CreatePort, ConnectFrom,
              AllocDescriptors, Connected, Step, Goto, Queues
<1>3. CASE ConnectFails
  BY <1>3, EmptySeq DEF ConnectFails, CloseConnection, End, Goto, Queues
<1>4. CASE Loop \/ WaitReturns
  BY <1>4 DEF Loop, WaitReturns, Step, Goto, Queues
<1>5. CASE DrainEvent \/ DrainUndecodable
  <2>1. UNCHANGED <<arrived, backend>> /\ pc' \in {"drain", "last", "close"}
    BY <1>5 DEF DrainEvent, DrainUndecodable, TakeEvent, FakeTake, AlsaTake, Goto, Draining
  <2>2. CASE backend = "fake"
    <3>1. UNCHANGED <<kernel, inbuf>> /\ next_event' = next_event + 1 /\ inbuf = <<>>
      BY <1>5, <2>2 DEF DrainEvent, DrainUndecodable, TakeEvent, FakeTake, Queues
    <3> QED BY <2>1, <3>1 DEF Queues
  <2>3. CASE backend # "fake"
    <3>1. AlsaTake /\ UNCHANGED next_event
      BY <1>5, <2>3 DEF DrainEvent, DrainUndecodable, TakeEvent
    <3>2. backend = "alsa"
      BY <2>3 DEF Places
    <3> QED BY <2>1, <3>1, <3>2, TakeFirst DEF Queues
  <2> QED BY <2>2, <2>3
<1>6. CASE DrainReadFails
  BY <1>6, EmptySeq DEF DrainReadFails, AlsaReadFails, Goto, Queues
<1>7. CASE DrainEnds
  <2>1. UNCHANGED <<kernel, inbuf, arrived, next_event>>
    BY <1>7 DEF DrainEnds, Step
  <2>2. inbuf' = <<>>
    <3> SUFFICES ASSUME inbuf # <<>> PROVE FALSE
      BY <2>1
    <3>1. backend = "alsa"
      BY DEF Queues
    <3>2. connected
      BY <1>7, <3>1 DEF DrainEnds, Draining, Places, Live
    <3> QED BY <1>7, <3>1, <3>2 DEF DrainEnds, Drained, AlsaNoEvent
  <2> QED BY <2>1, <2>2 DEF Queues
<1>8. CASE Close
  <2>1. CASE backend = "alsa"
    BY <1>8, <2>1, EmptySeq DEF Close, CloseConnection, End, Goto, Queues
  <2>2. CASE backend # "alsa"
    BY <1>8, <2>2 DEF Close, FakeDisconnect, End, Goto, Queues
  <2> QED BY <2>1, <2>2
<1>9. CASE WaitFails \/ Signal \/ Deadline
  BY <1>9 DEF WaitFails, Signal, Deadline, Goto, Queues
<1>10. CASE Arrival
  BY <1>10, ArrivesLast DEF Arrival, Arrives, Queues
<1>11. CASE UNCHANGED vars
  BY <1>11 DEF vars, Queues
<1> QED
  BY <1>1, <1>2, <1>3, <1>4, <1>5, <1>6, <1>7, <1>8, <1>9, <1>10, <1>11 DEF Next, ToolStep

-----------------------------------------------------------------------------
(* AlsaOrder.                                                              *)

LEMMA AlsaOrderInit == Init => AlsaOrder
<1> SUFFICES ASSUME Init PROVE AlsaOrder
  OBVIOUS
<1>1. Waiting = <<>>
  BY EmptySeq, ConcatEmptySeq DEF Init, AlsaInit, Waiting
<1> QED BY <1>1 DEF Init, AlsaInit, AlsaOrder

LEMMA AlsaOrderStep == Places /\ Queues /\ Ends /\ AlsaOrder /\ [Next]_vars => AlsaOrder'
<1> SUFFICES ASSUME Places, Queues, Ends, AlsaOrder, [Next]_vars, Captures, backend = "alsa"
             PROVE  AlsaOrder'
  BY DEF Next, ToolStep, vars, AlsaOrder, Captures, Usage, ListPorts, OpenReplay, ReplayLine,
         ReplayEnds, ConnectFake, ConnectRefused, ConnectAlsa, ConnectFails, Loop, WaitReturns,
         DrainEvent, DrainUndecodable, DrainReadFails, DrainEnds, Close, WaitFails, Signal,
         Deadline, Arrival, End, Step, Goto
<1> DEFINE early == {"connect"} \cup Opening \cup Live
<1>1. /\ printed \in Seq(Output) /\ Len(printed) \in Nat
      /\ Waiting \in Seq(AlsaEvent) /\ Len(Waiting) \in Nat
      /\ arrived \in Seq(AlsaEvent) /\ Len(arrived) \in Nat
  BY WaitingIs, LenProperties DEF Ends, Queues
<1>2. ASSUME UNCHANGED <<options, backend, printed, arrived>>, pc' \in early => pc \in early,
             pc' \in early => Waiting' = Waiting
      PROVE  AlsaOrder'
  BY <1>2 DEF AlsaOrder, Captures
<1>3. CASE Usage \/ ListPorts \/ OpenReplay \/ ReplayLine \/ ReplayEnds \/ ConnectFake
  BY <1>3 DEF Captures, Places, Usage, ListPorts, OpenReplay, ReplayLine, ReplayEnds,
              ConnectFake, NotConnecting
<1>4. CASE ConnectRefused \/ ConnectFails \/ WaitFails \/ DrainReadFails \/ Close
  <2>1. UNCHANGED <<options, backend, printed, arrived>> /\ pc' \in {"ended", "close"}
    BY <1>4 DEF ConnectRefused, ConnectFails, WaitFails, DrainReadFails, Close, AlsaReadFails,
                CloseConnection, End, Goto, alsa, queues
  <2> QED BY <1>2, <2>1 DEF Opening, Live
<1>5. CASE ConnectAlsa
  <2>1. UNCHANGED <<options, backend, printed, arrived, kernel, inbuf>> /\ pc \in early
    BY <1>5 DEF ConnectAlsa, OpenSequencer, CreatePort, ConnectFrom, AllocDescriptors,
                Connected, Step, Goto, tool, alsa, queues, Opening, Live
  <2> QED BY <1>2, <2>1 DEF Waiting
<1>6. CASE Loop \/ WaitReturns \/ DrainEnds \/ Signal \/ Deadline
  <2>1. UNCHANGED <<options, backend, printed, arrived, kernel, inbuf>> /\ pc \in early
    BY <1>6 DEF Loop, WaitReturns, DrainEnds, Signal, Deadline, Draining, Capturing,
                Step, Goto, tool, alsa, queues, Opening, Live
  <2> QED BY <1>2, <2>1 DEF Waiting
<1>7. CASE DrainEvent
  <2>1. AlsaTake /\ UNCHANGED <<options, backend, pc>> /\ pc \in Live
    BY <1>7 DEF DrainEvent, TakeEvent, Draining, Live
  <2>2. arrived' = arrived
    BY <2>1 DEF AlsaTake
  <2>3. NextEvent = ConvertAlsaEvent(Waiting[1]) /\ NextEvent \in Output
    BY <2>1, TakeFirst DEF NextEvent, Output
  <2>4. /\ printed' = Append(printed, NextEvent) /\ Len(printed') = Len(printed) + 1
        /\ \A i \in 1 .. Len(printed) : printed'[i] = printed[i]
        /\ printed'[Len(printed) + 1] = NextEvent
    BY <1>1, <1>7, <2>3, AppendProperties DEF DrainEvent
  <2>5. /\ Len(arrived) = Len(printed) + Len(Waiting)
        /\ \A i \in 1 .. Len(Waiting) : Waiting[i] = arrived[Len(printed) + i]
        /\ \A i \in 1 .. Len(printed) : printed[i] = ConvertAlsaEvent(arrived[i])
    BY <2>1 DEF AlsaOrder
  <2>6. /\ Len(Waiting') = Len(Waiting) - 1 /\ Len(Waiting) > 0
        /\ \A i \in 1 .. Len(Waiting') : Waiting'[i] = Waiting[i + 1]
    BY <2>1, TakeFirst
  <2>7. Len(printed') <= Len(arrived') /\ Len(arrived') = Len(printed') + Len(Waiting')
    BY <1>1, <2>2, <2>4, <2>5, <2>6
  <2>8. printed'[Len(printed) + 1] = ConvertAlsaEvent(arrived[Len(printed) + 1])
    BY <1>1, <2>3, <2>4, <2>5, <2>6
  <2>9. ASSUME NEW i \in 1 .. Len(printed') PROVE printed'[i] = ConvertAlsaEvent(arrived'[i])
    <3>1. CASE i = Len(printed) + 1
      BY <2>2, <2>8, <3>1
    <3>2. CASE i \in 1 .. Len(printed)
      BY <2>2, <2>4, <2>5, <3>2
    <3> QED BY <1>1, <2>4, <3>1, <3>2
  <2>10. ASSUME NEW i \in 1 .. Len(Waiting')
         PROVE  Waiting'[i] = arrived'[Len(printed') + i]
    <3>1. i \in Nat /\ i >= 1 /\ i <= Len(Waiting) - 1
      BY <1>1, <2>6
    <3>2. i + 1 \in 1 .. Len(Waiting)
      BY <1>1, <3>1
    <3>3. Len(printed') + i = Len(printed) + (i + 1)
      BY <1>1, <2>4, <3>1
    <3> QED BY <2>2, <2>5, <2>6, <3>2, <3>3
  <2> QED BY <2>7, <2>9, <2>10 DEF AlsaOrder
<1>8. CASE DrainUndecodable
  <2>1. UNCHANGED <<options, backend, printed, arrived>> /\ pc' = "close"
    BY <1>8 DEF DrainUndecodable, TakeEvent, AlsaTake, Goto
  <2> QED BY <1>2, <2>1 DEF Opening, Live
<1>9. CASE Arrival
  <2>1. UNCHANGED <<options, backend, pc, printed>>
    BY <1>9 DEF Arrival, tool
  <2>2. PICK e \in AlsaEvent : Arrives(e)
    BY <1>9 DEF Arrival
  <2>3. CASE UNCHANGED <<Waiting, arrived>>
    BY <1>2, <2>1, <2>3
  <2>4. CASE ~UNCHANGED <<Waiting, arrived>>
    <3>1. /\ Len(Waiting') = Len(Waiting) + 1
          /\ \A i \in 1 .. Len(Waiting) : Waiting'[i] = Waiting[i]
          /\ Waiting'[Len(Waiting) + 1] = e
          /\ Len(arrived') = Len(arrived) + 1
          /\ \A i \in 1 .. Len(arrived) : arrived'[i] = arrived[i]
          /\ arrived'[Len(arrived) + 1] = e
      BY <2>2, <2>4, ArrivesLast
    <3>2. /\ Len(printed) <= Len(arrived)
          /\ \A i \in 1 .. Len(printed) : printed[i] = ConvertAlsaEvent(arrived[i])
      BY DEF AlsaOrder
    <3>3. /\ Len(printed) <= Len(arrived')
          /\ \A i \in 1 .. Len(printed) : printed[i] = ConvertAlsaEvent(arrived'[i])
      BY <1>1, <3>1, <3>2
    <3>4. ASSUME pc \in early
          PROVE  /\ Len(arrived') = Len(printed) + Len(Waiting')
                 /\ \A i \in 1 .. Len(Waiting') : Waiting'[i] = arrived'[Len(printed) + i]
      <4>1. /\ Len(arrived) = Len(printed) + Len(Waiting)
            /\ \A i \in 1 .. Len(Waiting) : Waiting[i] = arrived[Len(printed) + i]
        BY <3>4 DEF AlsaOrder
      <4>2. ASSUME NEW i \in 1 .. Len(Waiting') PROVE Waiting'[i] = arrived'[Len(printed) + i]
        <5>1. CASE i = Len(Waiting) + 1
          BY <1>1, <3>1, <4>1, <5>1
        <5>2. CASE i \in 1 .. Len(Waiting)
          BY <1>1, <3>1, <4>1, <5>2
        <5> QED BY <1>1, <3>1, <5>1, <5>2
      <4> QED BY <1>1, <3>1, <4>1, <4>2
    <3> QED BY <2>1, <3>3, <3>4 DEF AlsaOrder
  <2> QED BY <2>3, <2>4
<1>10. CASE UNCHANGED vars
  BY <1>2, <1>10 DEF vars, tool, alsa, queues, Waiting
<1> QED
  BY <1>3, <1>4, <1>5, <1>6, <1>7, <1>8, <1>9, <1>10 DEF Next, ToolStep

-----------------------------------------------------------------------------
(* FakeOrder.                                                              *)

LEMMA FakeOrderInit == Init => FakeOrder
BY FakePrintable DEF Init, FakeInit, FakeOrder, Live

LEMMA FakeOrderStep == Places /\ Queues /\ Ends /\ FakeOrder /\ [Next]_vars => FakeOrder'
<1> SUFFICES ASSUME Places, Queues, Ends, FakeOrder, [Next]_vars, Captures, backend = "fake"
             PROVE  FakeOrder'
  BY DEF Next, ToolStep, vars, FakeOrder, Captures, Usage, ListPorts, OpenReplay, ReplayLine,
         ReplayEnds, ConnectFake, ConnectRefused, ConnectAlsa, ConnectFails, Loop, WaitReturns,
         DrainEvent, DrainUndecodable, DrainReadFails, DrainEnds, Close, WaitFails, Signal,
         Deadline, Arrival, End, Step, Goto
<1>1. printed \in Seq(Output) /\ Len(printed) \in Nat /\ next_event \in Nat
  BY LenProperties DEF Ends, Queues
<1>2. ASSUME UNCHANGED <<options, backend, printed>>, pc' # "connect",
             pc' \in Live => pc \in Live /\ next_event' = next_event
      PROVE  FakeOrder'
  BY <1>2 DEF FakeOrder, Captures
<1>3. CASE Usage \/ ListPorts \/ OpenReplay \/ ReplayLine \/ ReplayEnds \/ ConnectAlsa
           \/ ConnectFails \/ DrainReadFails \/ WaitFails
  BY <1>3 DEF Captures, Places, Usage, ListPorts, OpenReplay, ReplayLine, ReplayEnds,
              ConnectAlsa, ConnectFails, DrainReadFails, WaitFails, NotConnecting, Opening
<1>4. CASE ConnectFake
  <2>1. printed' = <<>> /\ next_event' = 0 /\ pc' = "loop" /\ UNCHANGED <<options, backend>>
    BY <1>4 DEF ConnectFake, FakeConnect, FakeOrder, Goto, tool
  <2>2. Len(printed') = 0
    BY <2>1, EmptySeq
  <2> QED BY <2>1, <2>2, FakePrintable DEF FakeOrder
<1>5. CASE ConnectRefused \/ DrainUndecodable \/ Close
  <2>1. UNCHANGED <<options, backend, printed>> /\ pc' \in {"ended", "close"}
    BY <1>5 DEF ConnectRefused, DrainUndecodable, Close, End, Goto
  <2> QED BY <1>2, <2>1 DEF Live
<1>6. CASE Loop \/ WaitReturns \/ DrainEnds \/ Signal \/ Deadline
  <2>1. UNCHANGED <<options, backend, printed, next_event>> /\ pc \in Live /\ pc' # "connect"
    BY <1>6 DEF Loop, WaitReturns, DrainEnds, Signal, Deadline, Draining, Capturing,
                Step, Goto, tool, fake, Live
  <2> QED BY <1>2, <2>1
<1>7. CASE DrainEvent
  <2>1. /\ UNCHANGED <<options, backend, pc>> /\ pc \in Live /\ next_event' = next_event + 1
        /\ next_event < Len(FakeEvents) /\ NextEvent = FakeEvents[next_event + 1]
    BY <1>7 DEF DrainEvent, TakeEvent, FakeTake, FakeHasEvent, NextEvent, Draining, Live
  <2>2. NextEvent \in Output
    BY <1>1, <2>1, FakePrintable DEF Output
  <2>3. /\ printed' = Append(printed, NextEvent) /\ Len(printed') = Len(printed) + 1
        /\ \A i \in 1 .. Len(printed) : printed'[i] = printed[i]
        /\ printed'[Len(printed) + 1] = NextEvent
    BY <1>1, <1>7, <2>2, AppendProperties DEF DrainEvent
  <2>4. next_event = Len(printed) /\ \A i \in 1 .. Len(printed) : printed[i] = FakeEvents[i]
    BY <2>1 DEF FakeOrder
  <2>5. ASSUME NEW i \in 1 .. Len(printed') PROVE printed'[i] = FakeEvents[i]
    <3>1. CASE i = Len(printed) + 1
      BY <2>1, <2>3, <2>4, <3>1
    <3>2. CASE i \in 1 .. Len(printed)
      BY <2>3, <2>4, <3>2
    <3> QED BY <1>1, <2>3, <3>1, <3>2
  <2>6. Len(printed') <= Len(FakeEvents) /\ next_event' = Len(printed')
    BY <1>1, <2>1, <2>3, <2>4, FakePrintable
  <2>7. pc' # "connect"
    BY <2>1 DEF Live
  <2> QED BY <2>5, <2>6, <2>7 DEF FakeOrder
<1>8. CASE Arrival
  BY <1>8 DEF Arrival, Arrives, Places, tool, AlsaHolds
<1>9. CASE UNCHANGED vars
  BY <1>9 DEF vars, tool, fake, FakeOrder, Captures
<1> QED
  BY <1>3, <1>4, <1>5, <1>6, <1>7, <1>8, <1>9 DEF Next, ToolStep

-----------------------------------------------------------------------------
(* Ends.                                                                   *)

LEMMA UnreadIs ==
    ASSUME Places, Queues
    PROVE  Unread \in Int /\ (backend = "alsa" => Unread = Len(Waiting))
<1>1. Len(inbuf) \in Nat /\ Len(kernel) \in Nat /\ next_event \in Nat /\ Len(FakeEvents) = 9
  BY WaitingIs, FakePrintable DEF Queues
<1> QED BY <1>1, WaitingIs DEF Unread, Queues

LEMMA EndsInit == Init => Ends
<1> SUFFICES ASSUME Init PROVE Ends
  OBVIOUS
<1>1. printed = <<>> /\ due = 0 /\ failed = "none" /\ printed \in Seq(Output)
  BY EmptySeq DEF Init
<1>2. Captures => pc = "connect"
  BY DEF Init, Captures
<1> QED BY <1>1, <1>2 DEF Ends

LEMMA EndsStep ==
    Places /\ Queues /\ AlsaOrder /\ FakeOrder /\ Ends /\ [Next]_vars => Ends'
<1> SUFFICES ASSUME Places, Queues, AlsaOrder, FakeOrder, Ends, [Next]_vars, Captures
             PROVE  Ends'
  BY DEF Next, ToolStep, vars, Ends, Captures, Usage, ListPorts, OpenReplay, ReplayLine,
         ReplayEnds, ConnectFake, ConnectRefused, ConnectAlsa, ConnectFails, Loop, WaitReturns,
         DrainEvent, DrainUndecodable, DrainReadFails, DrainEnds, Close, WaitFails, Signal,
         Deadline, Arrival, End, Step, Goto
<1> DEFINE early == {"connect"} \cup Opening \cup Live
<1>1. /\ printed \in Seq(Output) /\ Len(printed) \in Nat /\ due \in Int
      /\ arrived \in Seq(AlsaEvent) /\ Len(arrived) \in Nat
      /\ Unread \in Int /\ (backend = "alsa" => Unread = Len(Waiting))
  BY LenProperties, UnreadIs DEF Ends, Queues
<1>2. ASSUME UNCHANGED <<printed, due, arrived>>, pc \in early, failed' = "none",
             pc' = "last" => pc = "last" /\ Unread' = Unread, pc' \notin {"close", "ended"}
      PROVE  Ends'
  BY <1>1, <1>2 DEF Ends
<1>3. ASSUME UNCHANGED <<printed, due, arrived>>, pc' \in {"close", "ended"},
             failed' \notin {"none", "decode"}
      PROVE  Ends'
  BY <1>1, <1>3 DEF Ends, Opening, Live
<1>4. CASE Usage \/ ListPorts \/ OpenReplay \/ ReplayLine \/ ReplayEnds
  BY <1>4 DEF Captures, Places, Usage, ListPorts, OpenReplay, ReplayLine, ReplayEnds,
              NotConnecting
<1>5. CASE ConnectFake \/ ConnectAlsa
  <2>1. UNCHANGED <<printed, due, arrived>> /\ pc \in early /\ failed' = failed
    BY <1>5 DEF ConnectFake, ConnectAlsa, OpenSequencer, CreatePort, ConnectFrom,
                AllocDescriptors, Connected, Step, Goto, tool, alsa, queues, Opening, Live
  <2>2. pc' \in Opening \cup {"loop"}
    BY <1>5 DEF ConnectFake, ConnectAlsa, Step, Goto, Opening
  <2> QED BY <1>2, <2>1, <2>2 DEF Ends, Opening
<1>6. CASE ConnectRefused \/ ConnectFails \/ WaitFails \/ DrainReadFails
  <2>1. /\ UNCHANGED <<printed, due, arrived>> /\ pc' \in {"ended", "close"}
        /\ failed' \in {"connect", "wait", "read"}
    BY <1>6 DEF ConnectRefused, ConnectFails, WaitFails, DrainReadFails, AlsaReadFails,
                CloseConnection, End, Goto, alsa, queues
  <2> QED BY <1>3, <2>1
<1>7. CASE Loop
  <2>1. /\ UNCHANGED <<printed, arrived, kernel, inbuf, next_event, backend>> /\ pc \in early
        /\ failed' = failed /\ pc' \in {"last", "wait"}
        /\ due' \in {due, Len(printed) + Unread}
        /\ pc' = "last" => due' = Len(printed) + Unread
    BY <1>7 DEF Loop, Goto, alsa, queues, fake, Live
  <2>2. Unread' = Unread
    BY <2>1 DEF Unread
  <2>3. failed' = "none"
    BY <2>1 DEF Ends
  <2>4. due' \in Int /\ (pc' = "last" => Len(printed') + Unread' >= due')
    BY <1>1, <2>1, <2>2
  <2> QED BY <1>1, <2>1, <2>3, <2>4 DEF Ends
<1>8. CASE WaitReturns
  <2>1. UNCHANGED <<printed, due, arrived, failed>> /\ pc \in early /\ pc' = "drain"
    BY <1>8 DEF WaitReturns, Step, Goto, tool, alsa, queues, Live
  <2> QED BY <1>2, <2>1 DEF Ends
<1>9. CASE DrainEvent
  <2>1. /\ UNCHANGED <<pc, arrived, due, failed, backend>> /\ pc \in Live
        /\ printed' = Append(printed, NextEvent)
    BY <1>9 DEF DrainEvent, TakeEvent, AlsaTake, FakeTake, Draining, alsa, queues, Live
  <2>2. NextEvent \in Output /\ Unread' = Unread - 1
    <3>1. CASE backend = "fake"
      <4>1. next_event' = next_event + 1 /\ next_event < Len(FakeEvents)
        BY <1>9, <3>1 DEF DrainEvent, TakeEvent, FakeTake, FakeHasEvent
      <4>2. NextEvent = FakeEvents[next_event + 1] /\ next_event \in Nat
        BY <3>1 DEF NextEvent, Queues
      <4>3. Unread' = Unread - 1
        BY <2>1, <3>1, <4>1, <4>2, FakePrintable DEF Unread
      <4>4. NextEvent \in Output
        BY <4>1, <4>2, FakePrintable DEF Output
      <4> QED BY <4>3, <4>4
    <3>2. CASE backend # "fake"
      <4>1. AlsaTake /\ backend = "alsa"
        BY <1>9, <3>2 DEF DrainEvent, TakeEvent, Places
      <4>2. NextEvent = ConvertAlsaEvent(Waiting[1]) /\ Waiting[1] \in AlsaEvent
        BY <3>2, <4>1, TakeFirst DEF NextEvent
      <4>3. Unread' = Unread - 1
        BY <2>1, <4>1, TakeFirst DEF Unread
      <4> QED BY <4>2, <4>3 DEF Output
    <3> QED BY <3>1, <3>2
  <2>3. printed' \in Seq(Output) /\ Len(printed') = Len(printed) + 1
    BY <1>1, <2>1, <2>2, AppendProperties
  <2>4. failed' = "none"
    BY <2>1 DEF Ends
  <2>5. pc' = "last" => Len(printed') + Unread' >= due'
    BY <1>1, <2>1, <2>2, <2>3 DEF Ends
  <2>6. pc' \notin {"connect", "close", "ended"}
    BY <2>1 DEF Live
  <2> QED BY <1>1, <2>1, <2>3, <2>4, <2>5, <2>6 DEF Ends
<1>10. CASE DrainUndecodable
  <2>1. /\ UNCHANGED <<arrived, due, printed, backend>> /\ pc \in Live
        /\ pc' = "close" /\ failed' = "decode" /\ HasEvent /\ ~Printable(NextEvent)
    BY <1>10 DEF DrainUndecodable, TakeEvent, AlsaTake, FakeTake, Draining, Goto, alsa,
                 queues, Live
  <2>2. backend = "alsa"
    <3> SUFFICES ASSUME backend = "fake" PROVE FALSE
      BY DEF Places
    <3>1. NextEvent = FakeEvents[next_event + 1] /\ next_event + 1 \in 1 .. Len(FakeEvents)
      BY <2>1, FakePrintable DEF NextEvent, HasEvent, FakeHasEvent, Queues
    <3> QED BY <2>1, <3>1, FakePrintable
  <2>3. AlsaTake
    BY <1>10, <2>2 DEF DrainUndecodable, TakeEvent
  <2>4. /\ NextEvent = ConvertAlsaEvent(Waiting[1]) /\ Waiting[1] \in AlsaEvent
        /\ Len(Waiting) > 0
    BY <2>2, <2>3, TakeFirst DEF NextEvent
  <2>5. Waiting[1].type = "SYSEX" /\ Waiting[1].b # 240
    BY <2>1, <2>4, AlsaPrintable
  <2>6. Waiting[1] = arrived[Len(printed) + 1] /\ Len(printed) + 1 <= Len(arrived)
    <3>1. Len(Waiting) \in Nat
      BY WaitingIs, LenProperties
    <3> QED BY <1>1, <2>1, <2>2, <2>4, <3>1 DEF AlsaOrder
  <2> QED BY <1>1, <2>1, <2>2, <2>5, <2>6 DEF Ends, Opening, Live
<1>11. CASE DrainEnds
  <2>1. UNCHANGED <<arrived, due, printed, failed>> /\ pc \in {"drain", "last"}
    BY <1>11 DEF DrainEnds, Draining, Step, tool, alsa, queues
  <2>2. CASE pc = "drain"
    BY <1>2, <1>11, <2>1, <2>2 DEF DrainEnds, Step, Goto, Live, Ends
  <2>3. CASE pc = "last"
    <3>1. pc' = "close" /\ failed' = "none"
      BY <1>11, <2>1, <2>3 DEF DrainEnds, Step, Goto, Live, Ends
    <3>2. Unread <= 0
      <4>1. CASE backend = "fake"
        BY <1>11, <2>3, <4>1, FakePrintable
        DEF DrainEnds, Drained, FakeHasEvent, Unread, Places, Live, Queues
      <4>2. CASE backend = "alsa"
        <5>1. inbuf = <<>> /\ kernel = <<>>
          BY <1>11, <2>3, <4>2 DEF DrainEnds, Drained, AlsaNoEvent, Places, Live
        <5>2. Len(inbuf) = 0 /\ Len(kernel) = 0
          BY <5>1, EmptySeq
        <5> QED BY <4>2, <5>2 DEF Unread
      <4> QED BY <4>1, <4>2 DEF Places
    <3>3. Len(printed) >= due
      BY <1>1, <2>3, <3>2 DEF Ends
    <3> QED BY <1>1, <2>1, <3>1, <3>3 DEF Ends, Opening, Live
  <2> QED BY <2>1, <2>2, <2>3
<1>12. CASE Close
  <2>1. UNCHANGED <<printed, arrived, due, failed, backend>> /\ pc = "close" /\ pc' = "ended"
    BY <1>12 DEF Close, CloseConnection, End, Goto, alsa, queues
  <2> QED BY <1>1, <2>1 DEF Ends, Opening, Live
<1>13. CASE Signal \/ Deadline
  <2>1. /\ UNCHANGED <<printed, due, arrived, failed, kernel, inbuf, next_event, backend>>
        /\ pc \in Live /\ pc' \in {"drain", pc} /\ (pc' = "drain" \/ pc' = pc)
    BY <1>13 DEF Signal, Deadline, Capturing, Goto, alsa, queues, fake, Live
  <2>2. Unread' = Unread
    BY <2>1 DEF Unread
  <2> QED BY <1>2, <2>1, <2>2 DEF Ends, Live
<1>14. CASE Arrival
  <2>1. UNCHANGED <<pc, backend, printed, due, failed, next_event>>
    BY <1>14 DEF Arrival, tool, fake
  <2>2. PICK e \in AlsaEvent : Arrives(e)
    BY <1>14 DEF Arrival
  <2>3. CASE UNCHANGED <<Waiting, arrived, inbuf, kernel>>
    <3>1. Unread' = Unread
      BY <2>1, <2>3 DEF Unread
    <3> QED BY <1>1, <2>1, <2>3, <3>1 DEF Ends, Captures, Arrival
  <2>4. CASE ~UNCHANGED <<Waiting, arrived, inbuf, kernel>>
    <3>1. /\ Len(kernel') = Len(kernel) + 1 /\ inbuf' = inbuf
          /\ Len(arrived') = Len(arrived) + 1
          /\ \A i \in 1 .. Len(arrived) : arrived'[i] = arrived[i]
      BY <2>2, <2>4, ArrivesLast
    <3>2. Unread' >= Unread /\ Unread' \in Int
      BY <1>1, <2>1, <3>1, WaitingIs DEF Unread
    <3>3. pc = "last" => Len(printed) + Unread' >= due
      BY <1>1, <3>2 DEF Ends
    <3>4. ASSUME failed = "decode"
          PROVE  /\ backend = "alsa" /\ Len(printed) + 1 <= Len(arrived')
                 /\ arrived'[Len(printed) + 1].type = "SYSEX"
                 /\ arrived'[Len(printed) + 1].b # 240
      <4>1. /\ backend = "alsa" /\ Len(printed) + 1 <= Len(arrived)
            /\ arrived[Len(printed) + 1].type = "SYSEX"
            /\ arrived[Len(printed) + 1].b # 240
        BY <3>4 DEF Ends
      <4>2. arrived'[Len(printed) + 1] = arrived[Len(printed) + 1]
        BY <1>1, <3>1, <4>1
      <4> QED BY <1>1, <3>1, <4>1, <4>2
    <3> QED BY <1>1, <2>1, <3>3, <3>4 DEF Ends
  <2> QED BY <2>3, <2>4
<1>15. CASE UNCHANGED vars
  BY <1>15 DEF vars, tool, alsa, queues, fake, Ends, Captures, Unread
<1> QED
  BY <1>4, <1>5, <1>6, <1>7, <1>8, <1>9, <1>10, <1>11, <1>12, <1>13, <1>14, <1>15
  DEF Next, ToolStep

-----------------------------------------------------------------------------
(* The properties.                                                         *)

LEMMA ProbeInvariance == Spec => []ProbeInv
<1>1. Init => ProbeInv
  BY PlacesInit, QueuesInit, AlsaOrderInit, FakeOrderInit, EndsInit DEF ProbeInv
<1>2. ProbeInv /\ [Next]_vars => ProbeInv'
  BY PlacesStep, QueuesStep, AlsaOrderStep, FakeOrderStep, EndsStep DEF ProbeInv
<1> QED BY <1>1, <1>2, PTL DEF Spec

\* The tool never waits over an event it has already read: whatever is left to
\* print at the wait, the descriptors show.
THEOREM NoEventBehindWaitCorrect == Spec => []NoEventBehindWait
<1>1. ProbeInv => NoEventBehindWait
  <2> SUFFICES ASSUME ProbeInv, pc = "wait", Unread > 0 PROVE Readable
    BY DEF NoEventBehindWait
  <2>1. inbuf = <<>> /\ Len(inbuf) = 0
    BY EmptySeq DEF ProbeInv, Queues
  <2>2. CASE backend = "alsa"
    <3>1. Len(kernel) # 0
      BY <2>1, <2>2, WaitingIs DEF Unread, ProbeInv
    <3>2. kernel # <<>>
      BY <3>1, EmptySeq
    <3> QED BY <2>2, <3>2 DEF Readable, AlsaReadable
  <2>3. CASE backend # "alsa"
    <3>1. attached
      BY <2>3 DEF ProbeInv, Places, Live
    <3>2. next_event < Len(FakeEvents)
      BY <2>3, FakePrintable DEF Unread, ProbeInv, Queues
    <3> QED BY <2>3, <3>1, <3>2 DEF Readable, FakeHasEvent
  <2> QED BY <2>2, <2>3
<1> QED BY <1>1, ProbeInvariance, PTL

\* A prefix, as the property writes it.
LEMMA IsPrefix ==
    ASSUME NEW s \in Seq(Output), NEW t, Len(s) \in Nat,
           \A i \in 1 .. Len(s) : s[i] = t[i]
    PROVE  s = SubSeq(t, 1, Len(s))
<1>1. \A i \in 1 .. Len(s) : t[i] \in Output
  BY LenProperties
<1>2. /\ SubSeq(t, 1, Len(s)) \in Seq(Output)
      /\ Len(SubSeq(t, 1, Len(s))) = Len(s)
      /\ \A i \in 1 .. Len(s) : SubSeq(t, 1, Len(s))[i] = t[i]
  <2>1. /\ SubSeq(t, 1, Len(s)) \in Seq(Output)
        /\ Len(SubSeq(t, 1, Len(s))) = IF 1 <= Len(s) THEN Len(s) - 1 + 1 ELSE 0
        /\ \A i \in 1 .. Len(s) - 1 + 1 : SubSeq(t, 1, Len(s))[i] = t[1 + i - 1]
    BY <1>1, SubSeqProperties
  <2> QED BY <2>1
<1> QED BY <1>2, SeqEqual

\* A capture that exits with 0 has printed, in order, at least the events that
\* were queued when its loop ended; one that ends for an event that does not
\* decode met a later piece of a split SysEx message.
THEOREM QueuedIsPrintedCorrect == Spec => []QueuedIsPrinted
<1>1. ProbeInv => QueuedIsPrinted
  <2> SUFFICES ASSUME ProbeInv, pc = "ended", Captures PROVE QueuedIsPrinted
    BY DEF QueuedIsPrinted, Captures
  <2> DEFINE converted == [i \in DOMAIN arrived |-> ConvertAlsaEvent(arrived[i])]
             events == IF backend = "fake" THEN FakeEvents ELSE converted
  <2>1. /\ printed \in Seq(Output) /\ Len(printed) \in Nat
        /\ arrived \in Seq(AlsaEvent) /\ DOMAIN arrived = 1 .. Len(arrived)
        /\ Len(arrived) \in Nat
    BY LenProperties DEF ProbeInv, Ends, Queues
  <2>2. \A i \in 1 .. Len(printed) : printed[i] = events[i]
    <3>1. CASE backend = "fake"
      BY <3>1 DEF ProbeInv, FakeOrder
    <3>2. CASE backend # "fake"
      <4>1. /\ Len(printed) <= Len(arrived)
            /\ \A i \in 1 .. Len(printed) : printed[i] = ConvertAlsaEvent(arrived[i])
        BY <3>2 DEF ProbeInv, Places, AlsaOrder
      <4>2. ASSUME NEW i \in 1 .. Len(printed) PROVE converted[i] = ConvertAlsaEvent(arrived[i])
        BY <2>1, <4>1
      <4> QED BY <3>2, <4>1, <4>2
    <3> QED BY <3>1, <3>2
  <2> HIDE DEF events
  <2>3. printed = SubSeq(events, 1, Len(printed))
    BY <2>1, <2>2, IsPrefix
  <2>4. failed = "none" => Len(printed) >= due
    BY DEF ProbeInv, Ends
  <2>5. failed = "decode" => arrived[Len(printed) + 1].type = "SYSEX"
                             /\ arrived[Len(printed) + 1].b # 240
    BY DEF ProbeInv, Ends
  <2> QED BY <2>3, <2>4, <2>5 DEF QueuedIsPrinted, events
<1> QED BY <1>1, ProbeInvariance, PTL
=============================================================================
