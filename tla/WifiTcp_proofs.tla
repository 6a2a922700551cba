--------------------------- MODULE WifiTcp_proofs ---------------------------
(* Proofs about WifiTcp, for decoders, reads, clients and radios of any size. *)
EXTENDS WifiTcp, WellFoundedInduction, SequenceTheorems, TLAPS

-----------------------------------------------------------------------------
(* The decoder                                                             *)

\* The least-number principle for sets.
LEMMA NatMin ==
    ASSUME NEW T, T \subseteq Nat, T # {}
    PROVE  \E x \in T : \A y \in T : x <= y
<1> DEFINE R == OpToRel(<, Nat)
<1>1. IsWellFoundedOn(R, Nat)
  BY NatLessThanWellFounded
<1>2. PICK x \in T : \A y \in T : ~ (<<y, x>> \in R)
  <2> HIDE DEF R
  <2> QED BY <1>1, WFMin
<1>3. ASSUME NEW y \in T PROVE x <= y
  <2>1. ~ (<<y, x>> \in R)
    BY <1>2
  <2>2. <<y, x>> \in Nat \X Nat
    OBVIOUS
  <2> QED BY <2>1, <2>2 DEF OpToRel
<1> QED BY <1>3

\* A buffer with a terminator has a first one, and next_frame takes it.
LEMMA FirstTerminator ==
    ASSUME NEW buf \in Seq(Nat), HasFrame(buf)
    PROVE  \E end \in DOMAIN buf :
              /\ buf[end] = Terminator
              /\ \A j \in 1 .. end - 1 : buf[j] # Terminator
              /\ NextFrame(buf) =
                    [msg  |-> IF end = 2 THEN buf[1] ELSE NoMessage,
                     rest |-> SubSeq(buf, end + 1, Len(buf))]
<1> DEFINE Ends == {i \in DOMAIN buf : buf[i] = Terminator}
           First(i) == /\ buf[i] = Terminator
                       /\ \A j \in 1 .. i - 1 : buf[j] # Terminator
           end == CHOOSE i \in DOMAIN buf : First(i)
<1>1. Ends \subseteq Nat /\ Ends # {}
  BY DEF HasFrame
<1>2. PICK x \in Ends : \A y \in Ends : x <= y
  <2> HIDE DEF Ends
  <2> QED BY <1>1, NatMin
<1>3. x \in DOMAIN buf /\ First(x)
  BY <1>2
<1>4. end \in DOMAIN buf /\ First(end)
  <2> HIDE DEF First
  <2> QED BY <1>3
<1>5. NextFrame(buf) = [msg  |-> IF end = 2 THEN buf[1] ELSE NoMessage,
                        rest |-> SubSeq(buf, end + 1, Len(buf))]
  BY DEF NextFrame
<1> HIDE DEF end
<1> QED BY <1>4, <1>5

\* The suffix of a sequence after its first m elements.
LEMMA SuffixProperties ==
    ASSUME NEW S, NEW s \in Seq(S), NEW m \in 0 .. Len(s)
    PROVE  /\ SubSeq(s, m + 1, Len(s)) \in Seq(S)
           /\ Len(SubSeq(s, m + 1, Len(s))) = Len(s) - m
           /\ \A i \in 1 .. Len(s) - m : SubSeq(s, m + 1, Len(s))[i] = s[i + m]
  OBVIOUS

\* What next_frame leaves is a suffix of the buffer, and a message it returns
\* was at the front and has gone.
LEMMA NextFrameIsSuffix ==
    ASSUME NEW n \in Nat, NEW buf \in Seq(0 .. n)
    PROVE  /\ NextFrame(buf).msg \in 0 .. n
           /\ \E d \in 0 .. Len(buf) :
                 /\ NextFrame(buf).rest = SubSeq(buf, d + 1, Len(buf))
                 /\ NextFrame(buf).msg # NoMessage =>
                       d > 0 /\ NextFrame(buf).msg = buf[1]
<1>1. CASE HasFrame(buf)
  <2>1. buf \in Seq(Nat)
    OBVIOUS
  <2>2. PICK end \in DOMAIN buf :
           NextFrame(buf) = [msg  |-> IF end = 2 THEN buf[1] ELSE NoMessage,
                             rest |-> SubSeq(buf, end + 1, Len(buf))]
    BY <1>1, <2>1, FirstTerminator
  <2>3. end \in 1 .. Len(buf)
    BY LenProperties
  <2>4. end = 2 => buf[1] \in 0 .. n
    BY <2>3, ElementOfSeq
  <2> DEFINE rest == SubSeq(buf, end + 1, Len(buf))
             first == buf[1]
             next == NextFrame(buf)
  <2>5. next = [msg |-> IF end = 2 THEN first ELSE NoMessage, rest |-> rest]
    BY <2>2
  <2> HIDE DEF rest, first, next
  <2>6. next.rest = rest /\ next.msg = IF end = 2 THEN first ELSE NoMessage
    BY <2>5
  <2>7. /\ next.rest = SubSeq(buf, end + 1, Len(buf))
        /\ next.msg # NoMessage => end > 0 /\ next.msg = buf[1]
    BY <2>3, <2>6 DEF rest, first
  <2>8. next.msg \in 0 .. n
    BY <2>4, <2>6 DEF first, NoMessage
  <2>9. \E d \in 0 .. Len(buf) :
           /\ next.rest = SubSeq(buf, d + 1, Len(buf))
           /\ next.msg # NoMessage => d > 0 /\ next.msg = buf[1]
    <3>1. end \in 0 .. Len(buf)
      BY <2>3
    <3> QED BY <2>7, <3>1
  <2> QED BY <2>8, <2>9 DEF next
<1>2. CASE ~ HasFrame(buf)
  <2>1. NextFrame(buf) = [msg |-> NoMessage, rest |-> buf]
    BY <1>2 DEF NextFrame
  <2>2. NextFrame(buf).msg = NoMessage /\ NextFrame(buf).rest = buf
    BY <2>1
  <2>3. buf = SubSeq(buf, 0 + 1, Len(buf))
    BY SubSeqFull
  <2>4. 0 \in 0 .. Len(buf) /\ 0 \in 0 .. n
    BY LenProperties
  <2> DEFINE next == NextFrame(buf)
  <2>5. next.msg = NoMessage /\ next.rest = SubSeq(buf, 0 + 1, Len(buf))
    BY <2>2, <2>3
  <2> HIDE DEF next
  <2>6. next.msg \in 0 .. n
    BY <2>4, <2>5 DEF NoMessage
  <2>7. \E d \in 0 .. Len(buf) :
           /\ next.rest = SubSeq(buf, d + 1, Len(buf))
           /\ next.msg # NoMessage => d > 0 /\ next.msg = buf[1]
    <3> WITNESS 0 \in 0 .. Len(buf)
    <3> QED BY <2>5
  <2> QED BY <2>6, <2>7 DEF next
<1> QED BY <1>1, <1>2

\* Where the pieces of a concatenation lie.
LEMMA ConcatAt ==
    ASSUME NEW S, NEW s \in Seq(S), NEW t \in Seq(S)
    PROVE  /\ s \o t \in Seq(S)
           /\ Len(s \o t) = Len(s) + Len(t)
           /\ \A i \in 1 .. Len(s) : (s \o t)[i] = s[i]
           /\ \A i \in Len(s) + 1 .. Len(s) + Len(t) : (s \o t)[i] = t[i - Len(s)]
  OBVIOUS

\* A push never leaves more than the decoder holds: what would, is dropped whole.
LEMMA PushIsBounded ==
    ASSUME NEW n \in Nat, NEW buf \in Seq(0 .. n), NEW chunk \in Seq(0 .. n)
    PROVE  /\ Push(buf, chunk) \in Seq(0 .. n)
           /\ Len(Push(buf, chunk)) <= MaxPieces
           /\ Push(buf, chunk) \in {<<>>, buf \o chunk}
<1>1. /\ buf \o chunk \in Seq(0 .. n) /\ Len(buf \o chunk) = Len(buf) + Len(chunk)
      /\ Len(buf) \in Nat /\ Len(chunk) \in Nat
  BY ConcatAt, LenProperties
<1>2. <<>> \in Seq(0 .. n) /\ Len(<<>>) = 0
  OBVIOUS
<1>3. CASE Len(buf) + Len(chunk) > MaxPieces
  <2>1. Push(buf, chunk) = <<>>
    BY <1>3 DEF Push
  <2> QED BY <2>1, <1>2, MaxPiecesAssumption
<1>4. CASE ~ (Len(buf) + Len(chunk) > MaxPieces)
  <2>1. Push(buf, chunk) = buf \o chunk
    BY <1>4 DEF Push
  <2> QED BY <2>1, <1>1, <1>4, MaxPiecesAssumption
<1> QED BY <1>3, <1>4

\* t is a suffix of s.
Suffix(t, s, d) ==
    /\ d \in Nat /\ Len(t) + d = Len(s)
    /\ \A i \in 1 .. Len(t) : t[i] = s[i + d]

\* What is in the decoder and still to be read is, after a poll, a suffix of
\* what it was before, wherever the read cut it and whether or not the decoder
\* overflowed; a message that came out was its first piece.
LEMMA PollTakesFromFront ==
    ASSUME NEW n \in Nat, NEW dec \in Seq(0 .. n), NEW r \in Seq(0 .. n),
           NEW k \in 1 .. Len(r)
    PROVE  LET next == NextFrame(Push(dec, SubSeq(r, 1, k)))
               left == next.rest \o SubSeq(r, k + 1, Len(r))
           IN  /\ next.msg \in 0 .. n
               /\ next.rest \in Seq(0 .. n) /\ Len(next.rest) <= MaxPieces
               /\ \E d \in Nat :
                     /\ Suffix(left, dec \o r, d)
                     /\ next.msg # NoMessage => d > 0 /\ next.msg = (dec \o r)[1]
<1> DEFINE chunk == SubSeq(r, 1, k)
           more == SubSeq(r, k + 1, Len(r))
           buf == Push(dec, chunk)
           next == NextFrame(buf)
           rest == next.rest
           left == rest \o more
           all == dec \o r
<1>1. /\ Len(r) \in Nat /\ k \in Nat /\ k <= Len(r)
      /\ Len(dec) \in Nat
  BY LenProperties
<1>2. /\ chunk \in Seq(0 .. n) /\ Len(chunk) = k
      /\ \A i \in 1 .. k : chunk[i] = r[i]
  BY ONLY <1>1, n \in Nat, r \in Seq(0 .. n), k \in 1 .. Len(r)
<1>3. /\ more \in Seq(0 .. n) /\ Len(more) = Len(r) - k
      /\ \A i \in 1 .. Len(r) - k : more[i] = r[i + k]
  <2>1. r \in Seq(0 .. n) /\ k \in 0 .. Len(r)
    BY ONLY r \in Seq(0 .. n), <1>1
  <2> QED BY ONLY <2>1, SuffixProperties
<1> HIDE DEF chunk, more
<1>4. buf \in Seq(0 .. n) /\ Len(buf) <= MaxPieces /\ buf \in {<<>>, dec \o chunk}
  BY <1>2, PushIsBounded
<1> HIDE DEF buf
<1>5. next.msg \in 0 .. n
  BY <1>4, NextFrameIsSuffix
<1>6. PICK d \in 0 .. Len(buf) :
         /\ rest = SubSeq(buf, d + 1, Len(buf))
         /\ next.msg # NoMessage => d > 0 /\ next.msg = buf[1]
  BY <1>4, NextFrameIsSuffix
<1> HIDE DEF next
<1>7. /\ rest \in Seq(0 .. n) /\ Len(rest) = Len(buf) - d
      /\ \A i \in 1 .. Len(buf) - d : rest[i] = buf[i + d]
  BY <1>4, <1>6, SuffixProperties
<1>8. d \in Nat /\ d <= Len(buf) /\ Len(buf) \in Nat /\ Len(rest) <= MaxPieces
  BY <1>4, <1>6, <1>7, LenProperties, MaxPiecesAssumption
<1> HIDE DEF rest
<1>9. /\ Len(left) = Len(rest) + Len(more)
      /\ \A i \in 1 .. Len(rest) : left[i] = rest[i]
      /\ \A i \in Len(rest) + 1 .. Len(rest) + Len(more) : left[i] = more[i - Len(rest)]
  <2>1. rest \in Seq(0 .. n) /\ more \in Seq(0 .. n)
    BY ONLY <1>3, <1>7
  <2> QED BY ONLY <2>1, ConcatAt DEF left
<1>10. /\ Len(all) = Len(dec) + Len(r)
       /\ \A i \in 1 .. Len(dec) : all[i] = dec[i]
       /\ \A i \in Len(dec) + 1 .. Len(dec) + Len(r) : all[i] = r[i - Len(dec)]
  BY ConcatAt
<1> HIDE DEF left, all
<1>11. \E e \in Nat : /\ Suffix(left, all, e)
                      /\ next.msg # NoMessage => e > 0 /\ next.msg = all[1]
  <2>1. CASE buf = <<>>
    <3>1. Len(buf) = 0 /\ d = 0 /\ next.msg = NoMessage /\ Len(rest) = 0
      BY <2>1, <1>6, <1>7, <1>8
    <3> DEFINE e == Len(dec) + k
    <3>2. e \in Nat /\ Len(left) + e = Len(all)
      BY <3>1, <1>1, <1>3, <1>9, <1>10
    <3>3. ASSUME NEW i \in 1 .. Len(left) PROVE left[i] = all[i + e]
      <4>1. i \in 1 .. Len(r) - k /\ Len(left) = Len(r) - k
        BY <3>1, <1>1, <1>3, <1>9
      <4>2. left[i] = r[i + k]
        BY <4>1, <3>1, <1>1, <1>3, <1>9
      <4> DEFINE j == i + e
      <4>3. j \in Len(dec) + 1 .. Len(dec) + Len(r) /\ j - Len(dec) = i + k
        BY <4>1, <1>1
      <4> HIDE DEF j
      <4>4. all[j] = r[i + k]
        BY <4>3, <1>10
      <4> QED BY <4>2, <4>4 DEF j
    <3> HIDE DEF e
    <3> QED BY <3>1, <3>2, <3>3 DEF Suffix
  <2>2. CASE buf = dec \o chunk /\ buf # <<>>
    <3>1. /\ Len(buf) = Len(dec) + k
          /\ \A i \in 1 .. Len(dec) : buf[i] = dec[i]
          /\ \A i \in Len(dec) + 1 .. Len(dec) + k : buf[i] = chunk[i - Len(dec)]
      BY <2>2, <1>2, ConcatAt
    <3>2. \A i \in 1 .. Len(buf) : buf[i] = all[i]
      <4> SUFFICES ASSUME NEW i \in 1 .. Len(dec) + k PROVE buf[i] = all[i]
        BY <3>1
      <4>1. CASE i \in 1 .. Len(dec)
        BY <4>1, <3>1, <1>10
      <4>2. CASE i \in Len(dec) + 1 .. Len(dec) + k
        <5>1. i - Len(dec) \in 1 .. k /\ i \in Len(dec) + 1 .. Len(dec) + Len(r)
          BY <4>2, <1>1
        <5> QED BY <4>2, <5>1, <3>1, <1>2, <1>10
      <4> QED BY <4>1, <4>2, <1>1
    <3>3. Len(left) + d = Len(all)
      BY <3>1, <1>1, <1>3, <1>7, <1>8, <1>9, <1>10
    <3>4. ASSUME NEW i \in 1 .. Len(left) PROVE left[i] = all[i + d]
      <4>1. CASE i \in 1 .. Len(rest)
        <5>1. left[i] = buf[i + d] /\ i + d \in 1 .. Len(buf)
          <6>1. i \in 1 .. Len(buf) - d /\ left[i] = rest[i]
            BY <4>1, <1>7, <1>9
          <6>2. rest[i] = buf[i + d]
            BY <6>1, <1>7
          <6>3. i + d \in 1 .. Len(buf)
            BY ONLY <6>1, <1>8
          <6> QED BY ONLY <6>1, <6>2, <6>3
        <5> QED BY <5>1, <3>2
      <4>2. CASE i \in Len(rest) + 1 .. Len(rest) + Len(more)
        <5> DEFINE j == i + d
        <5>1. Len(rest) = Len(dec) + k - d /\ Len(more) = Len(r) - k
          BY <3>1, <1>3, <1>7
        <5>2. /\ i - Len(rest) \in 1 .. Len(r) - k
              /\ j \in Len(dec) + 1 .. Len(dec) + Len(r)
              /\ j - Len(dec) = i - Len(rest) + k
          <6> DEFINE nRest == Len(rest)
                     nMore == Len(more)
                     nDec == Len(dec)
                     nR == Len(r)
          <6>1. /\ nRest = nDec + k - d /\ nMore = nR - k
                /\ i \in nRest + 1 .. nRest + nMore
                /\ d \in Int /\ k \in Int /\ nDec \in Int /\ nR \in Int
            BY <4>2, <5>1, <1>1, <1>8
          <6> HIDE DEF nRest, nMore, nDec, nR
          <6>2. /\ i - nRest \in 1 .. nR - k
                /\ i + d \in nDec + 1 .. nDec + nR
                /\ i + d - nDec = i - nRest + k
            BY ONLY <6>1
          <6> QED BY ONLY <6>2 DEF j, nRest, nMore, nDec, nR
        <5> HIDE DEF j
        <5>3. left[i] = r[i - Len(rest) + k]
          BY <4>2, <5>2, <1>3, <1>9
        <5>4. all[j] = r[j - Len(dec)]
          BY <5>2, <1>10
        <5> QED BY <5>2, <5>3, <5>4 DEF j
      <4> QED BY <4>1, <4>2, <1>1, <1>3, <1>7, <1>8, <1>9
    <3>5. next.msg # NoMessage => next.msg = all[1]
      BY <3>2, <1>6, <1>8
    <3> QED BY <3>3, <3>4, <3>5, <1>6, <1>8 DEF Suffix
  <2> QED BY <2>1, <2>2, <1>4
<1> QED BY <1>5, <1>7, <1>8, <1>11 DEF left, all, rest, next, buf, chunk, more

-----------------------------------------------------------------------------
(* Types                                                                   *)

\* Every variable keeps its type, and the decoder its bound.
THEOREM WifiTyping == WifiSpec => []WifiTypeOK
<1>1. WifiInit => WifiTypeOK
  <2> SUFFICES ASSUME WifiInit PROVE WifiTypeOK
    OBVIOUS
  <2> USE DEF WifiInit
  <2>1. <<>> \in Pieces /\ Len(<<>>) <= MaxPieces
    BY MaxPiecesAssumption DEF Pieces
  <2>2. tx \in Seq({"Ready", "Reply", "Event"})
    OBVIOUS
  <2>3. spent \in [frames : 0 .. MaxFrames, sessions : 0 .. MaxSessions,
                    events : 0 .. MaxEvents]
    BY BoundsAssumption
  <2> QED BY <2>1, <2>2, <2>3 DEF WifiTypeOK
<1>2. WifiTypeOK /\ [WifiNext]_wifiVars => WifiTypeOK'
  <2> SUFFICES ASSUME WifiTypeOK, [WifiNext]_wifiVars PROVE WifiTypeOK'
    OBVIOUS
  <2> USE BoundsAssumption
  <2>1. CASE Iteration
    <3>1. wifi_was_active' \in BOOLEAN /\ ReadyStill \in BOOLEAN
      BY <2>1 DEF Iteration, Flags, IsActive, ReadyStill, WifiTypeOK
    <3>2. CASE PollConnecting
      BY <2>1, <3>1, <3>2 DEF Iteration, PollConnecting, Quiet, NoAnswer, WifiTypeOK
    <3>3. CASE PollWaitingForIp
      BY <2>1, <3>1, <3>3 DEF Iteration, PollWaitingForIp, Quiet, NoAnswer, WifiTypeOK
    <3>4. CASE PollListening
      BY <2>1, <3>1, <3>4 DEF Iteration, PollListening, Quiet, NoAnswer, WifiTypeOK
    <3>5. CASE PollEnded
      BY <2>1, <3>1, <3>5 DEF Iteration, PollEnded, Quiet, NoAnswer, WifiTypeOK
    <3>6. CASE PollActive /\ rx = <<>>
      BY <2>1, <3>1, <3>6 DEF Iteration, PollActive, Quiet, NoAnswer, WifiTypeOK
    <3>7. CASE PollActive /\ rx # <<>>
      <4>1. PICK n \in 1 .. Len(rx) :
               LET next == NextFrame(Push(decoder, SubSeq(rx, 1, n))) IN
               /\ rx' = SubSeq(rx, n + 1, Len(rx))
               /\ decoder' = next.rest
               /\ IF next.msg = NoMessage THEN NoAnswer ELSE Answer(next.msg)
        BY <3>7 DEF PollActive
      <4> DEFINE next == NextFrame(Push(decoder, SubSeq(rx, 1, n)))
      <4>2. MaxFrames \in Nat /\ decoder \in Pieces /\ rx \in Pieces
        BY DEF WifiTypeOK
      <4>3. next.msg \in 0 .. MaxFrames /\ next.rest \in Pieces
            /\ Len(next.rest) <= MaxPieces
        BY <4>2, PollTakesFromFront DEF Pieces
      <4>4. rx' \in Pieces
        <5>1. n \in 0 .. Len(rx)
          OBVIOUS
        <5> QED BY <4>1, <4>2, <5>1, SuffixProperties DEF Pieces
      <4> HIDE DEF next
      <4>5. /\ handled' \in Pieces /\ wifi_ready_sent' \in BOOLEAN
            /\ tx' \in Seq({"Ready", "Reply", "Event"})
        <5>1. CASE NoAnswer
          BY <5>1, <3>1 DEF NoAnswer, WifiTypeOK
        <5>2. CASE Answer(next.msg)
          <6>1. handled' \in Pieces /\ wifi_ready_sent' \in BOOLEAN
            BY <5>2, <4>3 DEF Answer, WifiTypeOK, Pieces
          <6>2. tx' \in Seq({"Ready", "Reply", "Event"})
            <7> DEFINE T == {"Ready", "Reply", "Event"}
                       first == IF ReadyStill THEN <<>> ELSE <<"Ready">>
            <7>0. /\ <<>> \in Seq(T) /\ <<"Ready">> \in Seq(T)
                  /\ <<"Reply">> \in Seq(T) /\ tx \in Seq(T)
              BY DEF WifiTypeOK
            <7>1. first \in Seq(T)
              BY <7>0
            <7>2. tx' = tx \o first \o <<"Reply">>
              BY <5>2 DEF Answer
            <7> HIDE DEF first, T
            <7>3. tx' \in Seq(T)
              BY <7>0, <7>1, <7>2, ConcatProperties
            <7> QED BY <7>3 DEF T
          <6> QED BY <6>1, <6>2
        <5> QED BY <4>1, <5>1, <5>2 DEF next
      <4> QED
        BY <2>1, <3>1, <3>7, <4>1, <4>3, <4>4, <4>5
        DEF Iteration, PollActive, WifiTypeOK, next
    <3> QED BY <2>1, <3>2, <3>3, <3>4, <3>5, <3>6, <3>7 DEF Iteration
  <2>2. CASE SendEvent
    BY <2>2 DEF SendEvent, radio, WifiTypeOK
  <2>3. CASE RadioChanges
    BY <2>3 DEF RadioChanges, device, tcp, WifiTypeOK
  <2>4. CASE ClientConnects
    <3>1. spent' \in [frames : 0 .. MaxFrames, sessions : 0 .. MaxSessions,
                       events : 0 .. MaxEvents]
      BY <2>4 DEF ClientConnects, WifiTypeOK
    <3>2. rx' \in Pieces /\ tx' \in Seq({"Ready", "Reply", "Event"})
      BY <2>4 DEF ClientConnects, Pieces
    <3> QED BY <2>4, <3>1, <3>2 DEF ClientConnects, device, radio, WifiTypeOK
  <2>5. CASE ClientSends
    <3>1. rx \o Encode(spent.frames + 1) \in Pieces
      BY <2>5 DEF ClientSends, Encode, Terminator, Pieces, WifiTypeOK
    <3> QED BY <2>5, <3>1 DEF ClientSends, device, radio, WifiTypeOK
  <2>6. CASE ClientLeaves
    <3>1. spent.frames < MaxFrames => spent.frames + 1 \in 0 .. MaxFrames
      BY DEF WifiTypeOK
    <3>2. rx' \in Pieces
      <4>1. CASE rx' = Append(rx, spent.frames + 1) /\ spent.frames < MaxFrames
        BY <4>1, <3>1 DEF WifiTypeOK, Pieces
      <4> QED BY <2>6, <4>1 DEF ClientLeaves, WifiTypeOK
    <3>3. tx' \in Seq({"Ready", "Reply", "Event"})
      BY <2>6 DEF ClientLeaves
    <3>4. spent' \in [frames : 0 .. MaxFrames, sessions : 0 .. MaxSessions,
                       events : 0 .. MaxEvents]
      BY <2>6 DEF ClientLeaves, WifiTypeOK
    <3> QED BY <2>6, <3>2, <3>3, <3>4 DEF ClientLeaves, device, radio, WifiTypeOK
  <2>7. CASE ClientVanishes
    BY <2>7 DEF ClientVanishes, device, radio, WifiTypeOK
  <2>8. CASE Reset
    BY <2>8 DEF Reset, Closed, device, radio, WifiTypeOK, Pieces
  <2>9. CASE Refused
    BY <2>9 DEF Refused, Closed, device, radio, WifiTypeOK, Pieces
  <2>10. CASE UNCHANGED wifiVars
    BY <2>10 DEF wifiVars, device, radio, tcp, WifiTypeOK
  <2> QED BY <2>1, <2>2, <2>3, <2>4, <2>5, <2>6, <2>7, <2>8, <2>9, <2>10 DEF WifiNext
<1> QED BY <1>1, <1>2, PTL DEF WifiSpec

-----------------------------------------------------------------------------
(* Ready                                                                   *)

Replies == {"Ready", "Reply", "Event"}

HasReady(t) == \E j \in 1 .. Len(t) : t[j] = "Ready"

Greeted(t) == \A i \in 1 .. Len(t) : t[i] = "Reply" => \E j \in 1 .. i - 1 : t[j] = "Ready"

\* An answer, with Ready before it unless it has been sent, greets the client.
LEMMA AnswerGreets ==
    ASSUME NEW t \in Seq(Replies), Greeted(t),
           NEW ready \in BOOLEAN, ready => HasReady(t)
    PROVE  LET u == t \o (IF ready THEN <<>> ELSE <<"Ready">>) \o <<"Reply">>
           IN  Greeted(u) /\ HasReady(u)
<1>1. CASE ready
  <2> DEFINE u == t \o <<>> \o <<"Reply">>
  <2>1. /\ Len(u) = Len(t) + 1 /\ u[Len(t) + 1] = "Reply" /\ Len(t) \in Nat
        /\ \A i \in 1 .. Len(t) : u[i] = t[i]
    BY DEF Replies
  <2> HIDE DEF u
  <2>2. Greeted(u) /\ HasReady(u)
    BY <1>1, <2>1 DEF Greeted, HasReady
  <2> QED BY <1>1, <2>2 DEF u
<1>2. CASE ~ ready
  <2> DEFINE u == t \o <<"Ready">> \o <<"Reply">>
  <2>1. /\ Len(u) = Len(t) + 2 /\ Len(t) \in Nat
        /\ u[Len(t) + 1] = "Ready" /\ u[Len(t) + 2] = "Reply"
        /\ \A i \in 1 .. Len(t) : u[i] = t[i]
    BY DEF Replies
  <2> HIDE DEF u
  <2>2. HasReady(u)
    BY <2>1 DEF HasReady
  <2>3. Greeted(u)
    <3> SUFFICES ASSUME NEW i \in 1 .. Len(u), u[i] = "Reply"
                 PROVE  \E j \in 1 .. i - 1 : u[j] = "Ready"
      BY DEF Greeted
    <3>1. CASE i \in 1 .. Len(t)
      BY <3>1, <2>1 DEF Greeted
    <3>2. CASE i = Len(t) + 1
      BY <3>2, <2>1
    <3>3. CASE i = Len(t) + 2
      <4>1. Len(t) + 1 \in 1 .. i - 1
        BY <3>3, <2>1
      <4> QED BY <4>1, <2>1
    <3> QED BY <3>1, <3>2, <3>3, <2>1
  <2> QED BY <1>2, <2>2, <2>3 DEF u
<1> QED BY <1>1, <1>2

\* The flag is down whenever no session is on and main has seen so; a session
\* with the flag up has its Ready; and no listening socket counts as a session.
ReadyInv ==
    /\ state # "Active" /\ ~ wifi_was_active => ~ wifi_ready_sent
    /\ state = "Active" => sock # "listen"
    /\ state = "Active" /\ wifi_ready_sent /\ client = "open" => HasReady(tx)
    /\ client = "open" => Greeted(tx)

\* Every client is greeted before it is answered: wifi_ready_sent, a local of
\* main, never outlives the session it was set in.
THEOREM ReadySafety == WifiSpec => []ReadyBeforeReplies
<1>1. WifiInit => ReadyInv
  BY DEF WifiInit, ReadyInv
<1>2. WifiTypeOK /\ ReadyInv /\ [WifiNext]_wifiVars => ReadyInv'
  <2> SUFFICES ASSUME WifiTypeOK, ReadyInv, [WifiNext]_wifiVars PROVE ReadyInv'
    OBVIOUS
  <2>1. CASE Iteration
    <3>1. wifi_was_active' = IsActive /\ client' = client
      BY <2>1 DEF Iteration, Flags
    <3>2. ReadyStill \in BOOLEAN /\ (ReadyStill => wifi_ready_sent /\ IsActive)
      BY DEF ReadyStill, IsActive, ReadyInv, WifiTypeOK
    <3>3. CASE PollConnecting
      BY <3>1, <3>2, <3>3 DEF PollConnecting, Quiet, NoAnswer, IsActive, ReadyInv
    <3>4. CASE PollWaitingForIp
      <4>1. state' # "Active"
        BY <3>4 DEF PollWaitingForIp
      <4> QED BY <4>1, <3>1, <3>2, <3>4
              DEF PollWaitingForIp, Quiet, NoAnswer, IsActive, ReadyInv
    <3>5. CASE PollListening
      BY <3>1, <3>2, <3>5 DEF PollListening, Quiet, NoAnswer, IsActive, SocketActive, ReadyInv
    <3>6. CASE PollEnded
      BY <3>1, <3>2, <3>6 DEF PollEnded, Quiet, NoAnswer, IsActive, ReadyInv
    <3>7. CASE PollActive
      <4>1. state = "Active" /\ state' = "Active" /\ sock' = sock
        BY <3>7 DEF PollActive, IsActive
      <4>2. NoAnswer \/ \E msg : Answer(msg)
        BY <3>7 DEF PollActive, Quiet
      <4>3. CASE NoAnswer
        BY <4>1, <4>3, <3>1, <3>2 DEF NoAnswer, ReadyInv
      <4>4. ASSUME NEW msg, Answer(msg) PROVE ReadyInv'
        <5>1. CASE client = "open"
          <6>1. tx \in Seq(Replies) /\ Greeted(tx) /\ (ReadyStill => HasReady(tx))
            BY <5>1, <4>1, <3>2 DEF ReadyInv, WifiTypeOK, Replies
          <6>2. Greeted(tx') /\ HasReady(tx')
            BY <6>1, <4>4, <3>2, AnswerGreets DEF Answer
          <6> QED BY <6>2, <4>1, <3>1 DEF ReadyInv
        <5>2. CASE client # "open"
          BY <5>2, <4>1, <3>1 DEF ReadyInv
        <5> QED BY <5>1, <5>2
      <4> QED BY <4>2, <4>3, <4>4
    <3> QED BY <2>1, <3>3, <3>4, <3>5, <3>6, <3>7 DEF Iteration
  <2>2. CASE SendEvent
    <3>1. tx' \in {tx, Append(tx, "Event")} /\ tx \in Seq(Replies)
      BY <2>2 DEF SendEvent, WifiTypeOK, Replies
    <3>2. (Greeted(tx) => Greeted(tx')) /\ (HasReady(tx) => HasReady(tx'))
      BY <3>1 DEF Greeted, HasReady
    <3> QED BY <2>2, <3>2 DEF SendEvent, ReadyInv
  <2>3. CASE RadioChanges
    BY <2>3 DEF RadioChanges, device, tcp, ReadyInv
  <2>4. CASE ClientConnects
    BY <2>4 DEF ClientConnects, device, ReadyInv, Greeted
  <2>5. CASE ClientSends
    BY <2>5 DEF ClientSends, device, ReadyInv
  <2>6. CASE ClientLeaves
    BY <2>6 DEF ClientLeaves, device, ReadyInv
  <2>7. CASE ClientVanishes
    BY <2>7 DEF ClientVanishes, device, ReadyInv
  <2>8. CASE Reset
    BY <2>8 DEF Reset, Closed, device, ReadyInv
  <2>9. CASE Refused
    BY <2>9 DEF Refused, Closed, device, ReadyInv
  <2>10. CASE UNCHANGED wifiVars
    BY <2>10 DEF wifiVars, device, tcp, ReadyInv
  <2> QED BY <2>1, <2>2, <2>3, <2>4, <2>5, <2>6, <2>7, <2>8, <2>9, <2>10 DEF WifiNext
<1>3. WifiTypeOK /\ ReadyInv => ReadyBeforeReplies
  <2>1. WifiTypeOK => DOMAIN tx = 1 .. Len(tx)
    BY LenProperties DEF WifiTypeOK
  <2> QED BY <2>1 DEF ReadyInv, ReadyBeforeReplies, Greeted
<1> QED BY <1>1, <1>2, <1>3, WifiTyping, PTL DEF WifiSpec

-----------------------------------------------------------------------------
(* Order                                                                   *)

\* h has been handled, p is on its way, and n frames have been written: frames
\* appear in the order they were written, handled ones before those on the way.
InOrder(h, p, n) ==
    /\ \A i, j \in 1 .. Len(h) : i < j => h[i] < h[j]
    /\ \A i, j \in 1 .. Len(p) :
          i < j /\ p[i] # Terminator /\ p[j] # Terminator => p[i] < p[j]
    /\ \A i \in 1 .. Len(h), j \in 1 .. Len(p) : p[j] # Terminator => h[i] < p[j]
    /\ \A i \in 1 .. Len(h) : h[i] <= n
    /\ \A j \in 1 .. Len(p) : p[j] <= n

\* Dropping pieces from the front, as an overflow or a bad frame does, keeps order.
LEMMA LossKeepsOrder ==
    ASSUME NEW h \in Seq(Nat), NEW p \in Seq(Nat), NEW q \in Seq(Nat), NEW n \in Nat,
           InOrder(h, p, n), NEW d \in Nat, Suffix(q, p, d)
    PROVE  InOrder(h, q, n)
<1>1. \A i \in 1 .. Len(q) : i + d \in 1 .. Len(p) /\ q[i] = p[i + d]
  BY LenProperties DEF Suffix
<1>2. ASSUME NEW i \in 1 .. Len(q), NEW j \in 1 .. Len(q), i < j,
             q[i] # Terminator, q[j] # Terminator
      PROVE  q[i] < q[j]
  <2>1. i + d < j + d
    BY <1>2
  <2> QED BY <1>1, <1>2, <2>1 DEF InOrder
<1>3. ASSUME NEW i \in 1 .. Len(h), NEW j \in 1 .. Len(q), q[j] # Terminator
      PROVE  h[i] < q[j]
  BY <1>1, <1>3 DEF InOrder
<1>4. \A j \in 1 .. Len(q) : q[j] <= n
  BY <1>1 DEF InOrder
<1> QED BY <1>2, <1>3, <1>4 DEF InOrder

\* Handling the first piece on its way and leaving a later suffix keeps order.
LEMMA HandlingKeepsOrder ==
    ASSUME NEW h \in Seq(Nat), NEW p \in Seq(Nat), NEW q \in Seq(Nat), NEW n \in Nat,
           InOrder(h, p, n), NEW d \in Nat \ {0}, Suffix(q, p, d), p[1] # Terminator
    PROVE  InOrder(Append(h, p[1]), q, n)
<1>1. InOrder(h, q, n)
  BY LossKeepsOrder
<1>2. /\ \A i \in 1 .. Len(q) : i + d \in 1 .. Len(p) /\ q[i] = p[i + d] /\ 1 < i + d
      /\ 1 \in 1 .. Len(p)
  BY LenProperties DEF Suffix
<1> DEFINE first == p[1]
           g == Append(h, first)
<1>3. first \in Nat /\ first <= n /\ \A i \in 1 .. Len(h) : h[i] < first
  BY <1>2 DEF InOrder
<1>4. \A j \in 1 .. Len(q) : q[j] # Terminator => first < q[j]
  BY <1>2 DEF InOrder
<1> HIDE DEF first
<1>5. /\ Len(g) = Len(h) + 1 /\ g[Len(h) + 1] = first /\ Len(h) \in Nat
      /\ \A i \in 1 .. Len(h) : g[i] = h[i]
  BY <1>3
<1> HIDE DEF g
<1>6. \A i \in 1 .. Len(g) : i \in 1 .. Len(h) \/ i = Len(h) + 1
  BY <1>5
<1>7. ASSUME NEW i \in 1 .. Len(g), NEW j \in 1 .. Len(g), i < j PROVE g[i] < g[j]
  <2>1. i \in 1 .. Len(h) /\ g[i] = h[i]
    BY <1>5, <1>7
  <2>2. CASE j \in 1 .. Len(h)
    BY <2>1, <2>2, <1>1, <1>5, <1>7 DEF InOrder
  <2>3. CASE j = Len(h) + 1
    BY <2>1, <2>3, <1>3, <1>5
  <2> QED BY <2>2, <2>3, <1>6
<1>8. \A i \in 1 .. Len(g), j \in 1 .. Len(q) : q[j] # Terminator => g[i] < q[j]
  BY <1>1, <1>4, <1>5, <1>6 DEF InOrder
<1>9. \A i \in 1 .. Len(g) : g[i] <= n
  BY <1>1, <1>3, <1>5, <1>6 DEF InOrder
<1> QED BY <1>1, <1>7, <1>8, <1>9 DEF InOrder, g, first

\* Writing one more frame, with a number not used before, keeps order.
LEMMA WritingKeepsOrder ==
    ASSUME NEW h \in Seq(Nat), NEW p \in Seq(Nat), NEW n \in Nat, InOrder(h, p, n),
           NEW e \in {<<n + 1>>, <<n + 1, Terminator>>}
    PROVE  InOrder(h, p \o e, n + 1)
<1> DEFINE q == p \o e
<1>1. /\ Len(q) \in Nat /\ Len(p) \in Nat /\ Len(p) + 1 <= Len(q) /\ Len(q) <= Len(p) + 2
      /\ \A i \in 1 .. Len(p) : q[i] = p[i]
      /\ q[Len(p) + 1] = n + 1
      /\ Len(q) = Len(p) + 2 => q[Len(p) + 2] = Terminator
  <2>1. CASE e = <<n + 1>>
    BY <2>1
  <2>2. CASE e = <<n + 1, Terminator>>
    <3> DEFINE m == n + 1
    <3>1. m \in Nat /\ Terminator \in Nat
      BY DEF Terminator
    <3> HIDE DEF m
    <3>2. /\ <<m, Terminator>> \in Seq(Nat) /\ Len(<<m, Terminator>>) = 2
          /\ <<m, Terminator>>[1] = m /\ <<m, Terminator>>[2] = Terminator
      BY <3>1
    <3>3. q = p \o <<m, Terminator>>
      BY <2>2 DEF m
    <3> DEFINE w == <<m, Terminator>>
    <3> HIDE DEF w
    <3>4. w \in Seq(Nat) /\ Len(w) = 2 /\ w[1] = m /\ w[2] = Terminator /\ q = p \o w
      BY <3>2, <3>3 DEF w
    <3> HIDE DEF q
    <3>5. /\ Len(q) = Len(p) + Len(w)
          /\ \A i \in 1 .. Len(p) : q[i] = p[i]
          /\ \A i \in Len(p) + 1 .. Len(p) + Len(w) : q[i] = w[i - Len(p)]
      BY <3>4, ConcatAt
    <3>6. Len(p) \in Nat
      BY LenProperties
    <3> DEFINE j == Len(p) + 1
               k == Len(p) + 2
    <3>7. /\ j \in Len(p) + 1 .. Len(p) + Len(w) /\ j - Len(p) = 1
          /\ k \in Len(p) + 1 .. Len(p) + Len(w) /\ k - Len(p) = 2
      BY <3>4, <3>6
    <3> HIDE DEF j, k
    <3>8. q[j] = w[1] /\ q[k] = w[2]
      BY <3>5, <3>7
    <3> QED BY <3>4, <3>5, <3>6, <3>8 DEF m, j, k
  <2> QED BY <2>1, <2>2
<1> HIDE DEF q
<1>2. \A i \in 1 .. Len(q) : \/ i \in 1 .. Len(p)
                             \/ i = Len(p) + 1
                             \/ i = Len(p) + 2 /\ q[i] = Terminator
  BY <1>1
<1>3. \A i \in 1 .. Len(p) : p[i] \in Nat /\ p[i] <= n
  BY DEF InOrder
<1>4. ASSUME NEW i \in 1 .. Len(q), NEW j \in 1 .. Len(q), i < j,
             q[i] # Terminator, q[j] # Terminator
      PROVE  q[i] < q[j]
  <2>1. i \in 1 .. Len(p) /\ q[i] = p[i]
    BY <1>1, <1>2, <1>4
  <2>2. CASE j \in 1 .. Len(p)
    BY <2>1, <2>2, <1>1, <1>4 DEF InOrder
  <2>3. CASE j = Len(p) + 1
    BY <2>1, <2>3, <1>1, <1>3
  <2> QED BY <2>2, <2>3, <1>2, <1>4
<1>5. \A i \in 1 .. Len(h) : h[i] \in Nat /\ h[i] <= n
  BY DEF InOrder
<1>6. ASSUME NEW i \in 1 .. Len(h), NEW j \in 1 .. Len(q), q[j] # Terminator
      PROVE  h[i] < q[j]
  <2>1. CASE j \in 1 .. Len(p)
    BY <2>1, <1>1, <1>6 DEF InOrder
  <2>2. CASE j = Len(p) + 1
    BY <2>2, <1>1, <1>5
  <2> QED BY <2>1, <2>2, <1>2, <1>6
<1>7. \A j \in 1 .. Len(q) : q[j] <= n + 1
  BY <1>1, <1>2, <1>3 DEF Terminator
<1>8. \A i \in 1 .. Len(h) : h[i] <= n + 1
  BY <1>5
<1> QED BY <1>4, <1>6, <1>7, <1>8 DEF InOrder, q

OrderInv == InOrder(handled, decoder \o rx, spent.frames)

\* Losing what was to be read loses a part of what is on its way.
LEMMA EmptyingKeepsOrder ==
    ASSUME WifiTypeOK, OrderInv
    PROVE  InOrder(handled, decoder \o <<>>, spent.frames)
<1>1. /\ decoder \in Seq(Nat) /\ rx \in Seq(Nat)
  BY BoundsAssumption DEF WifiTypeOK, Pieces
<1>2. /\ decoder \o <<>> = decoder
      /\ Len(decoder \o rx) = Len(decoder) + Len(rx)
      /\ Len(decoder) \in Nat /\ Len(rx) \in Nat
      /\ \A i \in 1 .. Len(decoder) : (decoder \o rx)[i] = decoder[i]
  BY <1>1, ConcatAt, ConcatEmptySeq, LenProperties
<1> QED BY <1>2 DEF OrderInv, InOrder

\* Frames are handled in the order they were written and at most once, whatever
\* the reads cut, the decoder drops and the clients leave unfinished.
THEOREM OrderSafety == WifiSpec => []HandledInOrder
<1>1. WifiInit => OrderInv
  <2> SUFFICES ASSUME WifiInit PROVE OrderInv
    OBVIOUS
  <2>1. handled = <<>> /\ decoder \o rx = <<>>
    BY DEF WifiInit
  <2>2. Len(handled) = 0 /\ Len(decoder \o rx) = 0
    BY <2>1
  <2> QED BY <2>2 DEF OrderInv, InOrder
<1>2. WifiTypeOK /\ OrderInv /\ [WifiNext]_wifiVars => OrderInv'
  <2> SUFFICES ASSUME WifiTypeOK, OrderInv, [WifiNext]_wifiVars PROVE OrderInv'
    OBVIOUS
  <2>0. /\ handled \in Seq(Nat) /\ decoder \in Seq(Nat) /\ rx \in Seq(Nat)
        /\ decoder \o rx \in Seq(Nat) /\ spent.frames \in Nat
    BY ConcatAt, BoundsAssumption DEF WifiTypeOK, Pieces
  <2>1. CASE Iteration
    <3>1. spent' = spent
      BY <2>1 DEF Iteration
    <3>2. CASE UNCHANGED <<handled, decoder, rx>>
      BY <3>1, <3>2 DEF OrderInv
    <3>3. CASE PollActive /\ rx # <<>>
      <4>1. PICK n \in 1 .. Len(rx) :
               LET next == NextFrame(Push(decoder, SubSeq(rx, 1, n))) IN
               /\ rx' = SubSeq(rx, n + 1, Len(rx))
               /\ decoder' = next.rest
               /\ IF next.msg = NoMessage THEN NoAnswer ELSE Answer(next.msg)
        BY <3>3 DEF PollActive
      <4> DEFINE next == NextFrame(Push(decoder, SubSeq(rx, 1, n)))
                 p == decoder \o rx
                 q == decoder' \o rx'
      <4>2. MaxFrames \in Nat /\ decoder \in Seq(0 .. MaxFrames) /\ rx \in Seq(0 .. MaxFrames)
        BY BoundsAssumption DEF WifiTypeOK, Pieces
      <4>3. PICK d \in Nat :
               /\ Suffix(q, p, d)
               /\ next.msg # NoMessage => d > 0 /\ next.msg = p[1]
        BY <4>1, <4>2, PollTakesFromFront
      <4>4. q \in Seq(Nat)
        <5>1. next.rest \in Seq(Nat)
          BY <4>2, PollTakesFromFront
        <5>2. SubSeq(rx, n + 1, Len(rx)) \in Seq(Nat)
          <6>1. n \in 0 .. Len(rx)
            OBVIOUS
          <6> QED BY <6>1, <2>0, SuffixProperties
        <5> HIDE DEF next
        <5> QED BY <4>1, <5>1, <5>2, ConcatAt DEF next
      <4>5. InOrder(handled, p, spent.frames) /\ p \in Seq(Nat)
        BY <2>0 DEF OrderInv
      <4> HIDE DEF next, p, q
      <4>6. CASE next.msg = NoMessage
        <5>1. handled' = handled
          BY <4>1, <4>6 DEF NoAnswer, next
        <5>2. InOrder(handled, q, spent.frames)
          BY <4>3, <4>4, <4>5, <2>0, LossKeepsOrder
        <5> QED BY <5>1, <5>2, <3>1 DEF OrderInv, q
      <4>7. CASE next.msg # NoMessage
        <5>1. handled' = Append(handled, next.msg)
          BY <4>1, <4>7 DEF Answer, next
        <5>2. d \in Nat \ {0} /\ next.msg = p[1] /\ p[1] # Terminator
          BY <4>3, <4>7 DEF NoMessage, Terminator
        <5>3. InOrder(Append(handled, p[1]), q, spent.frames)
          BY <4>3, <4>4, <4>5, <5>2, <2>0, HandlingKeepsOrder
        <5> QED BY <5>1, <5>2, <5>3, <3>1 DEF OrderInv, q
      <4> QED BY <4>6, <4>7
    <3>4. CASE PollActive /\ rx = <<>>
      BY <3>2, <3>4 DEF PollActive, Quiet, NoAnswer
    <3>5. CASE PollConnecting \/ PollWaitingForIp \/ PollListening \/ PollEnded
      BY <3>2, <3>5 DEF PollConnecting, PollWaitingForIp, PollListening, PollEnded,
                        Quiet, NoAnswer
    <3> QED BY <2>1, <3>3, <3>4, <3>5 DEF Iteration
  <2>2. CASE SendEvent
    BY <2>2, <2>0 DEF SendEvent, OrderInv, WifiTypeOK
  <2>3. CASE RadioChanges
    BY <2>3 DEF RadioChanges, device, tcp, OrderInv
  <2>4. CASE ClientConnects
    <3>1. /\ handled' = handled /\ decoder' = decoder /\ rx' = <<>>
          /\ spent'.frames = spent.frames
      BY <2>4 DEF ClientConnects, device, WifiTypeOK
    <3> QED BY <3>1, EmptyingKeepsOrder DEF OrderInv
  <2>5. CASE ClientSends
    <3> DEFINE e == <<spent.frames + 1, Terminator>>
    <3>1. /\ handled' = handled /\ decoder' = decoder /\ rx' = rx \o e
          /\ spent'.frames = spent.frames + 1
      BY <2>5 DEF ClientSends, device, Encode, WifiTypeOK
    <3>2. e \in Seq(Nat)
      BY <2>0 DEF Terminator
    <3>3. InOrder(handled, (decoder \o rx) \o e, spent.frames + 1)
      BY <2>0, WritingKeepsOrder DEF OrderInv
    <3> HIDE DEF e
    <3>4. (decoder \o rx) \o e = decoder \o (rx \o e)
      <4>1. decoder \in Seq(Nat)
        BY <2>0
      <4>2. rx \in Seq(Nat)
        BY <2>0
      <4> QED BY ONLY <4>1, <4>2, <3>2
    <3> QED BY <3>1, <3>3, <3>4 DEF OrderInv
  <2>6. CASE ClientLeaves
    <3>1. handled' = handled /\ decoder' = decoder
      BY <2>6 DEF ClientLeaves, device
    <3>2. CASE UNCHANGED <<rx, spent>>
      BY <3>1, <3>2 DEF OrderInv
    <3>3. CASE /\ spent' = [spent EXCEPT !.frames = @ + 1]
               /\ rx' = Append(rx, spent.frames + 1)
      <4> DEFINE e == <<spent.frames + 1>>
      <4>1. e \in Seq(Nat) /\ rx' = rx \o e
        BY <2>0, <3>3, AppendIsConcat
      <4>2. spent'.frames = spent.frames + 1
        BY <3>3 DEF WifiTypeOK
      <4>3. InOrder(handled, (decoder \o rx) \o e, spent.frames + 1)
        BY <2>0, WritingKeepsOrder DEF OrderInv
      <4> HIDE DEF e
      <4>4. (decoder \o rx) \o e = decoder \o (rx \o e)
        <5>1. decoder \in Seq(Nat) /\ rx \in Seq(Nat)
          BY <2>0
        <5> QED BY ONLY <4>1, <5>1
      <4> QED BY <3>1, <4>1, <4>2, <4>3, <4>4 DEF OrderInv
    <3> QED BY <2>6, <3>2, <3>3 DEF ClientLeaves
  <2>7. CASE ClientVanishes
    BY <2>7 DEF ClientVanishes, device, OrderInv
  <2>8. CASE Reset \/ Refused
    <3>1. /\ handled' = handled /\ decoder' = decoder /\ rx' = <<>> /\ spent' = spent
      BY <2>8 DEF Reset, Refused, Closed, device
    <3> QED BY <3>1, EmptyingKeepsOrder DEF OrderInv
  <2>9. CASE UNCHANGED wifiVars
    BY <2>9 DEF wifiVars, device, tcp, OrderInv
  <2> QED BY <2>1, <2>2, <2>3, <2>4, <2>5, <2>6, <2>7, <2>8, <2>9 DEF WifiNext
<1>3. WifiTypeOK /\ OrderInv => HandledInOrder
  <2>1. WifiTypeOK => DOMAIN handled = 1 .. Len(handled)
    BY LenProperties DEF WifiTypeOK, Pieces
  <2> QED BY <2>1 DEF OrderInv, InOrder, HandledInOrder
<1> QED BY <1>1, <1>2, <1>3, WifiTyping, PTL DEF WifiSpec
=============================================================================
