------------------------ MODULE EventPipelineProofs ------------------------
(***************************************************************************)
(* Proofs about the live stream of EventPipeline, for any number of        *)
(* events, any caps, and any lost publishes, frames and sockets.           *)
(***************************************************************************)
EXTENDS EventPipeline, FiniteSetTheorems, WellFoundedInduction, TLAPS

\* Places in the run's stream, and the socket's cursor, which is ahead of what
\* the browser saw only after a lost frame.
Places ==
  /\ next \in Nat \ {0}
  /\ live \in SUBSET Nat /\ \A e \in live : e < next
  /\ cursor \in Nat /\ cursor < next
  /\ open \in BOOLEAN
  /\ seen \in Seq(Nat)
  /\ \A i \in DOMAIN seen : seen[i] < next /\ (open => seen[i] <= cursor)

\* While the socket is open, nothing that is still there lies between the last
\* frame and the cursor.
NothingBetween ==
  open /\ seen # <<>> => \A e \in live : e > Last(seen) => e > cursor

BrowserInv == Places /\ NothingBetween /\ NoGap

\* The next frame is the oldest entry behind the cursor: of the initial segments
\* 0 .. x, finite sets, one is minimal for inclusion.
LEMMA MinIsLeast ==
  ASSUME NEW S \in SUBSET Nat, S # {}
  PROVE  Min(S) \in S /\ \A e \in S : Min(S) <= e
<1> DEFINE Segments == {0 .. x : x \in S}
<1>1. Segments # {}
  OBVIOUS
<1>2. Segments \subseteq FiniteSubsetsOf(Nat)
  <2>1. ASSUME NEW x \in S PROVE 0 .. x \in FiniteSubsetsOf(Nat)
    <3>1. IsFiniteSet(0 .. x)
      BY FS_Interval
    <3> QED
      BY <3>1 DEF FiniteSubsetsOf
  <2> QED
    BY <2>1
<1>3. PICK s \in Segments : \A t \in Segments : <<t, s>> \notin StrictSubsetOrdering(Nat)
  BY <1>1, <1>2, FS_StrictSubsetOrderingWellFounded, WFMin
<1>4. PICK x \in S : s = 0 .. x
  OBVIOUS
<1>5. ASSUME NEW y \in S PROVE x <= y
  <2> SUFFICES ASSUME y < x PROVE FALSE
    OBVIOUS
  <2>1. 0 .. y \in Segments
    OBVIOUS
  <2>2. 0 .. y \subseteq 0 .. x /\ x \in 0 .. x /\ x \notin 0 .. y
    OBVIOUS
  <2>3. 0 .. y \in SUBSET Nat /\ 0 .. x \in SUBSET Nat
    OBVIOUS
  <2>4. <<0 .. y, 0 .. x>> \in StrictSubsetOrdering(Nat)
    BY <2>2, <2>3 DEF StrictSubsetOrdering
  <2> QED
    BY <1>3, <1>4, <2>1, <2>4
<1> QED
  BY <1>5 DEF Min

\* A sequence is its elements by place.
LEMMA Shape ==
  ASSUME NEW s \in Seq(Nat)
  PROVE  /\ Len(s) \in Nat /\ DOMAIN s = 1 .. Len(s)
         /\ \A i \in 1 .. Len(s) : s[i] \in Nat
         /\ s # <<>> => Len(s) \in DOMAIN s /\ 1 \in DOMAIN s
                        /\ Last(s) = s[Len(s)] /\ Last(s) \in Nat
<1>1. s # <<>> => Len(s) >= 1
  OBVIOUS
<1> QED
  BY <1>1 DEF Last

LEMMA BrowserStarts == Init => BrowserInv
BY DEF Init, BrowserInv, Places, NothingBetween, NoGap, ToSet, Last

LEMMA PublishStep == BrowserInv /\ Publish => BrowserInv'
<1> SUFFICES ASSUME BrowserInv, Publish PROVE BrowserInv'
  OBVIOUS
<1> USE DEF BrowserInv, Places
<1>1. next' = next + 1 /\ UNCHANGED <<cursor, open, seen>>
  BY DEF Publish, browser
<1>2. \A e \in live' : e \in live \/ e = next
  BY DEF Publish, Newest
<1>3. seen # <<>> => Last(seen) \in Nat /\ Last(seen) < next
  BY Shape
<1>4. Places'
  <2>1. ASSUME NEW e \in live' PROVE e \in Nat /\ e < next'
    <3>1. CASE e \in live
      BY <1>1, <3>1
    <3>2. CASE e = next
      BY <1>1, <3>2
    <3> QED
      BY <1>2, <3>1, <3>2
  <2>2. \A i \in DOMAIN seen : seen[i] \in Nat
    BY Shape
  <2> QED
    BY <1>1, <2>1, <2>2
<1>5. NothingBetween'
  BY <1>1, <1>2 DEF NothingBetween
<1>6. NoGap'
  <2>1. ASSUME seen # <<>>, NEW e \in live', seen[1] <= e, e <= Last(seen)
        PROVE  e \in ToSet(seen)
    <3>1. e \in live
      BY <1>2, <1>3, <2>1
    <3> QED
      BY <2>1, <3>1 DEF NoGap
  <2> QED
    BY <1>1, <2>1 DEF NoGap
<1> QED
  BY <1>4, <1>5, <1>6

LEMMA FrameStep == BrowserInv /\ Frame => BrowserInv'
<1> SUFFICES ASSUME BrowserInv, Frame PROVE BrowserInv'
  OBVIOUS
<1> USE DEF BrowserInv, Places
<1>1. /\ open /\ open' = open /\ next' = next /\ live' = live
      /\ cursor' = Min(Unsent) /\ seen' = Append(seen, cursor')
  BY DEF Frame, streams
<1>2. Unsent \in SUBSET Nat /\ Unsent # {}
  BY Zenon DEF Frame, Unsent
<1>3. cursor' \in Unsent /\ \A e \in Unsent : cursor' <= e
  BY <1>1, <1>2, MinIsLeast
<1>4. /\ cursor' \in live /\ cursor' > cursor
      /\ \A e \in live : e > cursor => cursor' <= e
  BY <1>3 DEF Unsent
<1>5. /\ cursor' \in Nat /\ cursor' < next
      /\ DOMAIN seen = 1 .. Len(seen) /\ Len(seen) \in Nat
      /\ \A i \in 1 .. Len(seen) : seen[i] \in Nat /\ seen[i] < cursor'
  BY <1>1, <1>4, Shape
<1>6. /\ seen' \in Seq(Nat) /\ Len(seen') = Len(seen) + 1
      /\ DOMAIN seen' = 1 .. Len(seen) + 1
      /\ seen'[Len(seen) + 1] = cursor'
      /\ \A i \in 1 .. Len(seen) : seen'[i] = seen[i]
  BY <1>1, <1>5
<1>7. Last(seen') = cursor' /\ seen' # <<>>
  BY <1>5, <1>6 DEF Last
<1>8. \A i \in DOMAIN seen' : i = Len(seen) + 1 \/ i \in 1 .. Len(seen)
  BY <1>5, <1>6
<1>9. \A i \in DOMAIN seen' : seen'[i] <= cursor'
  BY <1>5, <1>6, <1>8, SMTT(30)
<1>10. Places'
  BY <1>1, <1>5, <1>6, <1>9
<1>11. NothingBetween'
  BY <1>1, <1>7 DEF NothingBetween
<1>12. ASSUME NEW i \in DOMAIN seen', NEW j \in DOMAIN seen', i < j
       PROVE  seen'[i] < seen'[j]
  <2>1. i \in 1 .. Len(seen)
    BY <1>5, <1>6, <1>12
  <2>2. CASE j = Len(seen) + 1
    BY <1>5, <1>6, <2>1, <2>2
  <2>3. CASE j \in 1 .. Len(seen)
    BY <1>5, <1>6, <1>12, <2>1, <2>3 DEF NoGap
  <2> QED
    BY <1>8, <2>2, <2>3
<1>13. \A e \in ToSet(seen) : e \in ToSet(seen')
  <2>1. ASSUME NEW i \in DOMAIN seen PROVE seen[i] \in ToSet(seen')
    <3>1. i \in DOMAIN seen' /\ seen'[i] = seen[i]
      BY <1>5, <1>6
    <3> QED
      BY <3>1, Zenon DEF ToSet
  <2> QED
    BY <2>1, Zenon DEF ToSet
<1>14. cursor' \in ToSet(seen')
  <2>1. Len(seen) + 1 \in DOMAIN seen'
    BY <1>5, <1>6
  <2>2. seen'[Len(seen) + 1] \in ToSet(seen')
    BY <2>1, Zenon DEF ToSet
  <2> QED
    BY <1>6, <2>2
<1>15. ASSUME NEW e \in live', seen'[1] <= e, e <= Last(seen') PROVE e \in ToSet(seen')
  <2>1. e \in live /\ e \in Nat /\ e <= cursor'
    BY <1>1, <1>7, <1>15
  <2>2. CASE seen = <<>>
    <3>1. seen'[1] = cursor'
      BY <1>6, <2>2
    <3>2. e = cursor'
      BY <1>5, <1>15, <2>1, <3>1
    <3> QED
      BY <1>14, <3>2
  <2>3. CASE seen # <<>>
    <3>1. seen'[1] = seen[1] /\ Last(seen) \in Nat
      BY <1>5, <1>6, <2>3, Shape
    <3>2. CASE e <= Last(seen)
      <4>1. e \in ToSet(seen)
        BY <1>15, <2>1, <2>3, <3>1, <3>2 DEF NoGap
      <4> QED
        BY <1>13, <4>1
    <3>3. CASE e > Last(seen)
      <4>1. e > cursor
        BY <1>1, <2>1, <2>3, <3>3 DEF NothingBetween
      <4>2. e = cursor'
        BY <1>4, <1>5, <2>1, <4>1
      <4> QED
        BY <1>14, <4>2
    <3> QED
      BY <2>1, <3>1, <3>2, <3>3
  <2> QED
    BY <2>2, <2>3
<1>16. NoGap'
  BY <1>12, <1>15 DEF NoGap
<1> QED
  BY <1>10, <1>11, <1>16

\* A lost frame moves the cursor of a socket that is gone; the next one starts
\* from the last frame seen.
LEMMA SocketStep == BrowserInv /\ (Drop \/ Reconnect) => BrowserInv'
<1> SUFFICES ASSUME BrowserInv, Drop \/ Reconnect PROVE BrowserInv'
  OBVIOUS
<1> USE DEF BrowserInv, Places
<1>1. next' = next /\ live' = live /\ seen' = seen
  BY DEF Drop, Reconnect, streams
<1>2. NoGap'
  BY <1>1 DEF NoGap
<1>3. CASE Drop
  <2>1. open' = FALSE /\ (cursor' = cursor \/ (Unsent # {} /\ cursor' = Min(Unsent)))
    BY <1>3 DEF Drop
  <2>2. cursor' \in Nat /\ cursor' < next
    <3>1. CASE cursor' = cursor
      BY <3>1
    <3>2. CASE Unsent # {} /\ cursor' = Min(Unsent)
      <4>1. Unsent \in SUBSET Nat
        BY Zenon DEF Unsent
      <4>2. cursor' \in Unsent
        BY <3>2, <4>1, MinIsLeast
      <4>3. cursor' \in live
        BY <4>2 DEF Unsent
      <4> QED
        BY <4>3
    <3> QED
      BY <2>1, <3>1, <3>2
  <2>3. Places'
    BY <1>1, <2>1, <2>2
  <2>4. NothingBetween'
    BY <2>1 DEF NothingBetween
  <2> QED
    BY <1>2, <2>3, <2>4
<1>4. CASE Reconnect
  <2>1. open' = TRUE /\ cursor' = IF seen = <<>> THEN 0 ELSE Last(seen)
    BY <1>4 DEF Reconnect
  <2>2. cursor' \in Nat /\ cursor' < next
    BY <2>1, Shape
  <2>3. \A i \in DOMAIN seen : seen[i] <= cursor'
    <3>1. ASSUME NEW i \in DOMAIN seen PROVE seen[i] <= cursor'
      <4>1. seen # <<>> /\ i \in 1 .. Len(seen) /\ Len(seen) \in DOMAIN seen
            /\ cursor' = seen[Len(seen)] /\ seen[i] \in Nat
        BY <2>1, Shape
      <4>2. i < Len(seen) => seen[i] < seen[Len(seen)]
        BY <4>1 DEF NoGap
      <4> QED
        BY <2>2, <4>1, <4>2, Shape
    <3> QED
      BY <3>1
  <2>4. Places'
    BY <1>1, <2>1, <2>2, <2>3
  <2>5. NothingBetween'
    BY <1>1, <2>1 DEF NothingBetween
  <2> QED
    BY <1>2, <2>4, <2>5
<1> QED
  BY <1>3, <1>4

LEMMA BrowserStep == BrowserInv /\ [Next]_vars => BrowserInv'
<1> SUFFICES ASSUME BrowserInv, [Next]_vars PROVE BrowserInv'
  OBVIOUS
<1>1. ASSUME NEW p \in Projectors, Work(p) \/ Trouble(p) PROVE UNCHANGED <<streams, browser>>
  BY <1>1 DEF Work, Trouble, ReadGroup, Persist, Ack, ReadLost, PersistFails, Stop
<1>2. CASE UNCHANGED <<streams, browser>> \/ UNCHANGED vars
  <2>1. UNCHANGED <<next, live, cursor, open, seen>>
    BY <1>2 DEF vars, streams, browser
  <2>2. Places'
    BY <2>1 DEF BrowserInv, Places
  <2>3. NothingBetween' /\ NoGap'
    BY <2>1 DEF BrowserInv, NothingBetween, NoGap
  <2> QED
    BY <2>2, <2>3 DEF BrowserInv
<1>3. CASE \E p \in Projectors : Work(p) \/ Trouble(p)
  BY <1>1, <1>2, <1>3
<1>4. CASE Publish
  BY <1>4, PublishStep
<1>5. CASE Frame
  BY <1>5, FrameStep
<1>6. CASE Drop \/ Reconnect
  BY <1>6, SocketStep
<1> QED
  BY <1>2, <1>3, <1>4, <1>5, <1>6 DEF Next

\* NoGap: the browser sees each event once and in order, and misses only what the
\* run's stream has trimmed (stream_run and the last_id a client comes back with).
THEOREM NoGapAlways == Spec => []NoGap
<1>1. BrowserInv /\ [Next]_vars => BrowserInv'
  BY BrowserStep
<1>2. BrowserInv => NoGap
  BY DEF BrowserInv
<1> QED
  BY BrowserStarts, <1>1, <1>2, PTL DEF Spec
=============================================================================
