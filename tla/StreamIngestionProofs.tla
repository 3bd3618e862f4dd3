------------------------ MODULE StreamIngestionProofs -------------------------
(***************************************************************************)
(* A leg of a streamed recording: what is kept of it is the window, and    *)
(* what is stored, answered and announced of it agree.                     *)
(***************************************************************************)
EXTENDS StreamIngestion, FiniteSetTheorems, SequenceTheorems, WellFoundedInduction, TLAPS

-----------------------------------------------------------------------------
(* Sorting.  That each set of numbered frames can be put in order is a     *)
(* matter of induction over its size: the frame with the greatest number   *)
(* comes last.  The induction is over a set of numbers.                    *)

\* Sets of natural numbers have a least element.
LEMMA Smallest ==
  ASSUME NEW S, S \subseteq Nat, S # {}
  PROVE  \E x \in S : \A y \in S : x <= y
<1>1. PICK x \in S : \A y \in S : <<y, x>> \notin OpToRel(<, Nat)
  BY NatLessThanWellFounded, WFMin
<1>2. \A y \in S : y < x => <<y, x>> \in OpToRel(<, Nat)
  BY DEF OpToRel
<1>3. x \in Nat /\ \A y \in S : y \in Nat /\ ~(y < x)
  BY <1>1, <1>2
<1> QED
  BY <1>3

\* What holds at 0 and is passed on holds of every natural number.
LEMMA SetInduction ==
  ASSUME NEW S, 0 \in S, \A n \in Nat : n \in S => n + 1 \in S
  PROVE  \A n \in Nat : n \in S
<1> SUFFICES ASSUME NEW n \in Nat, n \notin S PROVE FALSE
  OBVIOUS
<1> DEFINE T == {m \in Nat : m \notin S}
<1>1. T \subseteq Nat /\ T # {}
  OBVIOUS
<1>2. PICK m \in T : \A k \in T : m <= k
  BY <1>1, Smallest
<1>3. m # 0 /\ m - 1 \in Nat /\ m - 1 \notin T
  BY <1>2
<1> QED
  BY <1>2, <1>3

\* No two of the frames share a number.
Distinct(S) == \A f, g \in S : f.seq = g.seq => f = g

\* Some set of frames has a frame with the greatest number.
LEMMA LastFrame ==
  ASSUME NEW S, S \subseteq Frames, S # {}
  PROVE  \E f \in S : \A g \in S : g.seq <= f.seq
<1>1. MaxFrames \in Nat /\ \A f \in S : f.seq \in 1 .. MaxFrames
  BY StreamAssumption DEF Frames
<1> DEFINE T == {MaxFrames - f.seq : f \in S}
<1>2. \A f \in S : MaxFrames - f.seq \in Nat
  BY <1>1
<1>3. T \subseteq Nat /\ T # {}
  BY <1>2
<1>4. PICK x \in T : \A y \in T : x <= y
  BY <1>3, Smallest
<1>5. PICK f \in S : x = MaxFrames - f.seq
  BY <1>4
<1>6. ASSUME NEW g \in S PROVE g.seq <= f.seq
  <2>1. MaxFrames - f.seq <= MaxFrames - g.seq
    BY <1>4, <1>5
  <2> QED
    BY <1>1, <2>1
<1> QED
  BY <1>6

\* t is a sequence of the frames of S in the order of their numbers.
Sorts(t, S) ==
    /\ t \in [1 .. Cardinality(S) -> S]
    /\ ToSet(t) = S
    /\ ByNumber(t)

\* The frames without the last one in order, then the last one.
LEMMA SortOneMore ==
  ASSUME NEW S, S \subseteq Frames, IsFiniteSet(S), NEW f \in S,
         \A g \in S \ {f} : g.seq < f.seq,
         NEW n \in Nat, Cardinality(S) = n + 1, Cardinality(S \ {f}) = n,
         NEW t, Sorts(t, S \ {f})
  PROVE  Sorts([i \in 1 .. n + 1 |-> IF i = n + 1 THEN f ELSE t[i]], S)
<1> DEFINE u == [i \in 1 .. n + 1 |-> IF i = n + 1 THEN f ELSE t[i]]
<1>1. t \in [1 .. n -> S \ {f}] /\ ToSet(t) = S \ {f} /\ ByNumber(t)
  BY DEF Sorts
<1>2. DOMAIN t = 1 .. n /\ DOMAIN u = 1 .. n + 1 /\ u[n + 1] = f
  BY <1>1
<1>3. \A i \in 1 .. n : u[i] = t[i] /\ t[i] \in S \ {f}
  BY <1>1
<1>4. \A i \in 1 .. n + 1 : i = n + 1 \/ i \in 1 .. n
  OBVIOUS
<1>5. u \in [1 .. n + 1 -> S]
  BY <1>2, <1>3, <1>4
<1>6. ToSet(u) = S
  <2>1. ToSet(u) \subseteq S
    BY <1>5 DEF ToSet
  <2>2. ASSUME NEW g \in S PROVE g \in ToSet(u)
    <3>1. CASE g = f
      <4>1. n + 1 \in DOMAIN u
        BY <1>2
      <4> QED
        BY <1>2, <3>1, <4>1 DEF ToSet
    <3>2. CASE g # f
      <4>1. PICK i \in 1 .. n : g = t[i]
        BY <1>1, <1>2, <3>2 DEF ToSet
      <4>2. i \in DOMAIN u /\ u[i] = g
        BY <1>2, <1>3, <4>1
      <4> QED
        BY <4>2 DEF ToSet
    <3> QED
      BY <3>1, <3>2
  <2> QED
    BY <2>1, <2>2
<1>7. ByNumber(u)
  <2> SUFFICES ASSUME NEW i \in 1 .. n + 1, NEW j \in 1 .. n + 1, i < j
               PROVE  u[i].seq < u[j].seq
    BY <1>2 DEF ByNumber
  <2>1. i \in 1 .. n
    OBVIOUS
  <2>2. CASE j = n + 1
    BY <1>2, <1>3, <2>1, <2>2
  <2>3. CASE j \in 1 .. n
    <3>1. t[i].seq < t[j].seq
      BY <1>1, <1>2, <2>1, <2>3 DEF ByNumber
    <3> QED
      BY <1>3, <2>1, <2>3, <3>1
  <2> QED
    BY <1>4, <2>2, <2>3
<1> QED
  BY <1>5, <1>6, <1>7 DEF Sorts

\* Every finite set of frames with different numbers can be put in order.
LEMMA CanSort ==
  ASSUME NEW S, S \subseteq Frames, IsFiniteSet(S), Distinct(S)
  PROVE  \E t : Sorts(t, S)
<1> DEFINE Sortable(R) == \E t : Sorts(t, R)
           K == {n \in Nat : \A R \in SUBSET S : Cardinality(R) = n => Sortable(R)}
<1>1. 0 \in K
  <2> SUFFICES ASSUME NEW R \in SUBSET S, Cardinality(R) = 0 PROVE Sortable(R)
    OBVIOUS
  <2>1. R = {}
    BY FS_EmptySet, FS_Subset
  <2> DEFINE t == [i \in 1 .. 0 |-> i]
  <2>2. t \in [1 .. Cardinality(R) -> R] /\ DOMAIN t = {}
    OBVIOUS
  <2>3. Sorts(t, R)
    BY <2>1, <2>2 DEF Sorts, ToSet, ByNumber
  <2> QED
    BY <2>3
<1>2. ASSUME NEW n \in Nat, n \in K PROVE n + 1 \in K
  <2> SUFFICES ASSUME NEW R \in SUBSET S, Cardinality(R) = n + 1 PROVE Sortable(R)
    OBVIOUS
  <2>1. IsFiniteSet(R) /\ R # {}
    BY FS_EmptySet, FS_Subset
  <2>2. PICK f \in R : \A g \in R : g.seq <= f.seq
    BY <2>1, LastFrame
  <2>3. \A g \in R \ {f} : g.seq < f.seq
    <3> SUFFICES ASSUME NEW g \in R \ {f} PROVE g.seq < f.seq
      OBVIOUS
    <3>1. g.seq # f.seq
      BY DEF Distinct
    <3>2. g.seq \in Int /\ f.seq \in Int
      BY DEF Frames
    <3> QED
      BY <2>2, <3>1, <3>2
  <2>4. Cardinality(R \ {f}) = n
    <3>1. Cardinality(R \ {f}) = Cardinality(R) - 1
      <4> HIDE DEF K
      <4> QED
        BY <2>1, FS_RemoveElement
    <3> QED
      BY <3>1
  <2>5. PICK t : Sorts(t, R \ {f})
    BY <1>2, <2>4
  <2>6. Sorts([i \in 1 .. n + 1 |-> IF i = n + 1 THEN f ELSE t[i]], R)
    BY <2>1, <2>3, <2>4, <2>5, SortOneMore
  <2> QED
    BY <2>6
<1>3. \A n \in Nat : n \in K
  <2> HIDE DEF K
  <2> QED
    BY <1>1, <1>2, SetInduction
<1>4. Cardinality(S) \in Nat
  BY FS_CardinalityType
<1> QED
  BY <1>3, <1>4

\* So what Serialize writes is all the frames, in order.
LEMMA SerializeSorts ==
  ASSUME NEW S, S \subseteq Frames, IsFiniteSet(S), Distinct(S)
  PROVE  /\ Serialize(S) \in Seq(Frames)
         /\ ToSet(Serialize(S)) = S
         /\ ByNumber(Serialize(S))
<1>1. Cardinality(S) \in Nat
  BY FS_CardinalityType
<1>2. PICK t : Sorts(t, S)
  BY CanSort
<1>3. \E u \in [1 .. Cardinality(S) -> S] : ToSet(u) = S /\ ByNumber(u)
  BY <1>2 DEF Sorts
<1>4. /\ Serialize(S) \in [1 .. Cardinality(S) -> S]
      /\ ToSet(Serialize(S)) = S
      /\ ByNumber(Serialize(S))
  BY <1>3 DEF Serialize
<1>5. Serialize(S) \in Seq(S)
  BY <1>1, <1>4
<1>6. Serialize(S) \in Seq(Frames)
  BY <1>5, SeqMonotonic
<1> QED
  BY <1>4, <1>6

-----------------------------------------------------------------------------
(* The window                                                              *)

LEMMA EmptyWindow == InWindow(<<>>) = {}
BY DEF InWindow

\* Frame by frame, Add keeps what the window of the whole sequence keeps.
LEMMA WindowGrows ==
  ASSUME NEW s \in Seq(Frames), NEW f \in Frames
  PROVE  /\ InWindow(Append(s, f)) = AddFrame(InWindow(s), f)
         /\ f \in InWindow(Append(s, f))
<1> DEFINE t == Append(s, f)
           n == Len(s)
           Stays(u, i) == \A j \in i .. Len(u) : u[j].ts > 0 => u[i].ts >= u[j].ts - MaxAge
           Young(g) == f.ts > 0 => g.ts >= f.ts - MaxAge
<1>1. /\ n \in Nat
      /\ Len(t) = n + 1
      /\ t[n + 1] = f
      /\ \A i \in 1 .. n : t[i] = s[i]
      /\ DOMAIN s = 1 .. n
      /\ DOMAIN t = 1 .. n + 1
  BY AppendProperties, LenProperties
<1>2. MaxAge \in Nat /\ f.ts \in Nat
  BY StreamAssumption DEF Frames
<1>3. Young(f)
  BY <1>2
<1>4. Stays(t, n + 1)
  BY <1>1, <1>3
<1>5. ASSUME NEW i \in 1 .. n PROVE Stays(t, i) <=> Stays(s, i) /\ Young(s[i])
  <2>1. ASSUME Stays(t, i) PROVE Stays(s, i) /\ Young(s[i])
    <3>1. \A j \in i .. n : j \in i .. n + 1 /\ t[j] = s[j]
      BY <1>1
    <3>2. n + 1 \in i .. n + 1
      BY <1>1
    <3> QED
      BY <1>1, <2>1, <3>1, <3>2
  <2>2. ASSUME Stays(s, i), Young(s[i]) PROVE Stays(t, i)
    <3>1. \A j \in i .. n + 1 : j = n + 1 \/ (j \in i .. n /\ t[j] = s[j])
      BY <1>1
    <3> QED
      BY <1>1, <2>2, <3>1
  <2> QED
    BY <2>1, <2>2
<1>6. InWindow(t) = {t[i] : i \in {i \in 1 .. n + 1 : Stays(t, i)}}
  BY <1>1 DEF InWindow
<1>7. InWindow(s) = {s[i] : i \in {i \in 1 .. n : Stays(s, i)}}
  BY <1>1 DEF InWindow
<1>8. AddFrame(InWindow(s), f) = {g \in InWindow(s) \cup {f} : Young(g)}
  BY DEF AddFrame
<1> HIDE DEF t, n, Stays, Young
<1>9. ASSUME NEW g PROVE g \in InWindow(t) <=> g \in AddFrame(InWindow(s), f)
  <2>1. ASSUME g \in InWindow(t) PROVE g \in AddFrame(InWindow(s), f)
    <3>1. PICK i \in 1 .. n + 1 : Stays(t, i) /\ g = t[i]
      BY <1>6, <2>1
    <3>2. CASE i = n + 1
      BY <1>1, <1>3, <1>8, <3>1, <3>2
    <3>3. CASE i \in 1 .. n
      BY <1>1, <1>5, <1>7, <1>8, <3>1, <3>3
    <3> QED
      BY <1>1, <3>2, <3>3
  <2>2. ASSUME g \in AddFrame(InWindow(s), f) PROVE g \in InWindow(t)
    <3>1. CASE g = f
      <4>1. n + 1 \in 1 .. n + 1
        BY <1>1
      <4> QED
        BY <1>1, <1>4, <1>6, <3>1, <4>1
    <3>2. CASE g \in InWindow(s) /\ Young(g)
      <4>1. PICK i \in 1 .. n : Stays(s, i) /\ g = s[i]
        BY <1>7, <3>2
      <4>2. i \in 1 .. n + 1 /\ Stays(t, i) /\ g = t[i]
        BY <1>1, <1>5, <3>2, <4>1
      <4> QED
        BY <1>6, <4>2
    <3> QED
      BY <1>8, <2>2, <3>1, <3>2
  <2> QED
    BY <2>1, <2>2
<1>10. f \in InWindow(t)
  BY <1>1, <1>4, <1>6
<1> QED
  BY <1>9, <1>10 DEF t

\* No two places of the sequence share a number.
Numbered(s) == \A i, j \in DOMAIN s : s[i].seq = s[j].seq => i = j

\* The window is a finite set of frames with different numbers.
LEMMA WindowDistinct ==
  ASSUME NEW s \in Seq(Frames), Numbered(s)
  PROVE  InWindow(s) \subseteq Frames /\ IsFiniteSet(InWindow(s)) /\ Distinct(InWindow(s))
<1>1. DOMAIN s = 1 .. Len(s) /\ Len(s) \in Nat /\ \A i \in 1 .. Len(s) : s[i] \in Frames
  BY LenProperties, ElementOfSeq
<1> DEFINE A == {i \in DOMAIN s :
                    \A j \in i .. Len(s) : s[j].ts > 0 => s[i].ts >= s[j].ts - MaxAge}
           W == {s[i] : i \in A}
<1>2. A \subseteq 1 .. Len(s) /\ IsFiniteSet(1 .. Len(s))
  BY <1>1, FS_Interval
<1>3. IsFiniteSet(A)
  BY <1>2, FS_Subset
<1>4. InWindow(s) = W
  BY DEF InWindow
<1> HIDE DEF A
<1>5. IsFiniteSet(W)
  <2> DEFINE h == [i \in A |-> s[i]]
  <2>1. h \in Surjection(A, W)
    BY DEF Surjection
  <2> QED
    BY <1>3, <2>1, FS_Surjection
<1>6. W \subseteq Frames
  BY <1>1, <1>2
<1>7. Distinct(W)
  BY <1>1, <1>2 DEF Distinct, Numbered
<1> QED
  BY <1>4, <1>5, <1>6, <1>7

-----------------------------------------------------------------------------
(* The inductive invariant                                                 *)

\* The robot numbers its frames: no two have the same one.
NumbersInv ==
    /\ Numbered(received)
    /\ Numbered(wire)
    /\ \A i \in DOMAIN received, j \in DOMAIN wire : received[i].seq # wire[j].seq

\* What is being sealed is the window of all frames, in order.
KeptInv ==
    pc \in Sealing \cup {"sealed"} =>
        /\ received # <<>>
        /\ data # <<>>
        /\ ToSet(data) = InWindow(received)
        /\ ByNumber(data)

\* How far the seal has come, said by the handler's next call.
ProgressInv ==
    /\ pc \in {"select", "create", "put"} => object = <<>>
    /\ pc \in {"select", "create", "put", "update"} => ~path
    /\ pc \in {"select", "create", "put", "update", "publish"} => events = 0
    /\ pc \in {"put", "update", "publish", "sealed"} => row
    /\ pc \in {"update", "publish", "sealed"} => object = data
    /\ pc \in {"publish", "sealed"} => path
    /\ pc = "sealed" => events = 1 \/ failed
    /\ path => row /\ object # <<>>
    /\ events > 0 => path

\* Before the handler returns it has promised no episode and no error.
AcksInv ==
    pc # "ended" => \A i \in DOMAIN acks : ~acks[i].ep /\ acks[i].status = "ok"

\* The invariant.
StreamInv ==
    /\ TypeOK
    /\ NumbersInv
    /\ BufferIsWindow
    /\ KeptInv
    /\ ProgressInv
    /\ FileIsSortedWindow
    /\ AcksInv
    /\ FinalAckIsTrue
    /\ CleanEndIsSealed

LEMMA InitStream == Init => StreamInv
<1> SUFFICES ASSUME Init PROVE StreamInv
  OBVIOUS
<1>1. <<>> \in Seq(Frames) /\ <<>> \in Seq(Acks) /\ DOMAIN <<>> = {}
  BY EmptySeq
<1>2. TypeOK
  <2>1. 0 \in 0 .. 1 /\ {} \subseteq Frames
    OBVIOUS
  <2>2. pc \in {"select", "sealed", "ended"} \cup Sealing
    BY DEF Init
  <2> QED
    BY <1>1, <2>1, <2>2 DEF Init, TypeOK
<1>3. NumbersInv /\ AcksInv /\ FinalAckIsTrue
  BY <1>1 DEF Init, NumbersInv, Numbered, AcksInv, FinalAckIsTrue
<1>4. BufferIsWindow
  BY EmptyWindow DEF Init, BufferIsWindow
<1> QED
  BY <1>2, <1>3, <1>4 DEF Init, StreamInv, KeptInv, ProgressInv, FileIsSortedWindow,
       CleanEndIsSealed, Sealing

\* A received frame joins the window, and the numbers stay apart.
LEMMA Received ==
  ASSUME StreamInv, pc = "select", wire # <<>>,
         received' = Append(received, Head(wire)), wire' = Tail(wire)
  PROVE  /\ Head(wire) \in Frames
         /\ received' \in Seq(Frames) /\ received' # <<>>
         /\ wire' \in Seq(Frames)
         /\ NumbersInv'
         /\ InWindow(received') = AddFrame(buf, Head(wire))
         /\ InWindow(received') # {}
<1>1. received \in Seq(Frames) /\ wire \in Seq(Frames) /\ buf = InWindow(received)
  BY DEF StreamInv, TypeOK, BufferIsWindow
<1>2. PICK f : f = Head(wire)
  OBVIOUS
<1>3. /\ f \in Frames
      /\ Tail(wire) \in Seq(Frames)
      /\ Len(Tail(wire)) = Len(wire) - 1
      /\ \A i \in 1 .. Len(Tail(wire)) : Tail(wire)[i] = wire[i + 1]
      /\ f = wire[1]
      /\ Len(wire) \in Nat /\ Len(wire) # 0
  BY <1>1, <1>2, HeadTailProperties, LenProperties
<1>4. /\ received' \in Seq(Frames)
      /\ received' # <<>>
      /\ Len(received') = Len(received) + 1
      /\ \A i \in 1 .. Len(received) : received'[i] = received[i]
      /\ received'[Len(received) + 1] = f
  BY <1>1, <1>2, <1>3, AppendProperties
<1>5. /\ DOMAIN received = 1 .. Len(received) /\ Len(received) \in Nat
      /\ DOMAIN received' = 1 .. Len(received) + 1
      /\ DOMAIN wire = 1 .. Len(wire)
      /\ DOMAIN wire' = 1 .. Len(wire) - 1
  BY <1>1, <1>3, <1>4, LenProperties
<1>6. \A i \in DOMAIN wire' : i + 1 \in DOMAIN wire /\ i + 1 # 1 /\ wire'[i] = wire[i + 1]
  BY <1>3, <1>5
<1>7. \A i \in DOMAIN received' :
        \/ i \in DOMAIN received /\ received'[i] = received[i]
        \/ i = Len(received) + 1 /\ received'[i] = wire[1]
  BY <1>3, <1>4, <1>5
<1>8. 1 \in DOMAIN wire
  BY <1>3, <1>5
<1>9. NumbersInv
  BY DEF StreamInv
<1>10. Numbered(received)'
  BY <1>7, <1>8, <1>9 DEF NumbersInv, Numbered
<1>11. Numbered(wire)'
  <2> SUFFICES ASSUME NEW i \in DOMAIN wire', NEW j \in DOMAIN wire',
                      wire'[i].seq = wire'[j].seq
               PROVE  i = j
    BY DEF Numbered
  <2>1. i + 1 = j + 1
    BY <1>6, <1>9 DEF NumbersInv, Numbered
  <2> QED
    BY <1>5, <2>1
<1>12. \A i \in DOMAIN received', j \in DOMAIN wire' : received'[i].seq # wire'[j].seq
  BY <1>6, <1>7, <1>8, <1>9 DEF NumbersInv, Numbered
<1>13. InWindow(received') = AddFrame(buf, f) /\ f \in InWindow(received')
  BY <1>1, <1>2, <1>3, WindowGrows
<1> QED
  BY <1>1, <1>2, <1>3, <1>4, <1>10, <1>11, <1>12, <1>13 DEF NumbersInv

\* A seal begins with the whole window, in order.
LEMMA Sealed ==
  ASSUME received' \in Seq(Frames), Numbered(received)',
         InWindow(received') # {}, Seal(InWindow(received'))
  PROVE  KeptInv' /\ data' \in Seq(Frames) /\ buf' = {} /\ pc' = "create"
<1>1. PICK r : r = received'
  OBVIOUS
<1>2. PICK W : W = InWindow(r)
  OBVIOUS
<1>3. r \in Seq(Frames) /\ Numbered(r) /\ W # {} /\ data' = Serialize(W)
  BY <1>1, <1>2 DEF Seal, Numbered
<1>4. W \subseteq Frames /\ IsFiniteSet(W) /\ Distinct(W)
  BY <1>2, <1>3, WindowDistinct
<1>5. /\ Serialize(W) \in Seq(Frames)
      /\ ToSet(Serialize(W)) = W
      /\ ByNumber(Serialize(W))
  BY <1>4, SerializeSorts
<1>6. Serialize(W) # <<>>
  BY <1>3, <1>5 DEF ToSet
<1>7. r # <<>>
  BY <1>2, <1>3, EmptyWindow
<1>8. KeptInv'
  BY <1>1, <1>2, <1>3, <1>5, <1>6, <1>7 DEF KeptInv, ByNumber, ToSet
<1> QED
  BY <1>3, <1>5, <1>8 DEF Seal

\* An acknowledgement is added to those that were sent.
LEMMA AckAdds ==
  ASSUME acks \in Seq(Acks), NEW f \in Frames, NEW ep \in BOOLEAN,
         NEW status \in {"ok", "error"}, Ack(f, ep, status)
  PROVE  /\ acks' \in Seq(Acks)
         /\ \A i \in DOMAIN acks' :
              \/ i \in DOMAIN acks /\ acks'[i] = acks[i]
              \/ acks'[i].ep = ep /\ acks'[i].status = status
<1>1. PICK a : a = [seq |-> f.seq, ep |-> ep, status |-> status]
  OBVIOUS
<1>2. a \in Acks /\ a.ep = ep /\ a.status = status
  BY <1>1 DEF Acks, Frames
<1>3. acks' = Append(acks, a)
  BY <1>1 DEF Ack
<1>4. /\ acks' \in Seq(Acks)
      /\ Len(acks') = Len(acks) + 1
      /\ \A i \in 1 .. Len(acks) : acks'[i] = acks[i]
      /\ acks'[Len(acks) + 1] = a
  BY <1>2, <1>3, AppendProperties
<1>5. DOMAIN acks' = 1 .. Len(acks) + 1 /\ DOMAIN acks = 1 .. Len(acks) /\ Len(acks) \in Nat
  BY <1>4, LenProperties
<1> QED
  BY <1>2, <1>4, <1>5

\* The last frame that was received is one of the frames.
LEMMA LastReceived ==
  ASSUME TypeOK, received # <<>>
  PROVE  Last(received) \in Frames
BY LenProperties, ElementOfSeq, EmptySeq DEF TypeOK, Last

-----------------------------------------------------------------------------
(* The steps of the robot                                                  *)

LEMMA SendFrameStep == StreamInv /\ SendFrame => StreamInv'
<1> SUFFICES ASSUME StreamInv, SendFrame PROVE StreamInv'
  OBVIOUS
<1>1. PICK f \in Frames : f.seq \notin Used /\ wire' = Append(wire, f)
  BY DEF SendFrame
<1>2. UNCHANGED <<client, pc, received, buf, data, acks, episode, failed>>
  BY DEF SendFrame
<1>3. wire \in Seq(Frames) /\ NumbersInv
  BY DEF StreamInv, TypeOK
<1>4. /\ wire' \in Seq(Frames)
      /\ Len(wire') = Len(wire) + 1
      /\ \A i \in 1 .. Len(wire) : wire'[i] = wire[i]
      /\ wire'[Len(wire) + 1] = f
  BY <1>1, <1>3, AppendProperties
<1>5. DOMAIN wire' = 1 .. Len(wire) + 1 /\ DOMAIN wire = 1 .. Len(wire) /\ Len(wire) \in Nat
  BY <1>3, <1>4, LenProperties
<1>6. \A i \in DOMAIN wire' :
        \/ i \in DOMAIN wire /\ wire'[i] = wire[i]
        \/ i = Len(wire) + 1 /\ wire'[i] = f
  BY <1>4, <1>5
<1>7. /\ \A i \in DOMAIN wire : wire[i].seq # f.seq
      /\ \A i \in DOMAIN received : received[i].seq # f.seq
  BY <1>1 DEF Used
<1>8. Numbered(wire)'
  BY <1>3, <1>6, <1>7 DEF NumbersInv, Numbered
<1>9. NumbersInv'
  BY <1>2, <1>3, <1>6, <1>7, <1>8 DEF NumbersInv, Numbered
<1>10. TypeOK'
  BY <1>2, <1>4 DEF StreamInv, TypeOK, episode
<1> QED
  BY <1>2, <1>9, <1>10 DEF StreamInv, BufferIsWindow, KeptInv, ProgressInv, FileIsSortedWindow,
       AcksInv, FinalAckIsTrue, CleanEndIsSealed, episode

LEMMA CloseSendStep == StreamInv /\ CloseSend => StreamInv'
BY DEF StreamInv, CloseSend, TypeOK, NumbersInv, Numbered, BufferIsWindow, KeptInv, ProgressInv,
     FileIsSortedWindow, AcksInv, FinalAckIsTrue, CleanEndIsSealed, episode

LEMMA DisconnectStep == StreamInv /\ Disconnect => StreamInv'
<1> SUFFICES ASSUME StreamInv, Disconnect PROVE StreamInv'
  OBVIOUS
<1>1. wire' = <<>> /\ client' = "gone"
      /\ UNCHANGED <<pc, received, buf, data, acks, episode, failed>>
  BY DEF Disconnect
<1>2. <<>> \in Seq(Frames) /\ DOMAIN <<>> = {}
  BY EmptySeq
<1>3. TypeOK'
  BY <1>1, <1>2 DEF StreamInv, TypeOK, episode
<1>4. NumbersInv'
  BY <1>1, <1>2 DEF StreamInv, NumbersInv, Numbered
<1> QED
  BY <1>1, <1>3, <1>4 DEF StreamInv, BufferIsWindow, KeptInv, ProgressInv, FileIsSortedWindow,
       AcksInv, FinalAckIsTrue, CleanEndIsSealed, episode

-----------------------------------------------------------------------------
(* The steps of the handler                                                *)

\* A frame is buffered and acknowledged.
LEMMA ReceiveFrameStep == StreamInv /\ ReceiveFrame => StreamInv'
<1> SUFFICES ASSUME StreamInv, ReceiveFrame PROVE StreamInv'
  OBVIOUS
<1>1. /\ pc = "select" /\ wire # <<>>
      /\ received' = Append(received, Head(wire)) /\ wire' = Tail(wire)
      /\ buf' = AddFrame(buf, Head(wire))
      /\ Ack(Head(wire), FALSE, "ok")
      /\ UNCHANGED <<client, pc, data, episode, failed>>
  BY DEF ReceiveFrame
<1>2. /\ Head(wire) \in Frames
      /\ received' \in Seq(Frames)
      /\ wire' \in Seq(Frames)
      /\ NumbersInv'
      /\ InWindow(received') = buf'
  BY <1>1, Received
<1>3. acks \in Seq(Acks) /\ buf \subseteq Frames
  BY DEF StreamInv, TypeOK
<1>4. /\ acks' \in Seq(Acks)
      /\ \A i \in DOMAIN acks' :
           \/ i \in DOMAIN acks /\ acks'[i] = acks[i]
           \/ acks'[i].ep = FALSE /\ acks'[i].status = "ok"
  BY <1>1, <1>2, <1>3, AckAdds
<1>5. buf' \subseteq Frames
  BY <1>1, <1>2, <1>3 DEF AddFrame
<1>6. TypeOK'
  BY <1>1, <1>2, <1>4, <1>5 DEF StreamInv, TypeOK, episode
<1>7. BufferIsWindow'
  BY <1>2 DEF BufferIsWindow, InWindow
<1>8. AcksInv' /\ FinalAckIsTrue'
  BY <1>1, <1>4 DEF StreamInv, AcksInv, FinalAckIsTrue, episode
<1> QED
  BY <1>1, <1>2, <1>6, <1>7, <1>8 DEF StreamInv, KeptInv, ProgressInv, FileIsSortedWindow,
       CleanEndIsSealed, episode, Sealing

\* The handler gives up on a frame it has buffered.
LEMMA AckFailsStep == StreamInv /\ AckFails => StreamInv'
<1> SUFFICES ASSUME StreamInv, AckFails PROVE StreamInv'
  OBVIOUS
<1>1. /\ pc = "select" /\ wire # <<>>
      /\ received' = Append(received, Head(wire)) /\ wire' = Tail(wire)
      /\ buf' = AddFrame(buf, Head(wire))
      /\ pc' = "ended" /\ failed' = TRUE
      /\ UNCHANGED <<client, data, acks, episode>>
  BY DEF AckFails
<1>2. /\ Head(wire) \in Frames
      /\ received' \in Seq(Frames)
      /\ wire' \in Seq(Frames)
      /\ NumbersInv'
  BY <1>1, Received
<1>3. buf' \subseteq Frames
  BY <1>1, <1>2 DEF AddFrame, StreamInv, TypeOK
<1>4. TypeOK'
  BY <1>1, <1>2, <1>3 DEF StreamInv, TypeOK, episode
<1> QED
  BY <1>1, <1>2, <1>4 DEF StreamInv, BufferIsWindow, KeptInv, ProgressInv, FileIsSortedWindow,
       AcksInv, FinalAckIsTrue, CleanEndIsSealed, episode, Sealing

\* Whatever comes before it, a seal begins alike.
LEMMA SealBegins ==
  ASSUME StreamInv, pc = "select",
         received' \in Seq(Frames), wire' \in Seq(Frames), NumbersInv',
         InWindow(received') # {}, Seal(InWindow(received')),
         UNCHANGED <<client, acks, episode, failed>>
  PROVE  StreamInv'
<1>1. KeptInv' /\ data' \in Seq(Frames) /\ buf' = {} /\ pc' = "create"
  BY Sealed DEF NumbersInv
<1>2. TypeOK'
  BY <1>1 DEF StreamInv, TypeOK, episode, Sealing
<1> QED
  BY <1>1, <1>2 DEF StreamInv, BufferIsWindow, ProgressInv, FileIsSortedWindow,
       AcksInv, FinalAckIsTrue, CleanEndIsSealed, episode

\* The last frame is buffered too.
LEMMA ReceiveLastStep == StreamInv /\ ReceiveLast => StreamInv'
<1> SUFFICES ASSUME StreamInv, ReceiveLast PROVE StreamInv'
  OBVIOUS
<1>1. /\ pc = "select" /\ wire # <<>>
      /\ received' = Append(received, Head(wire)) /\ wire' = Tail(wire)
      /\ Seal(AddFrame(buf, Head(wire)))
      /\ UNCHANGED <<client, acks, episode, failed>>
  BY DEF ReceiveLast
<1>2. /\ received' \in Seq(Frames)
      /\ wire' \in Seq(Frames)
      /\ NumbersInv'
      /\ InWindow(received') = AddFrame(buf, Head(wire))
      /\ InWindow(received') # {}
  BY <1>1, Received
<1>3. Seal(InWindow(received'))
  BY <1>1, <1>2
<1> QED
  BY <1>1, <1>2, <1>3, SealBegins

\* At the timer and at the end of the stream, what is buffered is sealed.
LEMMA SealPendingStep ==
  ASSUME StreamInv, pc = "select", SealPending,
         UNCHANGED <<client, wire, received, acks, episode, failed>>
  PROVE  StreamInv'
<1>1. /\ received' = received /\ received \in Seq(Frames)
      /\ wire' = wire /\ wire \in Seq(Frames)
      /\ buf = InWindow(received)
  BY DEF StreamInv, TypeOK, BufferIsWindow
<1>2. NumbersInv'
  BY <1>1 DEF StreamInv, NumbersInv, Numbered
<1>3. CASE buf = {}
  <2>1. pc' = "ended" /\ UNCHANGED <<buf, data>>
    BY <1>3 DEF SealPending
  <2>2. TypeOK'
    BY <2>1 DEF StreamInv, TypeOK, episode
  <2>3. received = <<>>
    <3> SUFFICES ASSUME received # <<>> PROVE FALSE
      OBVIOUS
    <3>1. PICK r : r = received
      OBVIOUS
    <3>2. PICK s \in Seq(Frames), f \in Frames : r = Append(s, f)
      BY <1>1, <3>1, SequenceEmptyOrAppend
    <3>3. f \in InWindow(r)
      BY <3>2, WindowGrows
    <3> QED
      BY <1>1, <1>3, <3>1, <3>3
  <2> QED
    BY <1>1, <1>2, <2>1, <2>2, <2>3 DEF StreamInv, BufferIsWindow, KeptInv, ProgressInv,
         FileIsSortedWindow, AcksInv, FinalAckIsTrue, CleanEndIsSealed, episode, Sealing
<1>4. CASE buf # {}
  <2>1. Seal(InWindow(received')) /\ InWindow(received') # {}
    BY <1>1, <1>4 DEF SealPending
  <2> QED
    BY <1>1, <1>2, <2>1, SealBegins
<1> QED
  BY <1>3, <1>4

LEMMA InactivityStep == StreamInv /\ Inactivity => StreamInv'
BY SealPendingStep DEF Inactivity

LEMMA EndOfStreamStep == StreamInv /\ EndOfStream => StreamInv'
BY SealPendingStep DEF EndOfStream

LEMMA RecvErrorStep == StreamInv /\ RecvError => StreamInv'
BY DEF StreamInv, RecvError, TypeOK, NumbersInv, Numbered, BufferIsWindow, KeptInv, ProgressInv,
     FileIsSortedWindow, AcksInv, FinalAckIsTrue, CleanEndIsSealed, episode, Sealing

-----------------------------------------------------------------------------
(* The steps of the seal                                                   *)

\* None of them changes what was received or is being sealed.
Untouched == UNCHANGED <<client, wire, received, buf, data>>

\* A call of the seal that returned, and the next.
LEMMA CallReturns ==
  ASSUME StreamInv, Untouched, acks' = acks,
         \/ CreateEpisodeFromStream
         \/ PutObject
         \/ UpdateEpisodeStatus
         \/ PublishEpisodeIngested
  PROVE  StreamInv'
<1> USE DEF Sealing, InsertRow, WriteObject, SetPath, EmitEvent, episode
<1>1. pc \in Sealing /\ pc' \in {"put", "update", "publish", "sealed"}
  BY DEF CreateEpisodeFromStream, PutObject, UpdateEpisodeStatus, PublishEpisodeIngested
<1>2. TypeOK'
  <2>1. pc = "publish" => events = 0
    BY DEF StreamInv, ProgressInv
  <2>2. events' \in 0 .. 1
    <3>1. events \in 0 .. 1
      BY DEF StreamInv, TypeOK
    <3>2. events' = events \/ (pc = "publish" /\ events' = events + 1)
      BY DEF CreateEpisodeFromStream, PutObject, UpdateEpisodeStatus, PublishEpisodeIngested
    <3> QED
      BY <2>1, <3>1, <3>2
  <2>3. object' \in Seq(Frames)
    BY DEF StreamInv, TypeOK, CreateEpisodeFromStream, PutObject, UpdateEpisodeStatus,
         PublishEpisodeIngested
  <2>4. row' \in BOOLEAN /\ path' \in BOOLEAN /\ failed' \in BOOLEAN
    BY DEF StreamInv, TypeOK, CreateEpisodeFromStream, PutObject, UpdateEpisodeStatus,
         PublishEpisodeIngested
  <2> QED
    BY <1>1, <2>2, <2>3, <2>4 DEF StreamInv, TypeOK, Untouched
<1>3. NumbersInv'
  BY DEF StreamInv, NumbersInv, Numbered, Untouched
<1>4. KeptInv'
  BY <1>1 DEF StreamInv, KeptInv, Untouched
<1>5. ProgressInv'
  <2> USE DEF StreamInv, KeptInv, ProgressInv, Untouched
  <2>1. CASE CreateEpisodeFromStream
    BY <2>1 DEF CreateEpisodeFromStream
  <2>2. CASE PutObject
    BY <2>2 DEF PutObject
  <2>3. CASE UpdateEpisodeStatus
    BY <2>3 DEF UpdateEpisodeStatus
  <2>4. CASE PublishEpisodeIngested
    <3>1. /\ pc = "publish" /\ pc' = "sealed" /\ UNCHANGED <<row, path, object>>
          /\ events' = events + 1 \/ (failed' = TRUE /\ events' = events)
      BY <2>4 DEF PublishEpisodeIngested
    <3>2. events = 0 /\ (events' = 1 \/ failed')
      BY <3>1
    <3> QED
      BY <3>1, <3>2
  <2> QED
    BY <2>1, <2>2, <2>3, <2>4
<1>6. FileIsSortedWindow'
  BY <1>1 DEF StreamInv, KeptInv, FileIsSortedWindow, Untouched, CreateEpisodeFromStream, PutObject,
       UpdateEpisodeStatus, PublishEpisodeIngested
<1>7. AcksInv' /\ FinalAckIsTrue'
  BY <1>1 DEF StreamInv, AcksInv, FinalAckIsTrue
<1> QED
  BY <1>1, <1>2, <1>3, <1>4, <1>5, <1>6, <1>7 DEF StreamInv, BufferIsWindow, CleanEndIsSealed

LEMMA SealReturns ==
  StreamInv /\ (CreateEpisodeFromStream \/ PutObject \/ UpdateEpisodeStatus \/ PublishEpisodeIngested)
    => StreamInv'
BY CallReturns DEF CreateEpisodeFromStream, PutObject, UpdateEpisodeStatus, PublishEpisodeIngested,
     Untouched

\* A failing call that took effect leaves what the next call would have found:
\* no event, a path only to a file, and in the file what was being sealed.
LEMMA EffectFacts ==
  ASSUME StreamInv, pc \in Sealing \cup {"sealed"}, UNCHANGED data,
         UNCHANGED episode \/ EffectWithoutAnswer
  PROVE  /\ row' \in BOOLEAN /\ path' \in BOOLEAN
         /\ object' \in {object, data}
         /\ events' = events
         /\ path => path'
         /\ path' => row' /\ object' # <<>>
<1> USE DEF Sealing, InsertRow, WriteObject, SetPath, episode
<1>1. TypeOK /\ ProgressInv /\ data # <<>>
  BY DEF StreamInv, KeptInv
<1>2. CASE UNCHANGED episode
  BY <1>1, <1>2 DEF TypeOK, ProgressInv
<1>3. CASE EffectWithoutAnswer
  <2>1. CASE pc = "create" /\ InsertRow
    BY <1>1, <2>1 DEF TypeOK, ProgressInv
  <2>2. CASE pc = "put" /\ WriteObject
    BY <1>1, <2>2 DEF TypeOK, ProgressInv
  <2>3. CASE pc = "update" /\ SetPath
    BY <1>1, <2>3 DEF TypeOK, ProgressInv
  <2> QED
    BY <1>3, <2>1, <2>2, <2>3 DEF EffectWithoutAnswer
<1> QED
  BY <1>2, <1>3

\* A handler that ends with a true answer, or none.
LEMMA HandlerEnds ==
  ASSUME StreamInv, Untouched, pc \in Sealing \cup {"sealed"}, pc' = "ended",
         UNCHANGED episode \/ EffectWithoutAnswer, failed' \in BOOLEAN, failed => failed',
         failed' \/ (pc = "sealed" /\ UNCHANGED episode),
         NEW ep \in BOOLEAN, NEW status \in {"ok", "error"},
         ep => path, status = "error" => events = 0,
         IF Last(received).last THEN Ack(Last(received), ep, status) ELSE UNCHANGED acks
  PROVE  StreamInv'
<1> USE DEF Sealing
<1>1. received # <<>> /\ TypeOK /\ data # <<>>
  BY DEF StreamInv, KeptInv
<1>2. Last(received) \in Frames /\ acks \in Seq(Acks)
  BY <1>1, LastReceived DEF TypeOK
<1>3. /\ row' \in BOOLEAN /\ path' \in BOOLEAN
      /\ object' \in {object, data}
      /\ events' = events
      /\ path => path'
      /\ path' => row' /\ object' # <<>>
  BY EffectFacts DEF Untouched
<1>4. acks' \in Seq(Acks) /\ FinalAckIsTrue'
  <2>1. CASE Ack(Last(received), ep, status)
    <3>1. /\ acks' \in Seq(Acks)
          /\ \A i \in DOMAIN acks' :
               \/ i \in DOMAIN acks /\ acks'[i] = acks[i]
               \/ acks'[i].ep = ep /\ acks'[i].status = status
      BY <1>2, <2>1, AckAdds
    <3> QED
      BY <1>3, <3>1 DEF StreamInv, FinalAckIsTrue
  <2>2. CASE UNCHANGED acks
    BY <1>2, <1>3, <2>2 DEF StreamInv, FinalAckIsTrue
  <2> QED
    BY <2>1, <2>2
<1>5. TypeOK'
  <2>1. object' \in Seq(Frames)
    BY <1>1, <1>3 DEF TypeOK
  <2> QED
    BY <1>1, <1>3, <1>4, <2>1 DEF TypeOK, Untouched
<1>6. NumbersInv' /\ KeptInv'
  BY DEF StreamInv, NumbersInv, Numbered, KeptInv, Untouched
<1>7. CleanEndIsSealed'
  BY DEF StreamInv, ProgressInv, CleanEndIsSealed, Untouched, episode
<1>8. ProgressInv'
  BY <1>3 DEF StreamInv, ProgressInv
<1>9. FileIsSortedWindow'
  <2>1. ToSet(data) = InWindow(received) /\ ByNumber(data)
    BY DEF StreamInv, KeptInv
  <2>2. received' = received
    BY DEF Untouched
  <2>3. CASE object' = data
    BY <2>1, <2>2, <2>3 DEF FileIsSortedWindow, InWindow, ByNumber
  <2>4. CASE object' = object
    BY <2>2, <2>4 DEF StreamInv, FileIsSortedWindow, InWindow, ByNumber
  <2> QED
    BY <1>3, <2>3, <2>4
<1> QED
  BY <1>4, <1>5, <1>6, <1>7, <1>8, <1>9 DEF StreamInv, BufferIsWindow, AcksInv

LEMMA SealFailsStep == StreamInv /\ SealFails => StreamInv'
<1> SUFFICES ASSUME StreamInv, SealFails PROVE StreamInv'
  OBVIOUS
<1>1. /\ pc \in Sealing \ {"publish"}
      /\ failed' = TRUE
      /\ IF Last(received).last THEN Ack(Last(received), FALSE, "error") ELSE UNCHANGED acks
      /\ pc' = "ended"
      /\ UNCHANGED episode \/ EffectWithoutAnswer
      /\ UNCHANGED <<client, wire, received, buf, data>>
  BY DEF SealFails, Sealing
<1>2. events = 0
  BY <1>1 DEF StreamInv, ProgressInv, Sealing
<1> QED
  BY <1>1, <1>2, HandlerEnds DEF Untouched

LEMMA FinishSealStep == StreamInv /\ FinishSeal => StreamInv'
<1> SUFFICES ASSUME StreamInv, FinishSeal PROVE StreamInv'
  OBVIOUS
<1>1. /\ pc = "sealed"
      /\ IF Last(received).last THEN Ack(Last(received), TRUE, "ok") ELSE UNCHANGED acks
      /\ pc' = "ended"
      /\ UNCHANGED <<client, wire, received, buf, data, episode, failed>>
  BY DEF FinishSeal
<1>2. path /\ failed \in BOOLEAN
  BY <1>1 DEF StreamInv, ProgressInv, TypeOK
<1> QED
  BY <1>1, <1>2, HandlerEnds DEF Untouched

-----------------------------------------------------------------------------
(* The theorems                                                            *)

LEMMA StutterStream == StreamInv /\ UNCHANGED vars => StreamInv'
BY DEF StreamInv, vars, TypeOK, NumbersInv, Numbered, BufferIsWindow, KeptInv, ProgressInv,
     FileIsSortedWindow, AcksInv, FinalAckIsTrue, CleanEndIsSealed, episode

LEMMA NextStream == StreamInv /\ [Next]_vars => StreamInv'
<1> SUFFICES ASSUME StreamInv, [Next]_vars PROVE StreamInv'
  OBVIOUS
<1>1. CASE Robot
  BY <1>1, SendFrameStep, CloseSendStep, DisconnectStep DEF Robot
<1>2. CASE Receive
  BY <1>2, ReceiveFrameStep, ReceiveLastStep, AckFailsStep, EndOfStreamStep, RecvErrorStep DEF Receive
<1>3. CASE Inactivity
  BY <1>3, InactivityStep
<1>4. CASE SealEpisode
  BY <1>4, SealReturns, SealFailsStep, FinishSealStep DEF SealEpisode
<1>5. CASE UNCHANGED vars
  BY <1>5, StutterStream
<1> QED
  BY <1>1, <1>2, <1>3, <1>4, <1>5 DEF Next

\* The inductive invariant, of every leg.
THEOREM StreamSafe == Spec => []StreamInv
<1>1. Init => StreamInv
  BY InitStream
<1>2. StreamInv /\ [Next]_vars => StreamInv'
  BY NextStream
<1> QED
  BY <1>1, <1>2, PTL DEF Spec

\* What is recorded of a leg, in the buffer as in the file, is the window of
\* what was received, in the order of the frames' numbers.
THEOREM StreamRecordingIsWindow == Spec => []RecordingIsWindow
<1>1. StreamInv => RecordingIsWindow
  BY DEF StreamInv, RecordingIsWindow
<1> QED
  BY <1>1, StreamSafe, PTL

\* An event, an acknowledgement with an episode and an end without a failing
\* call each stand for a recording that is stored, and an error for one that
\* nobody is told of.
THEOREM StreamAnnouncedIsStored == Spec => []AnnouncedIsStored
<1>1. StreamInv => AnnouncedIsStored
  BY DEF StreamInv, AnnouncedIsStored, ProgressInv, PublishedIsReadable
<1> QED
  BY <1>1, StreamSafe, PTL
=============================================================================
