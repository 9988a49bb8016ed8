-------------------------- MODULE FramePathProofs ---------------------------
(***************************************************************************)
(* The ring implements the queue, and the safety properties of the path to *)
(* the display, for every capacity and every number of buffers.            *)
(***************************************************************************)
EXTENDS FramePath, TLAPS

Picture(k) == buffer[Nth(k)].frame.picture

\* The slots the count covers are the ones with a frame.
SlotsValid == \A k \in 1..count : buffer[Nth(k)].valid

\* What is in the ring is newer than what was taken, and in decode order.
InOrder ==
    /\ videoFrame.picture <= decoded
    /\ \A k \in 1..count : videoFrame.picture < Picture(k) /\ Picture(k) <= decoded
    /\ \A j, k \in 1..count : j < k => Picture(j) < Picture(k)

RingInv == RingTypeOK /\ SlotsValid /\ InOrder

-----------------------------------------------------------------------------
(* Indices.                                                                *)

\* The remainders that the ring takes are one step away.
LEMMA Remainder ==
  ASSUME NEW a \in Int
  PROVE  /\ a \in 0..(Capacity - 1) => a % Capacity = a
         /\ a \in Capacity..(2 * Capacity - 1) => a % Capacity = a - Capacity
<1>1. Capacity \in Nat \ {0}
  BY RingAssumption
<1>2. a \in 0..(Capacity - 1) => a % Capacity = a
  BY <1>1, Z3
<1>3. a \in Capacity..(2 * Capacity - 1) => a % Capacity = a - Capacity
  BY <1>1, Z3
<1> QED
  BY <1>2, <1>3

\* The slot of the k-th frame without the remainder.
Wrapped(a) == IF a < 0 THEN a + Capacity ELSE a

LEMMA NthIs ==
  ASSUME NEW w \in 0..(Capacity - 1), NEW c \in 0..Capacity, NEW k \in 1..c
  PROVE  /\ (((w - c + Capacity) % Capacity) + k - 1) % Capacity = Wrapped(w - c + k - 1)
         /\ Wrapped(w - c + k - 1) \in 0..(Capacity - 1)
<1> DEFINE a == w - c + Capacity
           o == IF a < Capacity THEN a ELSE a - Capacity
<1>1. Capacity \in Nat \ {0} /\ w \in Int /\ c \in Int /\ k \in Int
  BY RingAssumption
<1>2. a % Capacity = o /\ o \in 0..(Capacity - 1)
  <2>1. a \in 0..(2 * Capacity - 1)
    BY <1>1
  <2> QED
    BY <1>1, <2>1, Remainder
<1>3. (o + k - 1) % Capacity = Wrapped(w - c + k - 1)
  <2>1. o + k - 1 \in 0..(2 * Capacity - 1) /\ o + k - 1 \in Int
    BY <1>1, <1>2
  <2>2. (o + k - 1) % Capacity = IF o + k - 1 < Capacity THEN o + k - 1 ELSE o + k - 1 - Capacity
    BY <1>1, <2>1, Remainder
  <2> QED
    BY <1>1, <2>2 DEF Wrapped
<1> QED
  BY <1>1, <1>2, <1>3 DEF Wrapped

\* The frames keep their slots when one is pushed, a full ring loses the first.
LEMMA PushSlots ==
  ASSUME SlotTypes, writeIdx' = (writeIdx + 1) % Capacity, count' = Counted,
         NEW s, s = IF count < Capacity THEN 0 ELSE 1
  PROVE  /\ writeIdx' \in 0..(Capacity - 1)
         /\ count' \in 1..Capacity /\ count' = count + 1 - s
         /\ Nth(count)' = writeIdx
         /\ \A k \in 1..(count' - 1) :
              Nth(k)' = Nth(k + s) /\ Nth(k + s) # writeIdx /\ k + s \in 1..count
<1> USE RingAssumption
<1>1. count \in 0..Capacity /\ writeIdx \in 0..(Capacity - 1)
  BY DEF SlotTypes
<1>2. writeIdx' = IF writeIdx + 1 < Capacity THEN writeIdx + 1 ELSE 0
  <2>1. writeIdx + 1 \in 0..(2 * Capacity - 1) /\ writeIdx + 1 \in Int
    BY <1>1
  <2> QED
    BY <1>1, <2>1, Remainder
<1>3. count' \in 1..Capacity /\ count' = count + 1 - s
  BY <1>1 DEF Counted
<1>4. \A k \in 1..count' : Nth(k)' = Wrapped(writeIdx' - count' + k - 1)
  <2>1. writeIdx' \in 0..(Capacity - 1) /\ count' \in 0..Capacity
    BY <1>1, <1>2, <1>3
  <2> QED
    BY <2>1, NthIs DEF Nth, Oldest
<1>5. \A k \in 1..count : Nth(k) = Wrapped(writeIdx - count + k - 1)
  BY <1>1, NthIs DEF Nth, Oldest
<1>6. Nth(count)' = writeIdx
  <2>1. Nth(count)' = Wrapped(writeIdx' - count' + count' - 1)
    <3>1. count' \in 1..count' /\ \A k : k = count' => Nth(k)' = Nth(count)'
      BY <1>3 DEF Nth
    <3> QED
      BY <1>4, <3>1
  <2> QED
    BY <1>1, <1>2, <1>3, <2>1 DEF Wrapped
<1>7. ASSUME NEW k \in 1..(count' - 1)
      PROVE  Nth(k)' = Nth(k + s) /\ Nth(k + s) # writeIdx /\ k + s \in 1..count
  <2>1. k \in 1..count' /\ k + s \in 1..count
    BY <1>1, <1>3
  <2>2. /\ Nth(k)' = Wrapped(writeIdx' - count' + k - 1)
        /\ Nth(k + s) = Wrapped(writeIdx - count + (k + s) - 1)
    BY <1>4, <1>5, <2>1
  <2> QED
    BY <1>1, <1>2, <1>3, <2>1, <2>2 DEF Wrapped
<1> QED
  BY <1>1, <1>2, <1>3, <1>6, <1>7

\* Without the n oldest frames the others keep their slots.
LEMMA DropSlots ==
  ASSUME SlotTypes, NEW n \in 1..count, writeIdx' = writeIdx, count' = count - n
  PROVE  /\ count' \in 0..Capacity
         /\ \A k \in 1..count' :
              Nth(k)' = Nth(k + n) /\ k + n \in 1..count /\ \A j \in 1..n : Nth(k + n) # Nth(j)
<1> USE RingAssumption
<1>1. count \in 0..Capacity /\ writeIdx \in 0..(Capacity - 1)
  BY DEF SlotTypes
<1>2. count' \in 0..Capacity
  BY <1>1
<1>3. \A k \in 1..count' : Nth(k)' = Wrapped(writeIdx - count' + k - 1)
  BY <1>1, <1>2, NthIs DEF Nth, Oldest
<1>4. \A k \in 1..count : Nth(k) = Wrapped(writeIdx - count + k - 1)
  BY <1>1, NthIs DEF Nth, Oldest
<1>5. ASSUME NEW k \in 1..count'
      PROVE  Nth(k)' = Nth(k + n) /\ k + n \in 1..count /\ \A j \in 1..n : Nth(k + n) # Nth(j)
  <2>1. k + n \in 1..count /\ k \in Int /\ n \in Int
    BY <1>1
  <2>2. /\ Nth(k)' = Wrapped(writeIdx - count' + k - 1)
        /\ Nth(k + n) = Wrapped(writeIdx - count + (k + n) - 1)
    BY <1>3, <1>4, <2>1
  <2>3. ASSUME NEW j \in 1..n PROVE Nth(k + n) # Nth(j)
    <3>1. j \in 1..count /\ j \in Int
      BY <1>1
    <3>2. Nth(j) = Wrapped(writeIdx - count + j - 1)
      BY <1>4, <3>1
    <3> QED
      BY <1>1, <2>1, <2>2, <3>1, <3>2 DEF Wrapped
  <2> QED
    BY <1>1, <2>1, <2>2, <2>3 DEF Wrapped
<1> QED
  BY <1>2, <1>5

\* Every frame of the ring has a slot.
LEMMA NthType == SlotTypes => \A k \in 1..count : Nth(k) \in 0..(Capacity - 1)
  BY RingAssumption, NthIs DEF SlotTypes, Nth, Oldest

-----------------------------------------------------------------------------
(* The ring implements the queue.                                          *)

Frame == [pts : Times, picture : 0..MaxPicture]

\* What the users see is a sequence of frames.
LEMMA ContentsType ==
  RingTypeOK => Contents \in Seq(Frame) /\ Len(Contents) = count
<1> SUFFICES ASSUME RingTypeOK PROVE Contents \in Seq(Frame) /\ Len(Contents) = count
  OBVIOUS
<1>1. count \in Nat
  BY RingAssumption DEF RingTypeOK, SlotTypes
<1>2. \A k \in 1..count : buffer[Nth(k)] \in Slot
  BY NthType DEF RingTypeOK, SlotTypes
<1>3. \A k \in 1..count :
        [pts |-> buffer[Nth(k)].pts, picture |-> buffer[Nth(k)].frame.picture] \in Frame
  BY <1>2 DEF Slot, Texture, Frame
<1> QED
  BY <1>1, <1>3 DEF Contents

\* A push onto the ring is a push onto the queue, and keeps the order.
LEMMA PushStep ==
  ASSUME RingInv, NEW pts \in Times, NEW gpu \in BOOLEAN, RingPush(pts, gpu)
  PROVE  RingInv' /\ Abstract!Push(pts, decoded + 1)
<1> DEFINE s   == IF count < Capacity THEN 0 ELSE 1
           pushed == [picture |-> decoded + 1, gpu |-> gpu, fd |-> IF gpu THEN decoded + 1 ELSE NoFd]
           new == [pts |-> pts, frame |-> Assign(buffer[writeIdx].frame, pushed), valid |-> TRUE]
           f   == [pts |-> pts, picture |-> decoded + 1]
<1>1. /\ decoded < MaxPicture /\ decoded' = decoded + 1
      /\ buffer' = [buffer EXCEPT ![writeIdx] = new]
      /\ writeIdx' = (writeIdx + 1) % Capacity /\ count' = Counted
      /\ descriptors' = (descriptors \ Held(buffer[writeIdx])) \cup ({pushed.fd} \ {NoFd})
      /\ videoFrame' = videoFrame
  BY DEF RingPush
<1>2. /\ buffer \in [0..(Capacity - 1) -> Slot] /\ writeIdx \in 0..(Capacity - 1)
      /\ count \in 0..Capacity /\ decoded \in 0..MaxPicture /\ videoFrame \in Texture
      /\ descriptors \subseteq 1..MaxPicture /\ Capacity \in Nat \ {0} /\ MaxPicture \in Nat
      /\ SlotTypes
  BY RingAssumption DEF RingInv, RingTypeOK, SlotTypes
<1>3. new \in Slot /\ new.valid /\ new.frame.picture = decoded + 1 /\ new.pts = pts
  <2>1. buffer[writeIdx].frame \in Texture
    BY <1>2 DEF Slot
  <2>2. decoded + 1 \in 0..MaxPicture
    BY <1>1, <1>2
  <2>3. Assign(buffer[writeIdx].frame, pushed) \in Texture
        /\ Assign(buffer[writeIdx].frame, pushed).picture = decoded + 1
    BY <2>1, <2>2 DEF Assign, Texture
  <2> QED
    BY <2>3 DEF Slot
<1>4. /\ writeIdx' \in 0..(Capacity - 1)
      /\ count' \in 1..Capacity /\ count' = count + 1 - s
      /\ Nth(count)' = writeIdx
      /\ \A k \in 1..(count' - 1) :
           Nth(k)' = Nth(k + s) /\ Nth(k + s) # writeIdx /\ k + s \in 1..count
  BY <1>1, <1>2, PushSlots
<1>5. /\ \A k \in 1..(count' - 1) : buffer'[Nth(k)'] = buffer[Nth(k + s)] /\ k + s \in 1..count
      /\ buffer'[Nth(count)'] = new
  <2>1. \A k \in 1..(count' - 1) : Nth(k + s) \in 0..(Capacity - 1)
    BY <1>2, <1>4, NthType
  <2> QED
    BY <1>1, <1>2, <1>4, <2>1
<1>6. \A k \in 1..count' : k = count' \/ k \in 1..(count' - 1)
  BY <1>4
<1>7. \A k : k = count' => buffer'[Nth(k)'] = new
  <2>1. \A k : k = count' => Nth(k)' = Nth(count)'
    BY DEF Nth
  <2> QED
    BY <1>5, <2>1
<1>8. RingTypeOK'
  <2>1. {pushed.fd} \ {NoFd} \subseteq 1..MaxPicture
    <3>1. decoded + 1 \in 1..MaxPicture /\ pushed.fd \in {decoded + 1, NoFd}
      BY <1>1, <1>2
    <3> QED
      BY <3>1
  <2>2. descriptors' \subseteq 1..MaxPicture
    BY <1>1, <1>2, <2>1
  <2>3. buffer' \in [0..(Capacity - 1) -> Slot] /\ count' \in 0..Capacity /\ decoded' \in 0..MaxPicture
    BY <1>1, <1>2, <1>3, <1>4
  <2> QED
    BY <1>1, <1>2, <1>4, <2>2, <2>3 DEF RingTypeOK, SlotTypes
<1>9. SlotsValid'
  <2>1. \A k \in 1..count' : buffer'[Nth(k)'].valid
    BY <1>3, <1>5, <1>6, <1>7 DEF RingInv, SlotsValid
  <2> QED
    BY <2>1 DEF SlotsValid
<1>10. InOrder'
  <2>1. \A k \in 1..(count' - 1) : Picture(k)' = Picture(k + s) /\ k + s \in 1..count
    BY <1>5 DEF Picture
  <2>2. \A k : k = count' => Picture(k)' = decoded + 1
    BY <1>3, <1>7 DEF Picture
  <2>3. \A k \in 1..count : Picture(k) \in Int
    BY <1>2, NthType DEF Picture, Slot, Texture
  <2>4. videoFrame.picture \in Int /\ videoFrame.picture <= decoded
    BY <1>2 DEF RingInv, InOrder, Texture
  <2>5. videoFrame'.picture <= decoded'
    BY <1>1, <1>2, <2>4
  <2>6. \A k \in 1..count' : videoFrame'.picture < Picture(k)' /\ Picture(k)' <= decoded'
    BY <1>1, <1>2, <1>6, <2>1, <2>2, <2>3, <2>4 DEF RingInv, InOrder
  <2>7. ASSUME NEW j \in 1..count', NEW k \in 1..count', j < k
        PROVE  Picture(j)' < Picture(k)'
    <3>1. j \in 1..(count' - 1) /\ j \in Int /\ k \in Int /\ s \in {0, 1}
      BY <1>4, <2>7
    <3>2. CASE k = count'
      <4>1. Picture(k)' = decoded + 1 /\ Picture(j)' = Picture(j + s) /\ j + s \in 1..count
        BY <2>1, <2>2, <3>1, <3>2
      <4>2. Picture(j + s) <= decoded /\ Picture(j + s) \in Int
        BY <2>3, <4>1 DEF RingInv, InOrder
      <4> QED
        BY <1>2, <4>1, <4>2
    <3>3. CASE k \in 1..(count' - 1)
      <4>1. Picture(j)' = Picture(j + s) /\ Picture(k)' = Picture(k + s)
            /\ j + s \in 1..count /\ k + s \in 1..count
        BY <2>1, <3>1, <3>3
      <4>2. j + s < k + s
        BY <2>7, <3>1
      <4> QED
        BY <4>1, <4>2 DEF RingInv, InOrder
    <3> QED
      BY <1>6, <3>2, <3>3
  <2> QED
    BY <2>5, <2>6, <2>7 DEF InOrder
<1>11. Contents' = Abstract!Pushed(Contents, f)
  <2>1. Contents \in Seq(Frame) /\ Len(Contents) = count
    BY ContentsType DEF RingInv
  <2>2. Contents' = [k \in 1..count' |-> [pts |-> buffer'[Nth(k)'].pts,
                                         picture |-> buffer'[Nth(k)'].frame.picture]]
    BY DEF Contents
  <2>3. Contents' = [k \in 1..count' |-> IF k = count' THEN f ELSE Contents[k + s]]
    <3>1. \A k \in 1..(count' - 1) :
            [pts |-> buffer'[Nth(k)'].pts, picture |-> buffer'[Nth(k)'].frame.picture]
            = Contents[k + s]
      BY <1>5 DEF Contents
    <3>2. \A k : k = count' =>
            [pts |-> buffer'[Nth(k)'].pts, picture |-> buffer'[Nth(k)'].frame.picture] = f
      BY <1>3, <1>7
    <3> QED
      BY <1>6, <2>2, <3>1, <3>2
  <2>4. CASE count < Capacity
    <3>1. Abstract!Pushed(Contents, f) = Append(Contents, f)
      BY <1>2, <2>1, <2>4 DEF Abstract!Pushed
    <3>2. Append(Contents, f) = [k \in 1..(count + 1) |-> IF k = count + 1 THEN f ELSE Contents[k]]
      BY <1>2, <2>1
    <3>3. s = 0 /\ count' = count + 1 /\ \A k \in 1..(count + 1) : k + 0 = k
      BY <1>2, <1>4, <2>4
    <3> QED
      BY <2>3, <3>1, <3>2, <3>3
  <2>5. CASE ~(count < Capacity)
    <3>1. count = Capacity /\ s = 1 /\ count' = count
      BY <1>2, <1>4, <2>5
    <3>2. Abstract!Pushed(Contents, f) = Append(Tail(Contents), f)
      BY <1>2, <2>1, <3>1 DEF Abstract!Pushed
    <3>3. Tail(Contents) = [k \in 1..(count - 1) |-> Contents[k + 1]]
          /\ Tail(Contents) \in Seq(Frame) /\ Len(Tail(Contents)) = count - 1
      BY <1>2, <2>1, <3>1
    <3>4. Append(Tail(Contents), f)
          = [k \in 1..count |-> IF k = count THEN f ELSE Contents[k + 1]]
      BY <1>2, <3>1, <3>3
    <3> QED
      BY <2>3, <3>1, <3>2, <3>4
  <2> QED
    BY <2>4, <2>5
<1> QED
  BY <1>1, <1>8, <1>9, <1>10, <1>11 DEF RingInv, Abstract!Push

\* Handing out the n-th frame takes the first n off the queue, in order.
LEMMA TakeStep ==
  ASSUME RingInv, NEW n \in 1..count, buffer' = Dropped(n), writeIdx' = writeIdx,
         decoded' = decoded, count' = count - n, descriptors' \subseteq descriptors,
         videoFrame' = Assign(videoFrame, buffer[Nth(n)].frame)
  PROVE  RingInv' /\ Abstract!TakeAt(n) /\ videoFrame'.picture > videoFrame.picture
<1>1. /\ buffer \in [0..(Capacity - 1) -> Slot] /\ writeIdx \in 0..(Capacity - 1)
      /\ count \in 0..Capacity /\ decoded \in 0..MaxPicture /\ videoFrame \in Texture
      /\ descriptors \subseteq 1..MaxPicture /\ Capacity \in Nat \ {0} /\ n \in Nat
      /\ SlotTypes
  BY RingAssumption DEF RingInv, RingTypeOK, SlotTypes
<1>2. /\ count' \in 0..Capacity
      /\ \A k \in 1..count' :
           Nth(k)' = Nth(k + n) /\ k + n \in 1..count /\ \A j \in 1..n : Nth(k + n) # Nth(j)
  BY <1>1, DropSlots
<1>3. \A k \in 1..count : Nth(k) \in 0..(Capacity - 1)
  BY <1>1, NthType
<1>4. \A k \in 1..count' : buffer'[Nth(k)'] = buffer[Nth(k + n)] /\ k + n \in 1..count
  BY <1>1, <1>2, <1>3 DEF Dropped
<1>5. buffer[Nth(n)].frame \in Texture
  BY <1>1, <1>3 DEF Slot
<1>6. videoFrame' \in Texture /\ videoFrame'.picture = Picture(n)
  BY <1>1, <1>5 DEF Assign, Texture, Picture
<1>7. RingTypeOK'
  <2>1. \A i \in 0..(Capacity - 1) : [buffer[i] EXCEPT !.valid = FALSE] \in Slot
    BY <1>1 DEF Slot
  <2>2. buffer' \in [0..(Capacity - 1) -> Slot]
    BY <1>1, <2>1 DEF Dropped
  <2> QED
    BY <1>1, <1>2, <1>6, <2>2 DEF RingTypeOK, SlotTypes
<1>8. SlotsValid'
  <2>1. \A k \in 1..count' : buffer'[Nth(k)'].valid
    BY <1>4 DEF RingInv, SlotsValid
  <2> QED
    BY <2>1 DEF SlotsValid
<1>9. \A k \in 1..count : Picture(k) \in Int
  BY <1>1, <1>3 DEF Picture, Slot, Texture
<1>10. videoFrame'.picture > videoFrame.picture
  <2>1. videoFrame.picture \in Int /\ videoFrame.picture < Picture(n) /\ Picture(n) \in Int
    BY <1>1, <1>9 DEF RingInv, InOrder, Texture
  <2> QED
    BY <1>6, <2>1
<1>11. InOrder'
  <2>1. \A k \in 1..count' : Picture(k)' = Picture(k + n) /\ k + n \in 1..count /\ n < k + n
    BY <1>1, <1>2, <1>4 DEF Picture
  <2>2. videoFrame'.picture <= decoded'
    BY <1>6 DEF RingInv, InOrder
  <2>3. \A k \in 1..count' : videoFrame'.picture < Picture(k)' /\ Picture(k)' <= decoded'
    BY <1>6, <2>1 DEF RingInv, InOrder
  <2>4. ASSUME NEW j \in 1..count', NEW k \in 1..count', j < k
        PROVE  Picture(j)' < Picture(k)'
    <3>1. j + n < k + n
      BY <1>1, <1>2, <2>4
    <3> QED
      BY <2>1, <3>1 DEF RingInv, InOrder
  <2> QED
    BY <2>2, <2>3, <2>4 DEF InOrder
<1>12. Contents' = Abstract!After(Contents, n)
  <2>1. Contents \in Seq(Frame) /\ Len(Contents) = count
    BY ContentsType DEF RingInv
  <2>2. Contents' = [k \in 1..count' |-> [pts |-> buffer'[Nth(k)'].pts,
                                         picture |-> buffer'[Nth(k)'].frame.picture]]
    BY DEF Contents
  <2>3. Contents' = [k \in 1..(count - n) |-> Contents[k + n]]
    BY <1>4, <2>2 DEF Contents
  <2>4. SubSeq(Contents, n + 1, count) = [k \in 1..(count - n) |-> Contents[k + n]]
    <3>1. SubSeq(Contents, n + 1, count) = [k \in 1..(count - (n + 1) + 1) |-> Contents[k + (n + 1) - 1]]
      BY <1>1, <2>1
    <3>2. count - (n + 1) + 1 = count - n /\ \A k \in 1..(count - n) : k + (n + 1) - 1 = k + n
      BY <1>1
    <3> QED
      BY <3>1, <3>2
  <2> QED
    BY <2>1, <2>3, <2>4 DEF Abstract!After
<1>13. videoFrame'.picture = Contents[n].picture
  BY <1>6 DEF Contents, Picture
<1> QED
  BY <1>7, <1>8, <1>10, <1>11, <1>12, <1>13 DEF RingInv, Abstract!TakeAt

\* getNext takes the first frame.
LEMMA NextStep ==
  ASSUME RingInv, RingNext
  PROVE  RingInv' /\ Abstract!TakeNext /\ videoFrame'.picture > videoFrame.picture
<1>1. SlotTypes /\ count \in Nat /\ 1 \in 1..count
  BY RingAssumption DEF RingNext, RingInv, RingTypeOK, SlotTypes
<1>2. Oldest = Nth(1)
  <2>1. Oldest \in 0..(Capacity - 1) /\ Oldest \in Int
    <3>1. writeIdx - count + Capacity \in 0..(2 * Capacity - 1) /\ writeIdx - count + Capacity \in Int
      BY RingAssumption, <1>1 DEF SlotTypes
    <3>2. \/ writeIdx - count + Capacity \in 0..(Capacity - 1)
          \/ writeIdx - count + Capacity \in Capacity..(2 * Capacity - 1)
      BY RingAssumption, <3>1
    <3> QED
      BY RingAssumption, <3>1, <3>2, Remainder DEF Oldest
  <2>2. Oldest % Capacity = Oldest
    BY <2>1, Remainder
  <2>3. Oldest + 1 - 1 = Oldest
    BY <2>1
  <2> QED
    BY <2>2, <2>3 DEF Nth
<1>3. /\ buffer' = Dropped(1) /\ writeIdx' = writeIdx /\ decoded' = decoded
      /\ count' = count - 1 /\ descriptors' \subseteq descriptors
      /\ videoFrame' = Assign(videoFrame, buffer[Nth(1)].frame)
  BY <1>2 DEF RingNext
<1>4. RingInv' /\ Abstract!TakeAt(1) /\ videoFrame'.picture > videoFrame.picture
  BY <1>1, <1>3, TakeStep
<1>5. Contents # <<>>
  <2>1. Contents \in Seq(Frame) /\ Len(Contents) = count /\ count # 0
    BY <1>1, ContentsType DEF RingInv
  <2> QED
    BY <2>1
<1> QED
  BY <1>4, <1>5 DEF Abstract!TakeNext

\* getFrameForTime takes the frame the queue would hand out.
LEMMA DueStep ==
  ASSUME RingInv, NEW t \in Times, RingTake(t)
  PROVE  RingInv' /\ Abstract!TakeDue(t) /\ videoFrame'.picture > videoFrame.picture
<1>1. PICK best \in RingDue(t) :
        /\ RingBest(t, best)
        /\ videoFrame' = Assign(videoFrame, buffer[Nth(best)].frame)
        /\ buffer' = Dropped(best)
        /\ count' = count - best
        /\ descriptors' = descriptors \ UNION {Held(buffer[Nth(k)]) : k \in 1..best}
        /\ writeIdx' = writeIdx /\ decoded' = decoded
  BY DEF RingTake
<1>2. best \in 1..count
  BY DEF RingDue
<1>3. RingInv' /\ Abstract!TakeAt(best) /\ videoFrame'.picture > videoFrame.picture
  BY <1>1, <1>2, TakeStep
<1>4. DOMAIN Contents = 1..count /\ \A k \in 1..count : Contents[k].pts = buffer[Nth(k)].pts
  BY DEF Contents
<1>5. RingDue(t) = Abstract!Due(Contents, t)
  BY <1>4 DEF RingDue, Abstract!Due, RingInv, SlotsValid
<1>6. Abstract!IsBest(Contents, t, best)
  <2>1. \A j \in RingDue(t) : j \in 1..count
    BY DEF RingDue
  <2> QED
    BY <1>1, <1>2, <1>4, <1>5, <2>1 DEF RingBest, Abstract!IsBest
<1> QED
  BY <1>3, <1>5, <1>6 DEF Abstract!TakeDue

LEMMA RingSteps ==
  ASSUME RingInv, [Next]_vars
  PROVE  RingInv' /\ [Abstract!Next]_<<Contents, videoFrame.picture>>
<1>1. ASSUME Push PROVE RingInv' /\ Abstract!Next
  <2>1. PICK pts \in Times, gpu \in BOOLEAN : RingPush(pts, gpu)
    BY <1>1 DEF Push
  <2>2. decoded + 1 \in 0..MaxPicture
    BY <2>1, RingAssumption DEF RingPush, RingInv, RingTypeOK
  <2> QED
    BY <2>1, <2>2, PushStep DEF Abstract!Next
<1>2. ASSUME TakeDue PROVE RingInv' /\ Abstract!Next
  BY <1>2, DueStep DEF TakeDue, Abstract!Next
<1>3. ASSUME TakeNext PROVE RingInv' /\ Abstract!Next
  BY <1>3, NextStep DEF TakeNext, Abstract!Next
<1>4. ASSUME UNCHANGED ringVars
      PROVE  RingInv' /\ UNCHANGED <<Contents, videoFrame.picture>>
  <2>1. /\ buffer' = buffer /\ writeIdx' = writeIdx /\ count' = count
        /\ decoded' = decoded /\ videoFrame' = videoFrame /\ descriptors' = descriptors
    BY <1>4 DEF ringVars
  <2>2. \A k : Nth(k)' = Nth(k) /\ Picture(k)' = Picture(k)
    BY <2>1 DEF Nth, Oldest, Picture
  <2>3. RingInv'
    BY <2>1, <2>2 DEF RingInv, RingTypeOK, SlotTypes, SlotsValid, InOrder
  <2>4. Contents' = Contents
    BY <2>1, <2>2 DEF Contents
  <2> QED
    BY <2>1, <2>3, <2>4
<1>5. Push \/ TakeDue \/ TakeNext \/ UNCHANGED ringVars
  BY DEF Next, Repeat, vars
<1> QED
  BY <1>1, <1>2, <1>3, <1>4, <1>5

LEMMA RingStart == Init => RingInv /\ Abstract!Init
<1> SUFFICES ASSUME Init PROVE RingInv /\ Abstract!Init
  OBVIOUS
<1> USE DEF Init, RingInit
<1>1. Capacity \in Nat \ {0} /\ MaxPicture \in Nat /\ MaxPts \in Nat
  BY RingAssumption
<1>2. Empty \in Texture /\ Empty.picture = 0
  BY <1>1 DEF Empty, Texture, NoFd
<1>3. [pts |-> 0, frame |-> Empty, valid |-> FALSE] \in Slot
  BY <1>1, <1>2 DEF Slot, Times
<1>4. RingTypeOK
  BY <1>1, <1>2, <1>3 DEF RingTypeOK, SlotTypes
<1>5. 1..count = {}
  OBVIOUS
<1>6. SlotsValid /\ InOrder
  BY <1>1, <1>2, <1>5 DEF SlotsValid, InOrder
<1>7. Contents = <<>>
  <2>1. Contents \in Seq(Frame) /\ Len(Contents) = 0
    BY <1>4, ContentsType
  <2> QED
    BY <2>1
<1> QED
  BY <1>1, <1>2, <1>4, <1>6, <1>7 DEF RingInv, Abstract!Init

LEMMA RingSafe == Spec => []RingInv
<1>1. RingInv /\ [Next]_vars => RingInv'
  BY RingSteps
<1> QED
  BY <1>1, RingStart, PTL DEF Spec

\* For every capacity, the ring of FrameQueue with its wrapping indices is the
\* lossy first-in first-out queue: what the decoder thread and the render loop
\* see of it is a behaviour of LossyQueue.
THEOREM RingIsQueue == Spec => QueueRefined
<1>1. RingInv /\ [Next]_vars => [Abstract!Next]_<<Contents, videoFrame.picture>>
  BY RingSteps
<1>2. Abstract!Init /\ [][Abstract!Next]_<<Contents, videoFrame.picture>> => QueueRefined
  BY DEF QueueRefined, Abstract!Spec
<1> QED
  BY <1>1, <1>2, RingSafe, RingStart, PTL DEF Spec

-----------------------------------------------------------------------------
(* The buffers on their way to the display.                                *)

\* The buffer and framebuffer in present(), and those of the frame before.
Holding ==
    /\ (at = "draw") = (bo = NoBuffer)
    /\ prev # bo \/ prev = NoBuffer
    /\ \A b \in Buffers : state[b] # "free" => b \in {prev, bo}
    /\ \A b \in Buffers : b \in {prev, bo} => state[b] # "free"
    /\ fbs = ({prev} \cup (IF at \in {"flip", "release"} THEN {bo} ELSE {})) \ {NoBuffer}
    /\ first => prev = NoBuffer /\ at # "release"

\* As long as flips complete in time, the buffer the kernel was given last is
\* the one the program takes for it, and it flips only when none is under way.
Flipping ==
    ~fault =>
      /\ crtc.on
      /\ crtc.fb = (IF at = "release" THEN bo ELSE prev)
      /\ (crtc.flipping \/ event) => pending
      /\ ~(crtc.flipping /\ event)
      /\ at \in {"swap", "addFb", "flip"} => ~pending

\* What is drawn is what was taken last, or no video frame.
DrawnInOrder ==
    /\ \A b \in Buffers : drawn[b] <= videoFrame.picture
    /\ bo # NoBuffer => drawn[bo] \in {Blank, Background, videoFrame.picture}

FlipInv == FlipTypeOK /\ Holding /\ Flipping

LEMMA FlipStart == Init => FlipInv /\ DrawnInOrder
<1> SUFFICES ASSUME Init PROVE FlipInv /\ DrawnInOrder
  OBVIOUS
<1> USE BufferAssumption, ShownAssumption DEF Init, FlipInit
<1>1. FlipTypeOK
  BY DEF FlipTypeOK
<1>2. Holding /\ Flipping
  BY DEF Holding, Flipping
<1>3. DrawnInOrder
  BY DEF DrawnInOrder, RingInit, Empty, Background
<1> QED
  BY <1>1, <1>2, <1>3 DEF FlipInv

LEMMA DrawKeeps ==
  ASSUME FlipInv, NEW picture \in Shown, Draw(picture)
  PROVE  FlipInv'
<1> USE BufferAssumption
<1>1. PICK b \in Buffers :
        /\ state[b] = "free" /\ state' = [state EXCEPT ![b] = "back"]
        /\ drawn' = [drawn EXCEPT ![b] = picture] /\ bo' = b
  BY DEF Draw
<1>2. FlipTypeOK'
  BY <1>1 DEF Draw, FlipInv, FlipTypeOK
<1>3. Holding'
  BY <1>1 DEF Draw, FlipInv, FlipTypeOK, Holding
<1>4. Flipping'
  BY <1>1 DEF Draw, FlipInv, FlipTypeOK, Flipping
<1> QED
  BY <1>2, <1>3, <1>4 DEF FlipInv

LEMMA PresentKeeps ==
  ASSUME FlipInv, Present \/ VBlank
  PROVE  FlipInv'
<1> USE BufferAssumption DEF FlipInv, FlipTypeOK
<1>1. ASSUME FlipDone PROVE FlipTypeOK' /\ Holding' /\ Flipping'
  BY <1>1 DEF FlipDone, Holding, Flipping
<1>2. ASSUME FlipTimesOut PROVE FlipTypeOK' /\ Holding' /\ Flipping'
  BY <1>2 DEF FlipTimesOut, Holding, Flipping
<1>3. ASSUME Swap PROVE FlipTypeOK' /\ Holding' /\ Flipping'
  BY <1>3 DEF Swap, Holding, Flipping
<1>4. ASSUME SwapFails \/ AddFbFails PROVE FlipTypeOK' /\ Holding' /\ Flipping'
  BY <1>4 DEF SwapFails, AddFbFails, GiveUp, Holding, Flipping
<1>5. ASSUME AddFb PROVE FlipTypeOK' /\ Holding' /\ Flipping'
  BY <1>5 DEF AddFb, Holding, Flipping
<1>6. ASSUME SetCrtc PROVE FlipTypeOK' /\ Holding' /\ Flipping'
  <2>1. bo \in Buffers /\ [on |-> TRUE, fb |-> bo, flipping |-> FALSE]
                           \in [on : BOOLEAN, fb : Buffers \cup {NoBuffer}, flipping : BOOLEAN]
    BY <1>6 DEF SetCrtc, Holding
  <2>2. FlipTypeOK'
    BY <1>6, <2>1 DEF SetCrtc
  <2>3. Holding'
    BY <1>6 DEF SetCrtc, Holding
  <2>4. CASE crtc' = [on |-> TRUE, fb |-> bo, flipping |-> FALSE] /\ UNCHANGED fault
    BY <1>6, <2>2, <2>3, <2>4 DEF SetCrtc, Flipping
  <2>5. CASE fault' = TRUE
    BY <2>2, <2>3, <2>5 DEF Flipping
  <2> QED
    BY <1>6, <2>2, <2>3, <2>4, <2>5 DEF SetCrtc
<1>7. ASSUME Flip PROVE FlipTypeOK' /\ Holding' /\ Flipping'
  <2>1. bo \in Buffers /\ at = "flip" /\ at' = "release"
    BY <1>7 DEF Flip, Holding
  <2>2. Holding'
    BY <1>7 DEF Flip, Holding
  <2>3. CASE /\ Flippable /\ crtc' = [crtc EXCEPT !.fb = bo, !.flipping = TRUE]
             /\ pending' = TRUE /\ UNCHANGED fault
    <3>1. crtc'.on = crtc.on /\ crtc'.fb = bo /\ crtc'.flipping = TRUE
          /\ crtc' \in [on : BOOLEAN, fb : Buffers \cup {NoBuffer}, flipping : BOOLEAN]
      BY <2>1, <2>3
    <3>2. FlipTypeOK'
      BY <1>7, <2>1, <2>3, <3>1 DEF Flip
    <3>3. event' = event /\ bo' = bo
      BY <1>7 DEF Flip
    <3>4. Flipping'
      BY <2>1, <2>3, <3>1, <3>3 DEF Flipping
    <3> QED
      BY <2>2, <3>2, <3>4
  <2>4. CASE fault' = (fault \/ Flippable) /\ UNCHANGED <<crtc, pending>>
    <3>1. fault' \in BOOLEAN
      BY <2>4
    <3>2. FlipTypeOK'
      BY <1>7, <2>1, <2>4, <3>1 DEF Flip
    <3>3. ~fault => Flippable
      BY <2>1 DEF Flipping, Flippable
    <3>4. Flipping'
      BY <2>4, <3>3 DEF Flipping
    <3> QED
      BY <2>2, <3>2, <3>4
  <2> QED
    BY <1>7, <2>3, <2>4 DEF Flip
<1>8. ASSUME Release PROVE FlipTypeOK' /\ Holding' /\ Flipping'
  <2>1. /\ bo \in Buffers /\ at = "release" /\ at' = "draw" /\ prev' = bo /\ bo' = NoBuffer
        /\ prev # bo /\ drawn' = drawn /\ first' = first /\ pending' = pending /\ fault' = fault
    BY <1>8 DEF Release, Holding
  <2>2. ~first
    BY <2>1 DEF Holding
  <2>3. CASE prev = NoBuffer
    <3>1. UNCHANGED <<state, fbs, crtc, event>>
      BY <1>8, <2>3 DEF Release
    <3>2. FlipTypeOK' /\ Holding'
      BY <2>1, <2>2, <2>3, <3>1 DEF Holding
    <3>3. Flipping'
      BY <2>1, <3>1 DEF Flipping
    <3> QED
      BY <3>2, <3>3
  <2>4. CASE prev # NoBuffer
    <3>1. state' = [state EXCEPT ![prev] = "free"] /\ fbs' = fbs \ {prev}
      BY <1>8, <2>4 DEF Release
    <3>2. \/ UNCHANGED <<crtc, event>>
          \/ /\ crtc.fb = prev /\ event' = (event \/ crtc.flipping)
             /\ crtc' = [on |-> FALSE, fb |-> NoBuffer, flipping |-> FALSE]
      BY <1>8, <2>4 DEF Release
    <3>3. Holding'
      BY <2>1, <2>2, <2>4, <3>1 DEF Holding
    <3>4. event' \in BOOLEAN
          /\ crtc' \in [on : BOOLEAN, fb : Buffers \cup {NoBuffer}, flipping : BOOLEAN]
      <4>1. CASE UNCHANGED <<crtc, event>>
        BY <4>1
      <4>2. CASE /\ event' = (event \/ crtc.flipping)
                 /\ crtc' = [on |-> FALSE, fb |-> NoBuffer, flipping |-> FALSE]
        <5>1. event' \in BOOLEAN
          BY <4>2, Zenon
        <5> QED
          BY <4>2, <5>1
      <4> QED
        BY <3>2, <4>1, <4>2
    <3>5. FlipTypeOK'
      BY <2>1, <3>1, <3>4
    <3>6. ~fault => UNCHANGED <<crtc, event>>
      BY <2>1, <3>2 DEF Flipping
    <3>7. Flipping'
      BY <2>1, <3>6 DEF Flipping
    <3> QED
      BY <3>3, <3>5, <3>7
  <2> QED
    BY <2>3, <2>4
<1>9. ASSUME VBlank PROVE FlipTypeOK' /\ Holding' /\ Flipping'
  BY <1>9 DEF VBlank, Holding, Flipping
<1> QED
  BY <1>1, <1>2, <1>3, <1>4, <1>5, <1>6, <1>7, <1>8, <1>9 DEF Present, FlipInv

\* What is drawn keeps in step with what is taken.
LEMMA DrawnKeeps ==
  ASSUME RingInv, FlipInv, DrawnInOrder, [Next]_vars
  PROVE  FlipInv' /\ DrawnInOrder'
<1> USE BufferAssumption DEF Blank, Background
<1>1. /\ drawn \in [Buffers -> Shown] /\ Shown \subseteq Int /\ {-1} \cup 0..MaxPicture \subseteq Shown
      /\ videoFrame.picture \in 0..MaxPicture /\ MaxPicture \in Nat
  BY RingAssumption, ShownAssumption DEF FlipInv, FlipTypeOK, RingInv, RingTypeOK, Texture
<1>2. ASSUME NEW picture \in Shown, Draw(picture), picture \in {-1, 0, videoFrame'.picture},
             videoFrame'.picture \in Nat, videoFrame'.picture >= videoFrame.picture
      PROVE  FlipInv' /\ DrawnInOrder'
  <2>1. PICK b \in Buffers : drawn' = [drawn EXCEPT ![b] = picture] /\ bo' = b
    BY <1>2 DEF Draw
  <2>2. \A c \in Buffers : drawn'[c] = IF c = b THEN picture ELSE drawn[c]
    BY <1>1, <2>1
  <2>3. \A c \in Buffers : drawn[c] \in Int /\ drawn[c] <= videoFrame.picture
    BY <1>1 DEF DrawnInOrder
  <2>4. DrawnInOrder'
    BY <1>1, <1>2, <2>1, <2>2, <2>3 DEF DrawnInOrder
  <2> QED
    BY <1>2, <2>4, DrawKeeps
<1>3. ASSUME NEW picture, Draw(picture),
             picture = (IF IsValid(videoFrame') THEN videoFrame'.picture ELSE Blank),
             videoFrame'.picture > videoFrame.picture
      PROVE  FlipInv' /\ DrawnInOrder'
  <2>1. videoFrame'.picture \in 0..MaxPicture
    BY RingSteps DEF RingInv, RingTypeOK, Texture
  <2>2. picture \in Shown /\ picture \in {-1, videoFrame'.picture}
    BY <1>1, <1>3, <2>1
  <2> QED
    BY <1>1, <1>2, <1>3, <2>1, <2>2
<1>4. CASE TakeDue
  BY <1>3, <1>4, DueStep DEF TakeDue, DrawTaken
<1>5. CASE TakeNext
  BY <1>3, <1>5, NextStep DEF TakeNext, DrawTaken
<1>6. CASE Repeat
  <2> DEFINE picture == IF IsValid(videoFrame) THEN videoFrame.picture ELSE Background
  <2>1. Draw(picture) /\ videoFrame' = videoFrame
    BY <1>6 DEF Repeat, ringVars
  <2>2. picture \in Shown /\ picture \in {-1, 0, videoFrame.picture}
    BY <1>1
  <2> QED
    BY <1>1, <1>2, <2>1, <2>2
<1>7. CASE (Present \/ VBlank) /\ UNCHANGED ringVars
  <2>1. FlipInv'
    BY <1>7, PresentKeeps
  <2>2. drawn' = drawn /\ videoFrame' = videoFrame /\ (bo' = bo \/ bo' = NoBuffer)
    BY <1>7 DEF ringVars, Present, FlipDone, FlipTimesOut, Swap, SwapFails, AddFb, AddFbFails,
                GiveUp, SetCrtc, Flip, Release, VBlank
  <2> QED
    BY <2>1, <2>2 DEF DrawnInOrder
<1>8. CASE UNCHANGED flipVars /\ (Push \/ UNCHANGED vars)
  <2>1. videoFrame' = videoFrame
    BY <1>8 DEF Push, RingPush, vars, ringVars
  <2>2. FlipInv'
    BY <1>8 DEF flipVars, FlipInv, FlipTypeOK, Holding, Flipping
  <2> QED
    BY <1>8, <2>1, <2>2 DEF flipVars, DrawnInOrder
<1> QED
  BY <1>4, <1>5, <1>6, <1>7, <1>8 DEF Next, Push, vars

IInv == RingInv /\ FlipInv /\ DrawnInOrder

\* What every reachable state satisfies.
THEOREM FramePathSafe == Spec => []IInv
<1>1. Init => IInv
  BY RingStart, FlipStart DEF IInv
<1>2. IInv /\ [Next]_vars => IInv'
  BY RingSteps, DrawnKeeps DEF IInv
<1> QED
  BY <1>1, <1>2, PTL DEF Spec

\* The variables keep their types.
THEOREM TypeSafe == Spec => []TypeOK
<1>1. IInv => TypeOK
  BY DEF IInv, RingInv, FlipInv, TypeOK
<1> QED
  BY <1>1, FramePathSafe, PTL

\* For any number of buffers, present() never holds more than the buffer before
\* and the one it is at work on, whatever fails.
THEOREM TwoHeld == Spec => []OnlyTwoHeld
<1>1. IInv => OnlyTwoHeld
  BY DEF IInv, FlipInv, FlipTypeOK, Holding, OnlyTwoHeld
<1> QED
  BY <1>1, FramePathSafe, PTL

\* The display stays lit as long as flips complete in time and are not refused
\* without cause.
THEOREM Lit == Spec => []StaysLit
<1>1. IInv => StaysLit
  BY DEF IInv, FlipInv, FlipTypeOK, Holding, Flipping, StaysLit
<1> QED
  BY <1>1, FramePathSafe, PTL

\* For every capacity and number of buffers, frames reach the display in the
\* order in which they were decoded.
THEOREM NeverBackwards == Spec => FlipsForward
<1>1. ASSUME IInv, [Next]_vars, crtc'.fb # crtc.fb, crtc'.fb \in Buffers, drawn[crtc'.fb] > Background
      PROVE  \A b \in Buffers : drawn[b] <= drawn[crtc'.fb]
  <2>1. crtc'.fb = bo /\ bo # NoBuffer
    <3>1. crtc' # crtc
      BY <1>1
    <3>2. SetCrtc \/ Flip \/ Release \/ VBlank
      BY <1>1, <3>1 DEF Next, Push, TakeDue, TakeNext, DrawTaken, Repeat, Draw, Present, FlipDone,
                        FlipTimesOut, Swap, SwapFails, AddFb, AddFbFails, GiveUp, vars, flipVars
    <3>3. crtc \in [on : BOOLEAN, fb : Buffers \cup {NoBuffer}, flipping : BOOLEAN]
      BY <1>1 DEF IInv, FlipInv, FlipTypeOK
    <3>4. CASE SetCrtc
      BY <1>1, <3>4, BufferAssumption DEF SetCrtc
    <3>5. CASE Flip
      BY <1>1, <3>3, <3>5, BufferAssumption DEF Flip
    <3>6. CASE Release
      BY <1>1, <3>6, BufferAssumption DEF Release
    <3>7. CASE VBlank
      BY <1>1, <3>3, <3>7 DEF VBlank
    <3> QED
      BY <3>2, <3>4, <3>5, <3>6, <3>7
  <2>2. drawn[bo] = videoFrame.picture
    BY <1>1, <2>1 DEF IInv, DrawnInOrder, Blank, Background
  <2> QED
    BY <1>1, <2>1, <2>2 DEF IInv, DrawnInOrder
<1>2. IInv /\ [Next]_vars =>
        [crtc'.fb \in Buffers /\ drawn[crtc'.fb] > Background
         => \A b \in Buffers : drawn[b] <= drawn[crtc'.fb]]_(crtc.fb)
  BY <1>1
<1> QED
  BY <1>2, FramePathSafe, PTL DEF Spec, FlipsForward
=============================================================================
