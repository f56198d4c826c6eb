------------------------- MODULE ReplayWindowProofs -------------------------
(***************************************************************************)
(* The replay window is exact, for every size of the ring.  The argument:  *)
(* counters of the window lie in fewer words than the ring has, so no two  *)
(* of them share a bit (SlotInjective), and the words a slide clears hold  *)
(* only counters that leave the window (SlideSpares).                      *)
(***************************************************************************)
EXTENDS ReplayWindow, TLAPS

\* Division with remainder.
LEMMA DivMod ==
    ASSUME NEW n \in Nat, NEW d \in Nat \ {0}
    PROVE  /\ n \div d \in Nat
           /\ n % d \in 0 .. d - 1
           /\ n = (d * (n \div d)) + (n % d)
BY SMTT(30)

\* Multiplication is monotone.
LEMMA MulMono ==
    ASSUME NEW a \in Int, NEW b \in Int, NEW d \in Nat \ {0}, a < b
    PROVE  d * a + d <= d * b
BY SMTT(30)

\* Numbers closer together than d have different remainders.
LEMMA ModDistinct ==
    ASSUME NEW d \in Nat \ {0}, NEW v \in Nat, NEW w \in Nat,
           v < w, w - v < d
    PROVE  v % d # w % d
<1> DEFINE qv == v \div d
           qw == w \div d
<1>1. /\ qv \in Nat /\ v % d \in 0 .. d - 1 /\ v = (d * qv) + (v % d)
      /\ qw \in Nat /\ w % d \in 0 .. d - 1 /\ w = (d * qw) + (w % d)
  BY ZenonT(30), DivMod
<1> SUFFICES ASSUME v % d = w % d PROVE FALSE
  OBVIOUS
<1> HIDE DEF qv, qw
<1>2. CASE qv < qw
  <2>1. (d * qv) + d <= d * qw
    BY <1>1, <1>2, MulMono
  <2> QED
    BY <1>1, <2>1
<1>3. CASE qw < qv
  <2>1. (d * qw) + d <= d * qv
    BY <1>1, <1>3, MulMono
  <2> QED
    BY <1>1, <2>1
<1>4. CASE qv = qw
  BY <1>1, <1>4
<1> QED
  BY <1>1, <1>2, <1>3, <1>4

\* Division is monotone.
LEMMA DivMonotone ==
    ASSUME NEW d \in Nat \ {0}, NEW v \in Nat, NEW w \in Nat, v <= w
    PROVE  v \div d <= w \div d
<1> DEFINE qv == v \div d
           qw == w \div d
<1>1. /\ qv \in Nat /\ v % d \in 0 .. d - 1 /\ v = (d * qv) + (v % d)
      /\ qw \in Nat /\ w % d \in 0 .. d - 1 /\ w = (d * qw) + (w % d)
  BY DivMod
<1> HIDE DEF qv, qw
<1> SUFFICES ASSUME qw < qv PROVE FALSE
  BY <1>1 DEF qv, qw
<1>2. (d * qw) + d <= d * qv
  BY <1>1, MulMono
<1> QED
  BY <1>1, <1>2

\* Counters less than REPLAY_BITS apart lie in words less than REPLAY_WORDS
\* apart: the window never wraps onto itself.
LEMMA WindowSpan ==
    ASSUME NEW c \in Nat, NEW e \in Nat, c <= e, e - c < REPLAY_BITS
    PROVE  (e \div WordBits) - (c \div WordBits) < REPLAY_WORDS
<1> DEFINE qc == c \div WordBits
           qe == e \div WordBits
<1>1. /\ WordBits \in Nat \ {0} /\ REPLAY_WORDS \in Nat \ {0}
      /\ qc \in Nat /\ c % WordBits \in 0 .. WordBits - 1
      /\ c = (WordBits * qc) + (c % WordBits)
      /\ qe \in Nat /\ e % WordBits \in 0 .. WordBits - 1
      /\ e = (WordBits * qe) + (e % WordBits)
  BY ZenonT(30), DivMod, SizesAssumption
<1> HIDE DEF qc, qe
<1> SUFFICES ASSUME qe - qc >= REPLAY_WORDS PROVE FALSE
  BY <1>1 DEF qc, qe
<1>2. (WordBits * (qc + REPLAY_WORDS - 1)) + WordBits <= WordBits * qe
  <2>1. qc + REPLAY_WORDS - 1 < qe
    BY <1>1
  <2> QED
    BY <1>1, <2>1, MulMono
<1>3. WordBits * (qc + REPLAY_WORDS - 1) = (WordBits * qc) + REPLAY_BITS
  BY <1>1 DEF REPLAY_BITS
<1>4. REPLAY_BITS \in Int /\ WordBits * qc \in Int /\ WordBits * qe \in Int
  BY <1>1 DEF REPLAY_BITS
<1> QED
  BY <1>1, <1>2, <1>3, <1>4

\* Every counter has a word of the ring and a bit of that word.
LEMMA SlotType ==
    ASSUME NEW c \in Nat
    PROVE  SlotWord(c) \in Slots /\ SlotBit(c) \in Bits
<1>1. c \div WordBits \in Nat
  BY DivMod, SizesAssumption
<1> QED
  BY <1>1, DivMod, SizesAssumption DEF SlotWord, SlotBit, Slots, Bits

\* Two counters in words less than REPLAY_WORDS apart share a bit of the ring
\* only if they are the same counter.
LEMMA SlotInjective ==
    ASSUME NEW c \in Nat, NEW e \in Nat,
           (e \div WordBits) - (c \div WordBits) < REPLAY_WORDS,
           (c \div WordBits) - (e \div WordBits) < REPLAY_WORDS,
           SlotWord(c) = SlotWord(e), SlotBit(c) = SlotBit(e)
    PROVE  c = e
<1>1. /\ c \div WordBits \in Nat
      /\ e \div WordBits \in Nat
      /\ c = (WordBits * (c \div WordBits)) + (c % WordBits)
      /\ e = (WordBits * (e \div WordBits)) + (e % WordBits)
  BY ZenonT(30), DivMod, SizesAssumption
<1>2. c \div WordBits = e \div WordBits
  <2>1. CASE c \div WordBits < e \div WordBits
    BY ZenonT(30), <1>1, <2>1, ModDistinct, SizesAssumption DEF SlotWord
  <2>2. CASE e \div WordBits < c \div WordBits
    BY ZenonT(30), <1>1, <2>2, ModDistinct, SizesAssumption DEF SlotWord
  <2> QED
    BY <1>1, <2>1, <2>2
<1> QED
  BY <1>1, <1>2 DEF SlotBit

\* Marking a counter sets its bit and no other.
LEMMA MarkIsSet ==
    ASSUME NEW b \in [Slots -> SUBSET Bits], NEW c \in Nat, NEW e \in Nat
    PROVE  /\ Mark(b, e) \in [Slots -> SUBSET Bits]
           /\ IsSet(Mark(b, e), c) <=>
                 \/ IsSet(b, c)
                 \/ SlotWord(c) = SlotWord(e) /\ SlotBit(c) = SlotBit(e)
BY SlotType DEF Mark, IsSet

\* A slide clears the words between the old and the new highest counter, and
\* only those.
LEMMA SlideIsSet ==
    ASSUME NEW b \in [Slots -> SUBSET Bits], NEW c \in Nat,
           NEW from \in Nat, NEW to \in Nat
    PROVE  /\ Slide(b, from, to) \in [Slots -> SUBSET Bits]
           /\ IsSet(Slide(b, from, to), c) <=>
                 IsSet(b, c) /\ SlotWord(c) \notin SlidOver(from, to)
BY SlotType DEF Slide, IsSet

\* A slide spares the words at or below `from' that are still in the ring.
LEMMA SlideSpares ==
    ASSUME NEW c \in Nat, NEW from \in Nat, NEW to \in Nat,
           c \div WordBits <= from \div WordBits,
           (to \div WordBits) - (c \div WordBits) < REPLAY_WORDS
    PROVE  SlotWord(c) \notin SlidOver(from, to)
<1>1. /\ c \div WordBits \in Nat
      /\ from \div WordBits \in Nat
      /\ to \div WordBits \in Nat
  BY DivMod, SizesAssumption
<1> SUFFICES ASSUME NEW w \in ((from \div WordBits) + 1) .. (to \div WordBits),
                    (c \div WordBits) % REPLAY_WORDS = w % REPLAY_WORDS
             PROVE  FALSE
  BY DEF SlotWord, SlidOver
<1>2. /\ w \in Nat /\ c \div WordBits < w
      /\ w - (c \div WordBits) < REPLAY_WORDS
  BY <1>1, SizesAssumption
<1> QED
  BY ZenonT(30), <1>1, <1>2, ModDistinct, SizesAssumption

-----------------------------------------------------------------------------
(* The invariant.                                                          *)

\* The empty window satisfies the invariant.
LEMMA InitInv == Init => TypeOK /\ WindowInv
BY SlotType, CounterAssumption
   DEF Init, TypeOK, WindowInv, EmptyBitmap, IsSet, Counters

\* A counter above the window preserves the invariant: the words the slide
\* clears hold only counters that leave the window.
LEMMA AdvanceInv ==
    ASSUME TypeOK, WindowInv, NEW counter \in Counters, Advance(counter)
    PROVE  TypeOK' /\ WindowInv'
<1> DEFINE base == IF counter - last >= REPLAY_BITS THEN EmptyBitmap
                                                    ELSE Slide(bitmap, last, counter)
<1>1. /\ last \in Nat /\ counter \in Nat /\ counter > last
      /\ bitmap \in [Slots -> SUBSET Bits]
      /\ REPLAY_BITS \in Int
      /\ Counters \subseteq Nat
  BY CounterAssumption, SizesAssumption
     DEF TypeOK, Counters, Advance, REPLAY_BITS
<1>2. base \in [Slots -> SUBSET Bits]
  BY <1>1, SlideIsSet DEF EmptyBitmap
<1>3. /\ bitmap' = Mark(base, counter)
      /\ last' = counter
      /\ accepted' = accepted \cup {counter}
  BY DEF Advance
<1>4. ASSUME NEW c \in Nat
      PROVE  IsSet(bitmap', c) <=>
                \/ IsSet(base, c)
                \/ SlotWord(c) = SlotWord(counter) /\ SlotBit(c) = SlotBit(counter)
  BY <1>1, <1>2, <1>3, MarkIsSet
<1>5. ASSUME NEW c \in Nat
      PROVE  c \div WordBits \in Nat
  BY DivMod, SizesAssumption
<1>6. TypeOK'
  BY <1>1, <1>2, <1>3, MarkIsSet DEF TypeOK
<1>7. ASSUME NEW c \in accepted'
      PROVE  c <= last'
  BY <1>1, <1>3 DEF WindowInv, TypeOK
<1>8. ASSUME NEW c \in Counters, c <= last', last' - c < REPLAY_BITS
      PROVE  IsSet(bitmap', c) <=> c \in accepted'
  <2>1. /\ c \in Nat /\ c <= counter /\ counter - c < REPLAY_BITS
        /\ (counter \div WordBits) - (c \div WordBits) < REPLAY_WORDS
        /\ c \div WordBits <= counter \div WordBits
    BY <1>1, <1>3, <1>8, WindowSpan, DivMonotone, SizesAssumption
  <2>2. CASE c = counter
    BY <1>1, <1>3, <1>4, <2>2
  <2>3. CASE c # counter
    <3>1. ~(SlotWord(c) = SlotWord(counter) /\ SlotBit(c) = SlotBit(counter))
      <4>1. (c \div WordBits) - (counter \div WordBits) < REPLAY_WORDS
        BY <1>1, <1>5, <2>1, SizesAssumption
      <4> QED
        BY <1>1, <2>1, <2>3, <4>1, SlotInjective
    <3>2. IsSet(base, c) <=> c \in accepted
      <4>1. CASE counter - last >= REPLAY_BITS
        <5>1. ~IsSet(base, c)
          BY <2>1, <4>1, SlotType DEF EmptyBitmap, IsSet
        <5>2. c > last
          BY <1>1, <2>1, <4>1
        <5> QED
          BY <1>1, <5>1, <5>2 DEF WindowInv, TypeOK
      <4>2. CASE ~(counter - last >= REPLAY_BITS) /\ c <= last
        <5>1. last - c < REPLAY_BITS
          BY <1>1, <2>1, <4>2
        <5>2. SlotWord(c) \notin SlidOver(last, counter)
          BY ZenonT(30), <1>1, <2>1, <4>2, SlideSpares, DivMonotone, SizesAssumption
        <5>3. IsSet(base, c) <=> IsSet(bitmap, c)
          BY <1>1, <2>1, <4>2, <5>2, SlideIsSet
        <5> QED
          BY <1>8, <4>2, <5>1, <5>3 DEF WindowInv
      <4>3. CASE ~(counter - last >= REPLAY_BITS) /\ c > last
        <5>1. c \notin accepted
          BY <1>1, <2>1, <4>3 DEF WindowInv, TypeOK
        <5>2. IsSet(base, c) <=>
                 IsSet(bitmap, c) /\ SlotWord(c) \notin SlidOver(last, counter)
          BY <1>1, <2>1, <4>3, SlideIsSet
        <5>3. CASE c \div WordBits = last \div WordBits
          BY <1>8, <4>3, <5>1, <5>2, <5>3 DEF WindowInv
        <5>4. CASE c \div WordBits # last \div WordBits
          <6>1. last \div WordBits <= c \div WordBits
            BY <1>1, <2>1, <4>3, DivMonotone, SizesAssumption
          <6>2. c \div WordBits \in ((last \div WordBits) + 1) .. (counter \div WordBits)
            BY <1>1, <1>5, <2>1, <5>4, <6>1
          <6>3. SlotWord(c) \in SlidOver(last, counter)
            BY <6>2 DEF SlotWord, SlidOver
          <6> QED
            BY <5>1, <5>2, <6>3
        <5> QED
          BY <5>3, <5>4
      <4> QED
        BY <1>1, <2>1, <4>1, <4>2, <4>3
    <3> QED
      BY <1>3, <1>4, <2>1, <2>3, <3>1, <3>2
  <2> QED
    BY <2>2, <2>3
<1>9. ASSUME NEW c \in Counters, c > last', c \div WordBits = last' \div WordBits
      PROVE  ~IsSet(bitmap', c)
  <2>1. /\ c \in Nat /\ c > counter /\ c > last
        /\ c \div WordBits = counter \div WordBits
    BY <1>1, <1>3, <1>9
  <2>2. ~(SlotWord(c) = SlotWord(counter) /\ SlotBit(c) = SlotBit(counter))
    <3>1. /\ (c \div WordBits) - (counter \div WordBits) < REPLAY_WORDS
          /\ (counter \div WordBits) - (c \div WordBits) < REPLAY_WORDS
      BY <1>1, <1>5, <2>1, SizesAssumption
    <3> QED
      BY <1>1, <2>1, <3>1, SlotInjective
  <2>3. ~IsSet(base, c)
    <3>1. CASE counter - last >= REPLAY_BITS
      BY <2>1, <3>1, SlotType DEF EmptyBitmap, IsSet
    <3>2. CASE ~(counter - last >= REPLAY_BITS)
      <4>1. IsSet(base, c) <=>
               IsSet(bitmap, c) /\ SlotWord(c) \notin SlidOver(last, counter)
        BY <1>1, <2>1, <3>2, SlideIsSet
      <4>2. CASE counter \div WordBits = last \div WordBits
        BY <2>1, <4>1, <4>2 DEF WindowInv
      <4>3. CASE counter \div WordBits # last \div WordBits
        <5>1. last \div WordBits <= counter \div WordBits
          BY <1>1, DivMonotone, SizesAssumption
        <5>2. c \div WordBits \in ((last \div WordBits) + 1) .. (counter \div WordBits)
          BY <1>1, <1>5, <2>1, <4>3, <5>1
        <5>3. SlotWord(c) \in SlidOver(last, counter)
          BY <5>2 DEF SlotWord, SlidOver
        <5> QED
          BY <4>1, <5>3
      <4> QED
        BY <4>2, <4>3
    <3> QED
      BY <3>1, <3>2
  <2> QED
    BY <1>4, <2>1, <2>2, <2>3
<1> QED
  BY <1>6, <1>7, <1>8, <1>9 DEF WindowInv

\* A counter inside the window preserves the invariant.
LEMMA FillInInv ==
    ASSUME TypeOK, WindowInv, NEW counter \in Counters, FillIn(counter)
    PROVE  TypeOK' /\ WindowInv'
<1>1. /\ last \in Nat /\ counter \in Nat /\ counter <= last
      /\ last - counter < REPLAY_BITS
      /\ bitmap \in [Slots -> SUBSET Bits]
      /\ REPLAY_BITS \in Int
      /\ Counters \subseteq Nat
  BY CounterAssumption, SizesAssumption
     DEF TypeOK, Counters, FillIn, Accepts, REPLAY_BITS
<1>2. /\ bitmap' = Mark(bitmap, counter)
      /\ last' = last
      /\ accepted' = accepted \cup {counter}
  BY DEF FillIn
<1>3. ASSUME NEW c \in Nat
      PROVE  IsSet(bitmap', c) <=>
                \/ IsSet(bitmap, c)
                \/ SlotWord(c) = SlotWord(counter) /\ SlotBit(c) = SlotBit(counter)
  BY <1>1, <1>2, MarkIsSet
<1>4. /\ (last \div WordBits) - (counter \div WordBits) < REPLAY_WORDS
      /\ counter \div WordBits <= last \div WordBits
  BY ZenonT(30), <1>1, WindowSpan, DivMonotone, SizesAssumption
<1>5. ASSUME NEW c \in Nat
      PROVE  c \div WordBits \in Nat
  BY DivMod, SizesAssumption
<1>6. TypeOK'
  BY <1>1, <1>2, MarkIsSet DEF TypeOK
<1>7. ASSUME NEW c \in accepted'
      PROVE  c <= last'
  BY <1>1, <1>2 DEF WindowInv
<1>8. ASSUME NEW c \in Counters, c <= last', last' - c < REPLAY_BITS
      PROVE  IsSet(bitmap', c) <=> c \in accepted'
  <2>1. /\ c \in Nat
        /\ (last \div WordBits) - (c \div WordBits) < REPLAY_WORDS
        /\ c \div WordBits <= last \div WordBits
    BY ZenonT(30), <1>1, <1>2, <1>8, WindowSpan, DivMonotone, SizesAssumption
  <2>2. /\ (c \div WordBits) - (counter \div WordBits) < REPLAY_WORDS
        /\ (counter \div WordBits) - (c \div WordBits) < REPLAY_WORDS
    BY <1>1, <1>4, <1>5, <2>1, SizesAssumption
  <2>3. IsSet(bitmap, c) <=> c \in accepted
    BY <1>2, <1>8 DEF WindowInv
  <2> QED
    BY <1>1, <1>2, <1>3, <2>1, <2>2, <2>3, SlotInjective
<1>9. ASSUME NEW c \in Counters, c > last', c \div WordBits = last' \div WordBits
      PROVE  ~IsSet(bitmap', c)
  <2>1. /\ c \in Nat /\ c # counter
        /\ (c \div WordBits) - (counter \div WordBits) < REPLAY_WORDS
        /\ (counter \div WordBits) - (c \div WordBits) < REPLAY_WORDS
    BY <1>1, <1>2, <1>4, <1>5, <1>9, SizesAssumption
  <2>2. ~IsSet(bitmap, c)
    BY <1>2, <1>9 DEF WindowInv
  <2> QED
    BY <1>1, <1>3, <2>1, <2>2, SlotInjective
<1> QED
  BY <1>6, <1>7, <1>8, <1>9 DEF WindowInv

\* check_and_update preserves the invariant.
LEMMA NextInv == TypeOK /\ WindowInv /\ [Next]_vars => TypeOK' /\ WindowInv'
<1> SUFFICES ASSUME TypeOK, WindowInv, [Next]_vars
             PROVE  TypeOK' /\ WindowInv'
  OBVIOUS
<1>1. CASE Next
  <2>1. PICK counter \in Counters :
               Advance(counter) \/ FillIn(counter) \/ Reject(counter)
    BY <1>1 DEF Next
  <2>2. CASE Reject(counter)
    BY <2>2 DEF Reject, vars, TypeOK, WindowInv, IsSet
  <2> QED
    BY <2>1, <2>2, AdvanceInv, FillInInv
<1>2. CASE UNCHANGED vars
  BY <1>2 DEF vars, TypeOK, WindowInv, IsSet
<1> QED
  BY <1>1, <1>2

\* The types and the invariant hold in every reachable state.
LEMMA Invariance == Spec => [](TypeOK /\ WindowInv)
BY InitInv, NextInv, PTL DEF Spec

-----------------------------------------------------------------------------

\* For every word size, ring size and counter bound, the window of
\* check_and_update answers as a complete record of the accepted counters
\* would.
THEOREM WindowIsExact == Spec => []WindowExact
<1>1. TypeOK /\ WindowInv => WindowExact
  BY CounterAssumption DEF TypeOK, WindowInv, WindowExact, Accepts, Counters
<1> QED
  BY <1>1, Invariance, PTL

\* For every word size, ring size and counter bound, check_and_update never
\* returns true twice for the same counter.
THEOREM NoReplay == Spec => AcceptedOnce
<1>1. TypeOK /\ WindowInv /\ [Next]_vars
        => [\A counter \in Counters :
              Advance(counter) \/ FillIn(counter) => counter \notin accepted]_vars
  BY CounterAssumption
     DEF TypeOK, WindowInv, Advance, FillIn, Accepts, Counters
<1> QED
  BY <1>1, Invariance, PTL DEF Spec, AcceptedOnce
=============================================================================
