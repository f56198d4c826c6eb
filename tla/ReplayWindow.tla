---------------------------- MODULE ReplayWindow ----------------------------
(***************************************************************************)
(* The anti-replay window of one WireGuard session: `struct ReplayWindow'  *)
(* of crates/tsnode/src/wireguard.rs, an RFC 6479 ring of bitmap words.    *)
(*                                                                         *)
(* The code stores REPLAY_WORDS = 32 words of 64 bits and remembers, of    *)
(* the counters at most REPLAY_BITS behind the highest one accepted, which *)
(* were already accepted.  Here both sizes are constants, a word is the    *)
(* set of its bits that are 1, and the history variable `accepted' (not in *)
(* the code) collects every counter that was ever let through.             *)
(***************************************************************************)
EXTENDS Integers

CONSTANTS WordBits,      \* bits in a word: 64 in the code
          REPLAY_WORDS,  \* words in the ring: 32 in the code
          MaxCounter     \* bound: the highest counter a packet may carry

ASSUME SizesAssumption ==
    /\ WordBits \in Nat \ {0}
    /\ REPLAY_WORDS \in Nat \ {0}

ASSUME CounterAssumption == MaxCounter \in Nat

VARIABLES last,      \* highest counter accepted so far (0 at first)
          bitmap,    \* the ring: word -> the bits that are set
          accepted   \* history: all counters accepted so far

vars == <<last, bitmap, accepted>>

\* One word of the ring stays in reserve, so a slide never clears a word that
\* still holds counters of the window.
REPLAY_BITS == (REPLAY_WORDS - 1) * WordBits

Slots == 0 .. REPLAY_WORDS - 1
Bits == 0 .. WordBits - 1
Counters == 0 .. MaxCounter

EmptyBitmap == [w \in Slots |-> {}]

-----------------------------------------------------------------------------
(* The operations of the window, as functions of the ring.                 *)

\* slot: the word of the ring, and the bit in it, that stand for a counter.
SlotWord(counter) == (counter \div WordBits) % REPLAY_WORDS

SlotBit(counter) == counter % WordBits

IsSet(b, counter) == SlotBit(counter) \in b[SlotWord(counter)]

\* mark
Mark(b, counter) ==
    [b EXCEPT ![SlotWord(counter)] = @ \cup {SlotBit(counter)}]

\* Mutant: the loop starts a word too late, or a word too early.
SlidOverShort(from, to) ==
    {w % REPLAY_WORDS : w \in ((from \div WordBits) + 2) .. (to \div WordBits)}

SlidOverLong(from, to) ==
    {w % REPLAY_WORDS : w \in (from \div WordBits) .. (to \div WordBits)}

\* The words the while loop of check_and_update clears when the highest
\* counter moves from `from' to `to'.
SlidOver(from, to) ==
    {w % REPLAY_WORDS : w \in ((from \div WordBits) + 1) .. (to \div WordBits)}

Slide(b, from, to) ==
    [w \in Slots |-> IF w \in SlidOver(from, to) THEN {} ELSE b[w]]

-----------------------------------------------------------------------------

\* What check_and_update answers for a counter in the current state.
Accepts(counter) ==
    \/ counter > last
    \/ last - counter < REPLAY_BITS /\ ~IsSet(bitmap, counter)

Init ==
    /\ last = 0
    /\ bitmap = EmptyBitmap
    /\ accepted = {}

\* check_and_update, a counter above every earlier one: the window moves up.
Advance(counter) ==
    /\ counter > last
    /\ bitmap' = Mark(IF counter - last >= REPLAY_BITS
                        THEN EmptyBitmap
                        ELSE Slide(bitmap, last, counter),
                      counter)
    /\ last' = counter
    /\ accepted' = accepted \cup {counter}

\* check_and_update, an older counter inside the window that was not seen yet.
FillIn(counter) ==
    /\ counter <= last
    /\ Accepts(counter)
    /\ bitmap' = Mark(bitmap, counter)
    /\ accepted' = accepted \cup {counter}
    /\ UNCHANGED last

\* check_and_update returning false: too old, or already seen.
Reject(counter) ==
    /\ ~Accepts(counter)
    /\ UNCHANGED vars

Next == \E counter \in Counters :
            Advance(counter) \/ FillIn(counter) \/ Reject(counter)

Spec == Init /\ [][Next]_vars

-----------------------------------------------------------------------------

\* Type invariant: the ring keeps REPLAY_WORDS words of WordBits bits.
TypeOK ==
    /\ last \in Counters
    /\ bitmap \in [Slots -> SUBSET Bits]
    /\ accepted \in SUBSET Counters

\* The ring forgets nothing inside the window and invents nothing: the answer
\* check_and_update gives for any counter is the one a complete record of the
\* accepted counters would give.  A slide that clears one word too many lets a
\* replay through; one that clears a word too few drops fresh packets.
WindowExact ==
    \A counter \in Counters :
        Accepts(counter) <=> /\ counter \notin accepted
                             /\ \/ counter > last
                                \/ last - counter < REPLAY_BITS

\* No counter is accepted twice, whatever was accepted in between: the packet
\* behind it is handed on at most once.
AcceptedOnce ==
    [][\A counter \in Counters :
          Advance(counter) \/ FillIn(counter) => counter \notin accepted]_vars

\* The inductive strengthening: inside the window a bit is set exactly for the
\* accepted counters, nothing above `last' was accepted, and the bits above
\* `last' in the newest word are clear.
WindowInv ==
    /\ \A counter \in accepted : counter <= last
    /\ \A counter \in Counters :
          counter <= last /\ last - counter < REPLAY_BITS
             => (IsSet(bitmap, counter) <=> counter \in accepted)
    /\ \A counter \in Counters :
          counter > last /\ counter \div WordBits = last \div WordBits
             => ~IsSet(bitmap, counter)
=============================================================================
