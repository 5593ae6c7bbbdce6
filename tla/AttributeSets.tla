------------------------------ MODULE AttributeSets ------------------------------
(***************************************************************************)
(* AttributeSet<T>: a bit array indexed by the code, and its iterators.    *)
(* The array is made of whole elements (u8), so it may have room for more  *)
(* codes than T::COUNT.                                                    *)
(***************************************************************************)
EXTENDS Integers, SequencesExt

CONSTANTS
    Count,    \* T::COUNT
    Element,  \* bits of an element of the array (8)
    Codes     \* codes callers use, larger ones among them

ASSUME AttributeSetAssumption ==
    Count \in Nat /\ Element \in Nat \ {0} /\ Codes \subseteq Nat

VARIABLES
    container,  \* the set bits
    inner,      \* bits the iterator has still to visit, or NoIterator
    offset,     \* of the iterator
    front, back \* history: what next and next_back have returned

setVars == <<container, inner, offset, front, back>>

NoIterator == {-1}

Room == Element * ((Count + Element - 1) \div Element)
Bits == 0 .. Room - 1

SetTypeOK ==
    /\ container \subseteq Bits
    /\ inner = NoIterator \/ inner \subseteq Bits
    /\ offset \in 0 .. Room
    /\ front \in Seq(Nat) /\ back \in Seq(Nat)

SetInit == container = {} /\ inner = NoIterator /\ offset = 0 /\ front = <<>> /\ back = <<>>

-----------------------------------------------------------------------------
(* insert, remove and contains take any code: contains says FALSE beyond   *)
(* the array, the other two panic before they change anything.             *)

InContainer(a) == a \in Bits /\ a \in container

SetBit(a, on) ==
    /\ inner = NoIterator /\ a \in Bits
    /\ container' = IF on THEN container \cup {a} ELSE container \ {a}
    /\ UNCHANGED <<inner, offset, front, back>>

\* An ioctl writes into as_mut_raw_slice, or another set is cloned into it.
FillRaw(bits) ==
    /\ inner = NoIterator
    /\ container' = bits
    /\ UNCHANGED <<inner, offset, front, back>>

\* AttributeSet::from_iter.
FromIter(codes) ==
    /\ inner = NoIterator /\ codes \subseteq Bits
    /\ container' = codes
    /\ UNCHANGED <<inner, offset, front, back>>

-----------------------------------------------------------------------------
(* Iteration borrows the set, so nothing changes it meanwhile.             *)

\* slice_iter: the ones of the slice from start, which
\* count from its beginning.  A slice may start at its end, not beyond it: the
\* engine asks for the code after the last one.
SliceIter(start) ==
    /\ inner = NoIterator
    /\ inner' = {b - start : b \in {x \in container : x >= start}}
    /\ offset' = start
    /\ front' = <<>> /\ back' = <<>>
    /\ UNCHANGED container

FromIndexPlain(i) == i
FromIndex(i) == offset + i

Iter == SliceIter(0)

Next1 ==
    /\ inner \notin {NoIterator, {}}
    /\ front' = Append(front, FromIndex(Min(inner)))
    /\ inner' = inner \ {Min(inner)}
    /\ UNCHANGED <<container, offset, back>>

\* next_back does not add the offset: slice_iter, which sets one, is only
\* used forwards.
NextBack ==
    /\ inner \notin {NoIterator, {}} /\ offset = 0
    /\ back' = Append(back, Max(inner))
    /\ inner' = inner \ {Max(inner)}
    /\ UNCHANGED <<container, offset, front>>

DropIter ==
    /\ inner # NoIterator
    /\ inner' = NoIterator /\ offset' = 0
    /\ front' = <<>> /\ back' = <<>>
    /\ UNCHANGED container

SetNext ==
    \/ \E a \in Codes : SetBit(a, TRUE) \/ SetBit(a, FALSE)
    \/ \E s \in SUBSET Bits : FillRaw(s) \/ FromIter(s)
    \/ \E a \in 0 .. Room : SliceIter(a)
    \/ Iter \/ Next1 \/ NextBack \/ DropIter

-----------------------------------------------------------------------------
\* An iterator yields the members of the set from its start on: ascending
\* from the front, descending from the back, each of them once, whichever
\* ends are taken, and when nothing is left none is missing (SliceIter,
\* AttributeSetRefIter::next and next_back).
SetIterates ==
    inner # NoIterator =>
      LET got == front \o Reverse(back)
      IN  /\ \A i, j \in 1 .. Len(got) : i < j => got[i] < got[j]
          /\ ToSet(got) \subseteq {a \in Codes \cup Bits : InContainer(a) /\ a >= offset}
          /\ Len(got) + Cardinality(inner)
                 = Cardinality({b \in container : b >= offset})

=============================================================================
