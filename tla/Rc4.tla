--------------------------------- MODULE Rc4 ---------------------------------
(***************************************************************************)
(* The RC4 key state (src/rc4.rs), over bytes of Radix values. A state is  *)
(* [box, index1, index2]; what transforms bytes gives the state after them *)
(* too.                                                                    *)
(***************************************************************************)
EXTENDS Bytes
LOCAL INSTANCE Bitwise

Swap(box, i, j) == [box EXCEPT ![i] = box[j], ![j] = box[i]]

\* The key schedule of Rc4KeyState::new, from one index to another, by halves.
RECURSIVE Schedule(_, _, _, _)
Schedule(key, s, first, last) ==
    LET i == first
        j == (s.index2 + s.box[i] + key[(i % Len(key)) + 1]) % Radix
        middle == (first + last) \div 2
    IN  IF first = last
        THEN [s EXCEPT !.box = Swap(s.box, i, j), !.index2 = j]
        ELSE Schedule(key, Schedule(key, s, first, middle), middle + 1, last)

KeyState(key) ==
    LET identity == [box |-> [i \in 0 .. Top |-> i], index1 |-> 0, index2 |-> 0]
    IN  [Schedule(key, identity, 0, Top) EXCEPT !.index2 = 0]

Increment(s) ==
    LET i == (s.index1 + 1) % Radix
        j == (s.index2 + s.box[i]) % Radix
    IN  [box |-> Swap(s.box, i, j), index1 |-> i, index2 |-> j]

\* transform_in_place, by halves.
RECURSIVE Transform(_, _)
Transform(state, bytes) ==
    LET s    == Increment(state)
        k    == (s.box[s.index1] + s.box[s.index2]) % Radix
        half == Len(bytes) \div 2
        a    == Transform(state, SubSeq(bytes, 1, half))
        b    == Transform(a.state, From(bytes, half + 1))
    IN  IF bytes = <<>> THEN [bytes |-> <<>>, state |-> state]
        ELSE IF Len(bytes) = 1
        THEN [bytes |-> <<bytes[1] ^^ s.box[k]>>, state |-> s]
        ELSE [bytes |-> a.bytes \o b.bytes, state |-> b.state]
=============================================================================
