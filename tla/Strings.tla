------------------------------ MODULE Strings -------------------------------
(***************************************************************************)
(* The strings of src/common/containers/string_utils.h, with               *)
(* MUTABLE_STRINGS: a short text lies in the struct itself, where a longer *)
(* one has the pointer to its block.  The client has two strings.          *)
(***************************************************************************)
EXTENDS Container

CONSTANT Sso    (* sizeof sso_string, 8 in the code; of a pointer, too *)

ASSUME StringsAssumption == Sso \in Nat \ {0}

Str == 1 .. 2

(* A string that is not in use.  room, which is not in the code, is the length
   of the block that data.mem points to.                                   *)
NoString == [live |-> FALSE, text |-> << >>, is_sso |-> FALSE, capacity |-> 0, room |-> 0]

OnHeap(text, capacity, room) ==
  [live |-> TRUE, text |-> text, is_sso |-> FALSE, capacity |-> capacity, room |-> room]

(* A text with its NUL, in a block or an array of just that length. *)
Bytes(text) == Len(text) + 1
Exact(text) == OnHeap(text, Bytes(text), Bytes(text))
InStruct(text) == [live |-> TRUE, text |-> text, is_sso |-> TRUE, capacity |-> Sso, room |-> 0]

StringsInit == s = [str |-> [v \in Str |-> NoString], fault |-> "none"]

(* The C strings the client passes. *)
Literal == {[i \in 1 .. n |-> x] : n \in {0, 1, Sso}, x \in Item}

Live(v) == s.str[v].live
Becomes(v, q) == s' = [s EXCEPT !.str[v] = q] /\ UNCHANGED out
Stops(why) == s' = Stopped(s, why) /\ UNCHANGED out

(* A block of the string: allocated, or NULL, which stops the caller. *)
BlockFor(v, text, why) == Becomes(v, Exact(text)) \/ Stops(why)

(* The text goes where the string is; its block is long enough if the code
   knows the block's length.                                               *)
InPlace(v, text) ==
  LET q == s.str[v]
  IN  IF Bytes(text) > q.room THEN Stops("overrun")
      ELSE Becomes(v, OnHeap(text, q.capacity, q.room))

Create(v, text) ==
  /\ ~Live(v)
  /\ IF Bytes(text) > Sso THEN BlockFor(v, text, "assert") ELSE Becomes(v, InStruct(text))

(* string32_append() looks at the new length alone: when that is short, it
   writes to the struct, over the pointer of a string that has a block.  Only
   a NUL may find the same byte there.                                     *)
StrAppend(v, text) ==
  LET q == s.str[v]
      all == q.text \o text
  IN  /\ Live(v) /\ Bytes(all) <= MaxLen
      /\ IF Bytes(all) <= Sso
         THEN IF q.is_sso THEN Becomes(v, InStruct(all))
              ELSE Stops("overrun") \/ (text = << >> /\ UNCHANGED <<s, out>>)
         ELSE IF q.is_sso \/ q.capacity < Bytes(all) THEN BlockFor(v, all, "null")
         ELSE InPlace(v, all)

(* string32_modify() leaves a text in the block it has.  Into the struct it
   copies Sso bytes, those behind the end of a shorter C string as well.   *)
Modify(v, text) ==
  LET q == s.str[v]
  IN  /\ Live(v)
      /\ IF Bytes(text) <= Sso /\ q.is_sso
         THEN Becomes(v, InStruct(text)) \/ (Bytes(text) < Sso /\ Stops("overread"))
         ELSE IF q.capacity < Bytes(text) THEN BlockFor(v, text, "null")
         ELSE InPlace(v, text)

(* string32_dup_char() and string32_dup() of w: the block is as long as the
   text, the capacity that of w.  string32_dup() allocates the struct as well,
   also for a text that lies in it, and writes to what it got unseen.      *)
DupChar(v, w) ==
  LET q == s.str[w]
  IN  /\ ~Live(v) /\ Live(w)
      /\ \/ Becomes(v, IF q.is_sso THEN q ELSE OnHeap(q.text, q.capacity, Bytes(q.text)))
         \/ Stops("null")

(* string32_cstr_free(), string32_free() *)
CstrFree(v) == Live(v) /\ Becomes(v, NoString)

(* The block is longer than the text needs, or said to be so. *)
Shortened(q) == ~q.is_sso /\ Bytes(q.text) < q.capacity

(* string32_compare().  Texts of one length are equal only where both lie in
   their structs or neither does; the client compares no string whose block is
   longer than its text, which may be as short as one without a block.     *)
Compare ==
  /\ \A v \in Str : Live(v) /\ ~Shortened(s.str[v])
  /\ out' = IF s.str[1].is_sso = s.str[2].is_sso /\ s.str[1].text = s.str[2].text THEN 1 ELSE Zero
  /\ UNCHANGED s

StringsNext ==
  \/ \E v \in Str, text \in Literal : Create(v, text) \/ StrAppend(v, text) \/ Modify(v, text)
  \/ \E v, w \in Str : DupChar(v, w)
  \/ \E v \in Str : CstrFree(v)
  \/ Compare

Texts == [v \in Str |-> IF Live(v) THEN <<s.str[v].text>> ELSE << >>]

(* A text fits where it lies, and nothing is written past a block or over its
   pointer but where a block had become longer than its text.              *)
StringsSound ==
  /\ \A v \in Str : Live(v) =>
       LET q == s.str[v]
       IN  IF q.is_sso THEN Bytes(q.text) <= Sso
           ELSE Bytes(q.text) <= q.room /\ q.capacity > Sso
  /\ s.fault = "overrun" => \E v \in Str : Live(v) /\ Shortened(s.str[v])
=============================================================================
