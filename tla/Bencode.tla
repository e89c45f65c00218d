------------------------------ MODULE Bencode ------------------------------
(***************************************************************************)
(* bencode.cpp: the parser and the encoder.  A text is a sequence of       *)
(* symbols; a symbol is one byte, or one word that stands for a string the *)
(* program compares as a whole ("info", a URL) and counts as one byte.     *)
(* A value is [int |-> n], [str |-> text], [list |-> sequence of values]   *)
(* or [dict |-> function from texts to values].                            *)
(*                                                                         *)
(* The definitions are recursive: this module is for TLC.                  *)
(***************************************************************************)
EXTENDS Integers, SequencesExt

CONSTANTS
  Alphabet,      \* the symbols, in the order of their bytes
  IntMax         \* BInt holds -IntMax - 1 .. IntMax

Digits == <<"0", "1", "2", "3", "4", "5", "6", "7", "8", "9">>

ASSUME BencodeAssumption ==
  /\ IntMax \in Nat
  /\ {"i", "l", "d", "e", ":", "-"} \cup ToSet(Digits) \subseteq ToSet(Alphabet)

is_int(v)    == "int"  \in DOMAIN v
is_string(v) == "str"  \in DOMAIN v
is_list(v)   == "list" \in DOMAIN v
is_dict(v)   == "dict" \in DOMAIN v

IsDigit(c) == c \in ToSet(Digits)

(* The first place of c from a place on; 0 for npos and for the end. *)
find(raw, c, from) == SelectInSubSeq(raw, from, Len(raw), LAMBDA s : s = c)

(* Where a text is found in another; the first place of it, or 0. *)
Places(raw, text) ==
  {p \in 1 .. Len(raw) - Len(text) + 1 : SubSeq(raw, p, p + Len(text) - 1) = text}

FirstPlace(raw, text) == IF Places(raw, text) = {} THEN 0 ELSE Min(Places(raw, text))

(* The digits a text starts with. *)
LeadingDigits(text) ==
  LET other == SelectInSeq(text, LAMBDA c : ~IsDigit(c))
  IN IF other = 0 THEN text ELSE SubSeq(text, 1, other - 1)

Value(digits) ==
  FoldLeft(LAMBDA n, c : 10 * n + SelectInSeq(Digits, LAMBDA d : d = c) - 1, 0, digits)

-----------------------------------------------------------------------------
(* Parser: the value that starts at cur, and cur after it; or an exception. *)

Parsed(cur, v) == [cur |-> cur, val |-> v]
Throws == [cur |-> 0]
Failed(result) == result.cur = 0

(* from_chars takes a sign and nothing but digits, and fails when the       *)
(* number does not fit.                                                    *)
parse_integer(raw, cur) ==
  LET ends     == find(raw, "e", cur + 1)
      text     == SubSeq(raw, cur + 1, ends - 1)
      negative == text # <<>> /\ Head(text) = "-"
      digits   == IF negative THEN Tail(text) ELSE text
      n        == IF negative THEN -Value(digits) ELSE Value(digits)
  IN IF /\ ends # 0
        /\ digits # <<>> /\ LeadingDigits(digits) = digits
        /\ n \in -IntMax - 1 .. IntMax
       THEN Parsed(ends + 1, [int |-> n])
       ELSE Throws

(* What stands between the length's digits and the colon is not looked at. *)
parse_string(raw, cur) ==
  LET colon  == find(raw, ":", cur)
      digits == LeadingDigits(SubSeq(raw, cur, colon - 1))
      last   == colon + Value(digits)
  IN IF colon # 0 /\ digits # <<>> /\ last <= Len(raw)
       THEN Parsed(last + 1, [str |-> SubSeq(raw, colon + 1, last)])
       ELSE Throws

Item(first, rest) ==
  IF Failed(first) \/ Failed(rest) THEN Throws
  ELSE Parsed(rest.cur, <<first.val>> \o rest.val)

(* emplace: of two equal keys the first stays. *)
Entry(key, val, rest) ==
  IF Failed(key) \/ Failed(val) \/ Failed(rest) THEN Throws
  ELSE Parsed(rest.cur, (key.val.str :> val.val) @@ rest.val)

Wrapped(field, result) ==
  IF Failed(result) THEN Throws ELSE Parsed(result.cur, field :> result.val)

(* at[<<"value", cur>>] is parse() at cur; "items" and "entries" are what    *)
(* the loops of parse_list and parse_dict have left to read from cur on.   *)
parse(raw) ==
  LET after(result) == IF Failed(result) THEN Len(raw) + 1 ELSE result.cur
      at[p \in {"value", "items", "entries"} \X (1 .. Len(raw) + 1)] ==
        LET what == p[1]
            cur  == p[2]
        IN
        CASE cur > Len(raw) -> Throws
          [] cur <= Len(raw) /\ what = "value" ->
               CASE raw[cur] = "i"    -> parse_integer(raw, cur)
                 [] raw[cur] = "l"    -> Wrapped("list", at[<<"items", cur + 1>>])
                 [] raw[cur] = "d"    -> Wrapped("dict", at[<<"entries", cur + 1>>])
                 [] IsDigit(raw[cur]) -> parse_string(raw, cur)
                 [] OTHER             -> Throws
          [] cur <= Len(raw) /\ what # "value" /\ raw[cur] = "e" ->
               Parsed(cur + 1, <<>>)
          [] cur <= Len(raw) /\ what = "items" /\ raw[cur] # "e" ->
               LET item == at[<<"value", cur>>]
               IN Item(item, at[<<"items", after(item)>>])
          [] cur <= Len(raw) /\ what = "entries" /\ raw[cur] # "e" ->
               LET key == parse_string(raw, cur)
                   val == at[<<"value", after(key)>>]
               IN Entry(key, val, at[<<"entries", after(val)>>])
  IN at[<<"value", 1>>]

(* What follows the first value is not looked at. *)
decode(raw) == parse(raw)

-----------------------------------------------------------------------------
(* Encoder *)

DigitsOf[n \in Nat] ==
  IF n < 10 THEN <<Digits[n + 1]>> ELSE Append(DigitsOf[n \div 10], Digits[(n % 10) + 1])

Decimal(n) == IF n < 0 THEN <<"-">> \o DigitsOf[-n] ELSE DigitsOf[n]

EncodeString(text) == Decimal(Len(text)) \o <<":">> \o text

Byte(c) == SelectInSeq(Alphabet, LAMBDA s : s = c)

(* The order of std::map: a prefix first, otherwise by the first difference.*)
Before(k1, k2) ==
  \/ IsStrictPrefix(k1, k2)
  \/ \E n \in DOMAIN k1 \cap DOMAIN k2 :
       SubSeq(k1, 1, n - 1) = SubSeq(k2, 1, n - 1) /\ Byte(k1[n]) < Byte(k2[n])

RECURSIVE encode(_)

encode(v) ==
  CASE is_int(v)    -> <<"i">> \o Decimal(v.int) \o <<"e">>
    [] is_string(v) -> EncodeString(v.str)
    [] is_list(v)   ->
         <<"l">> \o FoldLeft(LAMBDA out, x : out \o encode(x), <<>>, v.list) \o <<"e">>
    [] is_dict(v)   ->
         <<"d">> \o FoldLeft(LAMBDA out, k : out \o EncodeString(k) \o encode(v.dict[k]),
                             <<>>, SetToSortSeq(DOMAIN v.dict, Before)) \o <<"e">>
=============================================================================
